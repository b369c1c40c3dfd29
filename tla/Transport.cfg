SPECIFICATION TransportSpec
CONSTANTS
  maxConnections = 1
  maxReadBytes = 2
  maxWriteBytes = 2
  maxCancelHandles = 0
  maxCancelRequests = 0
  Sizes = {1, 2}
  MaxSockets = 1
  MaxArrived = 3
  MaxHanded = 3
INVARIANTS TransportTypeOK BytesAccounted
PROPERTY EveryRequestReturns
CHECK_DEADLOCK FALSE
