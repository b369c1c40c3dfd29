SPECIFICATION TransportSpec
CONSTANTS
  maxConnections = 2
  maxReadBytes = 0
  maxWriteBytes = 0
  maxCancelHandles = 2
  maxCancelRequests = 1
  Sizes = {1}
  MaxSockets = 3
  MaxArrived = 0
  MaxHanded = 0
INVARIANTS OneHandlePerSocket AttemptsWithinQuota
PROPERTY HandlesNeverReused
CHECK_DEADLOCK FALSE
