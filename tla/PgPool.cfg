CONSTANTS
  maxPools = 2
  maxLeases = 2
  maxConnectionsPerPool = 2
  idleTimeout = 1
  maxLifetime = 2
  MaxTime = 2
  MaxPool = 2
  MaxChannel = 3
  MaxLease = 3
  ClosesRefused = {2}
  Traps = {"open", "grow", "reset", "probe", "close"}
SPECIFICATION Spec
INVARIANTS
  TypeOK
  LeaseSound
  ChannelsSound
  CountsHold
PROPERTY LeasesFresh
\* The clock, the ids and so the provider's life are bounded.
CHECK_DEADLOCK FALSE
