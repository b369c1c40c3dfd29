CONSTANT MaxCalls = 3
SPECIFICATION Spec
INVARIANTS
  TypeOK
  NoLostWakeup
  OwnReplyUntilAbandoned
  FetchesSound
PROPERTY EveryCallReturns
\* The last permitted call returns and nothing is left to do.
CHECK_DEADLOCK FALSE
