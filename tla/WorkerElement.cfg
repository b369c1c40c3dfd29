CONSTANTS
  WorkerElements = {w1, w2}
  PlainElements = {p}
  None = None
SPECIFICATION Spec
INVARIANTS TypeOK ReportsSound
PROPERTY RunsEnd
CHECK_DEADLOCK FALSE
