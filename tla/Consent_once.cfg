SPECIFICATION Spec
CONSTANTS
  None = None
  Invocations = {a, b, c}
  Approved = {a, b, c}
  Supported = {a, b}
  BrowserActions = {b}
  Scopes = {s1, s2}
  Declared = {s1}
  Bodies = {b1, b2}
INVARIANTS OneAnswerEach
CHECK_DEADLOCK FALSE
