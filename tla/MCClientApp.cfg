SPECIFICATION AppSpec
CONSTANTS
  None = None
  download = download
  action = action
  direct = direct
  good = good
  bad = bad
  Invocations = {download, action, direct}
  Approved = {download, action, direct}
  Supported = {download, action, direct}
  BrowserActions = {action}
  Scopes = {s1, s2}
  Declared = {s1}
  Bodies = {b1}
  Ported = {download, action}
  Contents = {good, bad}
  Downloads = {download}
  Pin <- PinGood
  Origins = {o1, o2}
  DeclaredOrigins = {o1}
INVARIANTS AppTypeOK SentAsAgreed QuestionAnswerable MountedAsPinned RepliesTrue
PROPERTY ReadingEnds
CHECK_DEADLOCK FALSE
