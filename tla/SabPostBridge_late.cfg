CONSTANT MaxCalls = 2
SPECIFICATION Spec
INVARIANT OwnReplyAlways
CHECK_DEADLOCK FALSE
