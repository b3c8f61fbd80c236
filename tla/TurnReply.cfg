SPECIFICATION Spec
CONSTANTS
  Voice = {v1, v2}
  Text = {t1}
  MaxTools = 1
INVARIANT ReplyIsItsOwn
CHECK_DEADLOCK FALSE
