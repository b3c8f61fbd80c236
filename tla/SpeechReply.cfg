SPECIFICATION Spec
CONSTANTS
  Texts = {reply, t1, t2}
  Reply = reply
  Stop = Stop
  MaxQueue = 2
SYMMETRY TextSymmetry
CHECK_DEADLOCK FALSE
INVARIANT ReplyIsOver
