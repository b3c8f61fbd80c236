SPECIFICATION Spec
CONSTANTS
  Requests = 2
  Chunks = 1
  Restarts = 1
INVARIANT StoppedIsDiscarded
CHECK_DEADLOCK FALSE
