SPECIFICATION Parts
CONSTANTS
  Holder = {hotkey, character}
  Click = click
  Requests = 3
  Chunks = 1
  Restarts = 2
  Voice = {v1, v2}
  Text = {t1}
  MaxTools = 1
INVARIANTS KeyUpReleases WakeupIsNotLost NobodyLeftListening OutputIsItsOwn ChannelIsRestored
PROPERTIES ActivationsAreTaken CancelHitsTheRunning
CHECK_DEADLOCK FALSE
