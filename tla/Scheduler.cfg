SPECIFICATION Both
CONSTANTS
  MaxIds = 3
  MaxTime = 3
  MaxManual = 1
  MaxCrashes = 2
  MaxTasks = 1
  Periods = {1}
  Skips <- OneSkip
  Flags = {away}
  Legacy <- Files
CHECK_DEADLOCK FALSE
INVARIANTS
  CancelIsFinal
  FileIsUpToDate
PROPERTIES
  ClaimedOnce
  NothingLeftOverdue
  ArmedTasksAreClaimed
