SPECIFICATION Parts
CONSTANTS
  NoTask = NoTask
  Tasks = {t1, t2}
  Ids = {t1, t2}
  IdOf <- FreshIds
  Workers = {w1, w2}
  Priorities = {10, 50}
  SentinelPriority = 99
  MaxResults = 1
  MaxShutdowns = 1
  Users = {c1}
  PlanSteps = {1, 2}
  Plans = {p1}
  MaxIterations = 2
  NoPlan = NoPlan
  NoCheckpoint = NoCheckpoint
  Step = {s1, s2}
  Slots = 1
  MaxRetries = 2
INVARIANTS LiveTasksAreCancellable RegisteredTasksHaveOnePlace OneProcessAfter
PROPERTIES CancellingShutdownIsFinal ImplementsLifecycle EveryTaskSettles WorkersExit CallsReturn StepsEnd
