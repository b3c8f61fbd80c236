SPECIFICATION Parts
CONSTANTS
  Jobs = {j1, j2}
  MaxSubagents = 1
  Skill = {s1, s2}
  Name = {1, 2, 3}
  MaxTimers = 2
  MaxOrder = 4
  Caller = {c1, c2, c3}
  MaxNested = 2
  Event = {done, late}
  AwayOnly = {done}
  OnceDaily = {late}
  Cooldown <- ShortCooldowns
  UnitsPerDay = 4
  MaxTime = 4
  MaxUnfinished = 1
  Texts = {reply, said, more}
  Reply = reply
  Stop = Stop
  MaxQueue = 2
CHECK_DEADLOCK FALSE
INVARIANTS InterruptReachesChildren RingsUnlessCalledOff AnswerIsOwn InterruptionIsExact SilentAfterStop
PROPERTIES OnlyBlamedStop EveryJobEnds ImplementsStore UserIsNotPestered EndIsAnnounced ThreadExits
