SPECIFICATION FairSpec
CONSTANTS
  Callers = {c1}
  Steps = {1, 2}
  LayerOf <- InParallel
  MaxIterations = 2
  Plans = {p1}
  NoPlan = NoPlan
  NoCheckpoint = NoCheckpoint
PROPERTY FinishedIsSaved
