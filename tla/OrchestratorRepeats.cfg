SPECIFICATION Spec
CONSTANTS
  Callers = {c1}
  Steps = {1, 2}
  LayerOf <- InSequence
  MaxIterations = 2
  Plans = {p1}
  NoPlan = NoPlan
  NoCheckpoint = NoCheckpoint
SYMMETRY Symmetry
INVARIANTS
  ResumesOnlyUnfinished
