SPECIFICATION Parts
CONSTANTS
  Callers = {c1, c2}
  Steps = {1, 2, 3}
  LayerOf <- LastAlone
  MaxIterations = 2
  Plans = {p1}
  NoPlan = NoPlan
  NoCheckpoint = NoCheckpoint
  Size = 4
  Kinds <- FewKinds
  Resources = {dir, file, desktop}
  dir = dir
  file = file
  Desktop = desktop
  Overlap <- Inside
SYMMETRY Symmetry
INVARIANTS
  InterruptionIsObeyed
  OneLayerAfter
  NothingIsSkipped
  ResumeRepeatsNothing
  NeverTogether
  NeedsComeFirst
  AllStepsRun
PROPERTIES
  CheckpointKeepsSuccesses
