SPECIFICATION Spec
CONSTANTS
  Size = 4
  Kinds <- Referring
  Resources = {dir, file, desktop}
  dir = dir
  file = file
  Desktop = desktop
  Overlap <- Inside
CHECK_DEADLOCK FALSE
INVARIANTS OutputsAreThere
