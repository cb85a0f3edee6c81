SPECIFICATION Spec
CONSTANTS
  i1 = i1
  i2 = i2
  i3 = i3
  Ids <- MCIds
  NoId = NoId
  MaxInstances = 2
  Initial = 1
  Scaling = TRUE
  RP = 1
  RD = 2
  PortStore = TRUE
  Gpus = 3
  MaxPort = 4
  MaxFaults = 0
  MaxRestarts = 1
SYMMETRY Symmetry
INVARIANTS
  CountsExact
  PortsUnique
  RatioKept
PROPERTY GroupsBounded
CHECK_DEADLOCK FALSE
