SPECIFICATION FairSpec
CONSTANTS
  i1 = i1
  i2 = i2
  i3 = i3
  Ids <- MCTwoIds
  NoId = NoId
  MaxInstances = 2
  Initial = 0
  Scaling = TRUE
  RP = 1
  RD = 1
  PortStore = TRUE
  Gpus = 2
  MaxPort = 3
  MaxFaults = 1
  MaxRestarts = 1
PROPERTY GroupsSettle
CHECK_DEADLOCK FALSE
