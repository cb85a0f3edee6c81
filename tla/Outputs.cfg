SPECIFICATION FairSpec
CONSTANTS
  r1 = r1
  r2 = r2
  s1 = s1
  s2 = s2
  Req <- MCReq
  Srv <- MCSrv
  Final = 2
  Placements <- MCPlacements
  MaxFaults = 1
INVARIANTS
  StreamInOrder
  ServersIsolated
PROPERTY StreamsEnd
CHECK_DEADLOCK FALSE
