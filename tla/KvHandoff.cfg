SPECIFICATION FairSpec
CONSTANTS
  p1 = p1
  d1 = d1
  r1 = r1
  r2 = r2
  Prefill <- MCPrefill
  Decode <- MCDecode
  Req <- MCReq
  Layers = 2
  NoEnd = NoEnd
  MaxFaults = 2
INVARIANTS
  AckedIsStored
  NoResidue
PROPERTY HandoffEnds
CHECK_DEADLOCK FALSE
