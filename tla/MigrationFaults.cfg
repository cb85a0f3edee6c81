SPECIFICATION FaultSpec
CONSTANTS
  a = a
  b = b
  c = c
  r1 = r1
  Inst <- MCInst
  Req <- MCReq
  NoReq = NoReq
  Prefill = {}
  Policy = "LCR"
  TotalBlocks = 6
  Watermark = 0
  MaxBlocks = 4
  LastStageMax = 1
  MaxStages = 2
  MaxCrashes = 1
  MaxTasks = 2
SYMMETRY Symmetry
INVARIANTS
  SingleOwnerUnlessLate
  LiveBlocksConserved
CHECK_DEADLOCK FALSE
