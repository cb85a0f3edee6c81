SPECIFICATION Spec
CONSTANTS
  a = a
  b = b
  c = c
  r1 = r1
  r2 = r2
  Inst <- MCInstPD
  Req <- MCReq
  NoReq = NoReq
  Prefill <- MCPrefill
  Policy = "LCR"
  TotalBlocks = 4
  Watermark = 0
  MaxBlocks = 3
  LastStageMax = 1
  MaxStages = 2
  NoInst = NoInst
SYMMETRY SymmetryPD
INVARIANTS
  OneToOne
  MigratingFlagEnds
