SPECIFICATION FairSpec
CONSTANTS
  a = a
  b = b
  c = c
  r1 = r1
  r2 = r2
  Inst <- MCInst
  Req <- MCReq
  NoReq = NoReq
  Prefill = {}
  Policy = "FCWSR"
  TotalBlocks = 4
  Watermark = 1
  MaxBlocks = 3
  LastStageMax = 1
  MaxStages = 2
  NoInst = NoInst
INVARIANTS
  IInv
  NotLost
  BlocksConserved
  FrozenCommitComplete
PROPERTY MigrationEnds
PROPERTY ImplementsOwnership
