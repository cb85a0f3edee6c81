SPECIFICATION FairSpec
CONSTANTS
  p = p
  d = d
  r1 = r1
  r2 = r2
  Inst <- MCInst
  Prefill <- MCPrefill
  Own <- MCOwn
  Req <- MCOneReq
  NoInst = NoInst
  PD = TRUE
  MaxDeaths = 1
  MaxCrashes = 2
INVARIANTS
  CancelledNotSubmitted
  
PROPERTY RoutesRestored
PROPERTY GenerateReturns
CHECK_DEADLOCK FALSE
