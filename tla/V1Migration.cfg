SPECIFICATION FairSpec
CONSTANTS
  a = a
  b = b
  c = c
  r1 = r1
  t1 = t1
  t2 = t2
  Inst <- MCInstPD
  Req <- MCOneReq
  Task <- MCTask
  NoInst = NoInst
  NoReq = NoReq
  Prefill <- MCPrefill
  Pairs <- MCPairs
  Incremental = TRUE
  MaxEpoch = 3
  MaxFaults = 1
INVARIANTS
  OneOwner
  NotLost
  FrozenHasTask
  ImportHasTask
  OneRunner
  StreamFollows
  PrefixSafe
PROPERTY TasksEnd
CHECK_DEADLOCK FALSE
