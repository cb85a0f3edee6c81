SPECIFICATION FairSpec
CONSTANTS
  a = a
  b = b
  c = c
  t1 = t1
  t2 = t2
  Inst <- MCInst
  Task <- MCTask
  MaxPushes = 1
  MayEmpty = FALSE
INVARIANTS
  RebuildInv
  Converged
PROPERTY MigrationResumes
