SPECIFICATION Spec
CONSTANTS
  h1 = h1
  kA = kA
  kB = kB
  N = 4
  Type <- MCType
  Capable = {1, 2, 3, 4}
  Key <- MCKey
  Schedulers <- MCSchedulers
  Adapters <- MCAdapters
  Hashes <- MCHashes
  Policy = "load"
  TopK = 1
  DispatchMetric = "virtual_usage"
  MigrationMetric = "remaining_steps"
  VirtualUsage <- MCVirtualUsage
  Defrag = TRUE
  MigrateOut <- MCMigrateOut
  Total = 5
  Watermark = 1
  MaxRequests = 2
INVARIANTS
  SnapshotsFresh
  RolesKept
  HealthFirst
  PairsSound
CHECK_DEADLOCK FALSE
