SPECIFICATION MCFairSpec
CONSTANTS
  TaskKeys = {k1, k2}
  Updates = {1, 2, 3, 4}
  MaxSaveQueueSize = 3
  MaxBatchSize = 2
  MaxStreamLen = 2
INVARIANTS
  AcceptedKept
  CountsPending
  IdleReapSavesAll
PROPERTIES
  LogSpec
  Flushed
