SPECIFICATION SyncSpec
CONSTANTS
  MaxPulls = 2
  CountBits = 3
  Requests <- MCRequests
  _only_full_pull_is_supported = FALSE
INVARIANTS PullSafe CountersSettle
PROPERTIES EveryEventPulled WorkerEnds
CHECK_DEADLOCK FALSE
