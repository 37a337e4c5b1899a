SPECIFICATION FairSpec
CONSTANTS
  r0 = r0
  r1 = r1
  r2 = r2
  r3 = r3
  r4 = r4
  r5 = r5
  Rows <- MCRows
  StartTime <- MCStartTime
  Id <- MCId
  Punctual <- MCPunctual
  Start = 1
  read_threshold = 2
  max_call_time = 3
  max_queue_size = 2
  read_waiting = 2
  MaxTime = 13
INVARIANTS AtMostOnce WatermarkComplete
PROPERTIES DisorderBelowMaxCallTime ImplementsFeed EventuallyRead
CHECK_DEADLOCK FALSE
