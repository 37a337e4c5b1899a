SPECIFICATION Spec
CONSTANTS
  IntBits = 5
  LongBits = 8
  Years <- MCYears
  SplitTexts <- MCSplitTexts
  Queries <- MCQueries
  ByteTexts <- MCByteTexts
  NumberTexts <- MCNumberTexts
  Moments <- MCMoments
  Zones <- MCZones
  Files <- MCFiles
  ParamCalls <- MCParamCalls
  Keys = {1, 2, 3}
  KeyValues <- MCKeyValues
  Records <- MCRecords
  ListRows <- MCListRows
  Loaders = {t1, t2}
  RowCounts = {0, 2}
  MaxLoads = 3
  CounterIds = {1, 2}
  Users = {u1, u2, u3}
  Threshold = 2
  MaxSecond = 4
  MaxConnections = 4
  Objects = {o1, o2}
  Counts = {0, 1, 2}
  MaxResults = 3
  QueueSize = 4
  MinGap = 1
  Chunks = {1, 3}
  Pauses = {0, 4}
  MaxChunks = 6
  ArgLists <- MCArgLists
  Openable <- MCOpenable
  MaxLogged = 3
INVARIANTS HelpersExact WholeForReaders OneHandEach StopWaits ResultsOwned PaceKept StatementsExact CallReported EachInItsFile
PROPERTY ClosedWhenIdle
CHECK_DEADLOCK FALSE
