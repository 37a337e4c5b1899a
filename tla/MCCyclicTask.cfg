SPECIFICATION FairSpec
CONSTANTS
  Names = {"a", "b"}
  Texts = {"x", "y"}
  Threads = 2
  ErrorsKept = 2
  MaxTasks = 2
  MaxErrors = 4
INVARIANTS OneChain DeletedInTimeStaysQuiet ErrorLogFaithful
PROPERTIES Recurs
CHECK_DEADLOCK FALSE
