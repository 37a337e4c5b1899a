SPECIFICATION WebSpec
CONSTANTS
  MaxRetries = 1
  Clients = {"c1", "c2"}
  Paths <- MCPaths
  Threads = 1
INVARIANTS EventsInOrder PageFindsItsObjects
PROPERTIES SignalEndsRun EveryRequestAnswered
CHECK_DEADLOCK FALSE
