SPECIFICATION LogSpec
CONSTANTS
  Loggers = {"p1", "p2"}
  Texts = {"a"}
  Delay <- MCDelay
  KeepDelay = 2
  Epoch = 3
  MaxTime = 5
  MaxSends = 3
INVARIANTS NoSendLost
PROPERTIES EverySendWritten LogThreadEnds
CHECK_DEADLOCK FALSE
