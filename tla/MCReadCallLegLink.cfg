SPECIFICATION Spec
CONSTANTS
  c1 = c1
  c2 = c2
  Calls = {c1, c2}
  Servers = {1, 2}
  Home <- MCHome
  table_reload_time = 1
  MaxDrops = 1
  Links <- MCLinks
  LinkOrig <- MCCallOrig
  LinkTerm <- MCCallTerm
  CallOrig <- MCCallOrig
  CallTerm <- MCCallTerm
  NoUid = 0
  max_queue_size = 1
PROPERTIES HeldUntilOver EveryLinkReleased NoFlicker CopyConverges
