SPECIFICATION Spec
CONSTANTS
  o1 = o1
  t2 = t2
  o3 = o3
  x4 = x4
  x5 = x5
  k1 = k1
  k2 = k2
  k3 = k3
  k5 = k5
  Legs <- MCLegs
  Orig <- MCOrig
  LegUid <- MCLegUid
  LegTime <- MCLegTime
  LegId <- MCLegId
  Links <- MCLinks
  LinkOrig <- MCLinkOrig
  LinkTerm <- MCLinkTerm
  LinkTime <- MCLinkTime
  LinkId <- MCLinkId
  Start = 1
  read_threshold = 1
  max_call_time = 2
  max_queue_size = 3
INVARIANTS OnePlace NothingLeavesEarly
PROPERTIES EmittedIsFinal
