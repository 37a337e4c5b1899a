SPECIFICATION FairSpec
CONSTANTS
  o1 = o1
  t2 = t2
  x3 = x3
  x4 = x4
  k1 = k1
  k2 = k2
  k3 = k3
  Legs <- MCLegs
  Orig <- MCOrig
  LegUid <- MCLegUid
  LegTime <- MCLegTime
  LegId <- MCLegId
  Links <- MCLinks
  LinkOrig <- MCLinkOrig
  LinkTerm <- MCLinkTerm
  LinkTime <- MCLinkTime
  LinkId <- MCLinkId
  Start = 1
  read_threshold = 1
  max_call_time = 2
  max_queue_size = 2
PROPERTIES EveryCallEmitted PauseEnds
