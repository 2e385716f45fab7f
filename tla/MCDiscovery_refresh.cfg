SPECIFICATION FairDiscSpec
CONSTANTS
  Server = {s1, s2}
  t1 = t1
  t2 = t2
  Thread = {t1, t2}
  NoServer = NoServer
  NoList = NoList
  Mixed = Mixed
  Size = 2
  Slots <- TwoSlots
INVARIANTS
  DiscTypeOK
  NotedOnce
  ListsAreWhole
  ListsAreAttributed
PROPERTIES
  RefreshEnds
CHECK_DEADLOCK FALSE
