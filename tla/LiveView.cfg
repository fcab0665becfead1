SPECIFICATION FairSpec
CONSTANTS
  t1 = t1
  w1 = w1
  w2 = w2
  c1 = c1
  c2 = c2
  Tabs <- OneTab
  Writers <- TwoWriters
  Threads <- TwoThreads
  Buffer = 1
  MaxAsks = 2
  Scenes <- MCScenes
INVARIANTS
  TypeOK
  QuietListIsFresh
  QuietBadgeIsFresh
  OpenThreadIsCurrent
PROPERTIES
  EventuallySettled
CHECK_DEADLOCK FALSE
