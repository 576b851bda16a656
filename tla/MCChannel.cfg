CONSTANTS
  Item = {i1, i2, i3}
  Consumer = {c1}
  Worker = {w1, w2}
  MaxCount = 2
  NoItem = NoItem
  ThSize = 1
SPECIFICATION ChanFairSpec
INVARIANTS
  ChanTypeOK
  NoLostWakeup
  NoSleepAfterStop
  DrainedWhenJoined
  NoOrphanThread
PROPERTIES
  ItemsAreTaken
  StopReturns
CHECK_DEADLOCK FALSE
