SPECIFICATION FabricSpec
CONSTANTS
  t1 = t1
  t2 = t2
  t3 = t3
  Threads <- MCThreads
  NumChannels = 1
  Capacity = 1
  MaxItems = 3
  MaxFutures = 3
  MaxAdded = 1
INVARIANTS
  NoLostWakeup
  RunOnce
PROPERTIES
  ImplementsFifo
  CloseReleases
  DrainsEnd
CHECK_DEADLOCK FALSE
