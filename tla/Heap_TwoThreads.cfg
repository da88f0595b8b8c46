SPECIFICATION FairSpec
CONSTANTS
  t1 = t1
  t2 = t2
  Threads <- TwoThreads
  HeapEnd = 2
  MaxRefs = 2
  Sites = {"String"}
INVARIANT OneReleasePushes
CHECK_DEADLOCK FALSE
