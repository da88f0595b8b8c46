SPECIFICATION FairSpec
CONSTANTS
  t1 = t1
  t2 = t2
  Threads <- OneThread
  HeapEnd = 3
  MaxRefs = 2
  Sites = {"Alloc"}
INVARIANT FreeListSound
CHECK_DEADLOCK FALSE
