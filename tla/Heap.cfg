SPECIFICATION FairSpec
CONSTANTS
  t1 = t1
  t2 = t2
  Threads <- OneThread
  HeapEnd = 5
  MaxRefs = 2
  Sites = {"String"}
INVARIANTS
  FreeListSound
PROPERTIES
  ReleasedReturns
  IsRefHeap
CHECK_DEADLOCK FALSE
