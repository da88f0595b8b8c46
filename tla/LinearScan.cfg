SPECIFICATION FairSpec
CONSTANTS
  PoolLen <- TwoRegisters
  NVregs  <- FiveVregs
  MaxPos  <- FourPositions
INVARIANTS
  ConflictFree
  PoolPartition
  FrameExact
  ScanInv
  SpillsNeedPressure
PROPERTIES
  HomesSettle
  EveryVregPlaced
CHECK_DEADLOCK FALSE
