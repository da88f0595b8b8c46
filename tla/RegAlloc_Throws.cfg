SPECIFICATION FairSpec
CONSTANTS
  PoolLen <- WholePool
  NVregs  <- FiveVregs
  MaxPos  <- Positions
  Functions <- Throws
INVARIANT ReadsAreIntact
CHECK_DEADLOCK FALSE
