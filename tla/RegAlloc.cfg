SPECIFICATION FairSpec
CONSTANTS
  PoolLen <- TwoRegisters
  NVregs  <- FiveVregs
  MaxPos  <- Positions
  Functions <- WellFormed
INVARIANTS
  ReadsAreIntact
  LivenessIsExact
PROPERTIES
  AllocationEnds
CHECK_DEADLOCK FALSE
