SPECIFICATION FairSpec
CONSTANTS
  PoolLen = 1
  NVregs  = 3
  MaxPos  = 3
PROPERTY SpillsTheFurthest
CHECK_DEADLOCK FALSE
