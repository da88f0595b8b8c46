SPECIFICATION Spec
CONSTANTS
  Cap = 4
  Argvs <- TooMany
  Entries <- ByKernel
INVARIANTS
  NeverAFault
CHECK_DEADLOCK FALSE
