SPECIFICATION Spec
CONSTANTS
  Cap = 4
  Argvs <- LongLeads
  Entries <- ByKernel
INVARIANTS
  ArgumentsAreDecoded
CHECK_DEADLOCK FALSE
