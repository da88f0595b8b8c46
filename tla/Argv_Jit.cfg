SPECIFICATION Spec
CONSTANTS
  Cap = 4
  Argvs <- NoArguments
  Entries <- ByHost
INVARIANTS
  NeverAFault
CHECK_DEADLOCK FALSE
