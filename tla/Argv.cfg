SPECIFICATION Spec
CONSTANTS
  Cap = 4
  Argvs <- SomeArgvs
  Entries <- BothEntries
INVARIANTS
  ArgumentsAreDecoded
  NeverAFault
PROPERTIES
  AlwaysReturns
CHECK_DEADLOCK FALSE
