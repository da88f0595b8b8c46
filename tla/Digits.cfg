SPECIFICATION Spec
CONSTANTS
  Width = 8
  MaxRead = 5
  Printed <- AllWords
  Typed <- TameLines
  Stale <- StackBytes
  Coalesced = FALSE
INVARIANTS
  WritesDecimal
  ReadsEachLine
PROPERTIES
  EveryLineRead
CHECK_DEADLOCK FALSE
