SPECIFICATION Spec
CONSTANTS
  Width = 8
  MaxRead = 5
  Printed <- FewWords
  Typed <- MinusInside
  Stale <- StackBytes
  Coalesced = FALSE
INVARIANTS
  ReadsEachLine
CHECK_DEADLOCK FALSE
