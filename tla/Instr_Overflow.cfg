SPECIFICATION Spec
CONSTANTS
  Pool <- TwoRegisters
  Slots <- TwoSlots
  Width = 4
  FArith <- SomeFArith
  Irs <- Divisions
  Given <- Any
INVARIANTS
  DivisionNeverAborts
CHECK_DEADLOCK FALSE
