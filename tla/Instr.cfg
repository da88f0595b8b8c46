SPECIFICATION Spec
CONSTANTS
  Pool <- TwoRegisters
  Slots <- TwoSlots
  Width = 4
  FArith <- SomeFArith
  Irs <- Everything
  Given <- NoOverflow
INVARIANTS
  ComputesItsMeaning
  TouchesNothingElse
PROPERTIES
  AlwaysEnds
CHECK_DEADLOCK FALSE
