SPECIFICATION Spec
CONSTANTS
  Regs <- TwoRegs
  Fns <- Program
  CallSites <- Balanced
  MaxFrames = 3
INVARIANTS
  StackIsBalanced
  ParamsArrive
  SlotsArePrivate
  RegistersPreserved
