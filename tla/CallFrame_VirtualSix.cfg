SPECIFICATION Spec
CONSTANTS
  Regs <- TwoRegs
  Fns <- Program
  CallSites <- VirtualSix
  MaxFrames = 2
INVARIANT RegistersPreserved
