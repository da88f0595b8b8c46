SPECIFICATION Spec
CONSTANTS
  Regs <- TwoRegs
  Fns <- Program
  CallSites <- Nested
  MaxFrames = 2
INVARIANT AlignedAtCalls
