SPECIFICATION Spec
CONSTANTS
  exe = exe
  lib = lib
  s1 = s1
  s2 = s2
  e1 = e1
  e2 = e2
  None = None
  Modules <- Alone
  Sites <- TwoSites
  Exceptions <- TwoThrown
  MaxHandlers = 3
  MaxNest = 3
  MaxFrames = 3
INVARIANTS
  BuffersLive
  BlockInv
PROPERTIES
  IsTryStack
CHECK_DEADLOCK FALSE
