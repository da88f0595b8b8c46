SPECIFICATION Spec
CONSTANTS
  exe = exe
  lib = lib
  s1 = s1
  s2 = s2
  e1 = e1
  e2 = e2
  None = None
  Modules <- WithLibrary
  Sites <- TwoSites
  Exceptions <- TwoThrown
  MaxHandlers = 2
  MaxNest = 2
  MaxFrames = 3
PROPERTY ExitsOnlyWithoutHandlers
CHECK_DEADLOCK FALSE
