SPECIFICATION Spec
CONSTANTS
  Page = 64
  BaseVaddr = 1024
  Mapped = 4096
  ExcSize = 12
  Size <- SomeSizes
  Programs <- SomePrograms
  Modes <- AllModes
  MayFail <- MapMayFail
INVARIANTS
  EveryNameIsReached
  RunsWithItsRights
  NothingIsLeft
CHECK_DEADLOCK FALSE
