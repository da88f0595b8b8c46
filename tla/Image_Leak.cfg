SPECIFICATION Spec
CONSTANTS
  Page = 64
  BaseVaddr = 1024
  Mapped = 4096
  ExcSize = 12
  Size <- SomeSizes
  Programs <- OneProgram
  Modes <- JitOnly
  MayFail <- EitherMayFail
INVARIANTS
  NothingIsLeft
CHECK_DEADLOCK FALSE
