SPECIFICATION Spec
CONSTANTS
  add = add
  sub = sub
  row = row
  field = field
  puts = puts
  exit = exit
  libc = libc
  libm = libm
  MachineCodes <- AsWritten
  NameLen <- Lengths
  HashValues <- Residues
  Base = 65536
  Provided <- Address
INVARIANTS
  WindowsAreServed
  VtablesDispatch
  TableIsFull
  LoaderWritesApart
  DlsymFinds
  HostArgumentsArrive
CHECK_DEADLOCK FALSE
