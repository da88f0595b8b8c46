SPECIFICATION Spec
CONSTANTS
  add = add
  sub = sub
  row = row
  field = field
  puts = puts
  exit = exit
  libc = libc
  libm = libm
  MachineCodes <- Allocates
  NameLen <- Lengths
  HashValues <- Residues
  Base = 65536
  Provided <- Address
CHECK_DEADLOCK FALSE
INVARIANT WindowsGetTheirAddress
