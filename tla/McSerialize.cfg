SPECIFICATION Spec
CONSTANT MachineCodes <- Programs
INVARIANTS
  Lossless
  NeverAnother
CHECK_DEADLOCK FALSE
