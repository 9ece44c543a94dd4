SPECIFICATION Spec
CONSTANTS
  Langs = {"rust", "go", "java"}
  Limits <- MCLimits
  MaxInt = 7
  MaxBody = 6
INVARIANTS
  TypeOK
  CutBodyIsNoSuccess
  BufferStaysWithinCap
  FittingBodyIsNotRefused
CHECK_DEADLOCK FALSE
