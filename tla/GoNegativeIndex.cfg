SPECIFICATION Spec
CONSTANTS
  Callers = {c1, c2}
  MasterCount = 3
  Configs <- MCNarrowInt
  MaxCalls = 4
INVARIANTS
  NeverPanics
CHECK_DEADLOCK FALSE
