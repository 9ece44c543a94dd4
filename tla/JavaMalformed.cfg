SPECIFICATION Spec
CONSTANTS
  Callers = {c1}
  MasterCount = 3
  Configs <- MCMalformed
  MaxCalls = 2
INVARIANTS
  FailsOnlyAfterFullSweeps
CHECK_DEADLOCK FALSE
