SPECIFICATION Spec
CONSTANTS
  Callers = {c1, c2}
  MasterCount = 3
  MaxRetries = 2
  Strategy = "RoundRobin"
  CounterMod = 4
  Healthy = {}
  MaxCalls = 5
INVARIANTS
  TypeOK
  FailsOnlyAfterFullSweeps
  ErrorIsEvidence
  FinalAnswerEndsTheSweep
  SweepsAreEven
  RoundRobinIsBalanced
PROPERTIES
  EveryCallReturns
  KeepsPromise
CHECK_DEADLOCK FALSE
