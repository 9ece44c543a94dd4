SPECIFICATION Spec
CONSTANTS
  Callers = {c1, c2}
  MasterCount = 3
  Configs <- MCSweeps
  MaxCalls = 4
INVARIANTS
  TypeOK
  RoundRobinIsBalanced
  OneHealthyMasterAssigns
  NeverPanics
PROPERTIES
  KeepsPromise
  EveryCallReturns
CHECK_DEADLOCK FALSE
