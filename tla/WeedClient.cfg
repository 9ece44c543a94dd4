SPECIFICATION SpecClient
CONSTANTS
  Callers = {c1, c2}
  MasterCount = 3
  MaxRetries = 0
  Strategy = "Failover"
  CounterMod = 4
  Healthy = {1}
  MaxCalls = 3
  Fids = {f}
  Replicas = {a, b}
  HealthyReplicas = {b}
  MaxCrashes = 1
INVARIANTS
  FailoverKeepsListOrder
  OneHealthyMasterIsEnough
  WrittenFileIsServed
PROPERTIES
  EveryOperationEnds
  ImplementsFileOps
CHECK_DEADLOCK FALSE
