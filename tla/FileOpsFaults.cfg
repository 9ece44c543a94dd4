SPECIFICATION Spec
CONSTANTS
  a = a  b = b  d = d  f = f
  Clients = {c1, c2}
  Native = {c2}
  Fids = {f}
  Servers = {a, b, d}
  Replicas = {a, b}
  Healthy = {}
  Hash <- MCHash
  MaxOps = 3
  MaxCrashes = 1
  MaxMoves = 1
INVARIANTS
  TypeOK
  AckedWriteIsOnEveryReplica
  DeletedFileIsNeverRead
  AbsenceIsNeverInvented
PROPERTIES
  GivesUpOnlyAfterEveryReplica
  KeepsStorePromise
CHECK_DEADLOCK FALSE
