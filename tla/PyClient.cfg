SPECIFICATION Spec
CONSTANTS
  Threads = {t1, t2}
  Server = server
  MaxUrls = 1
  MaxCalls = 4
INVARIANTS
  NoCallPanics
  LocalCallsSucceed
PROPERTIES
  EveryThreadGetsOn
CHECK_DEADLOCK FALSE
