SPECIFICATION Spec
CONSTANTS
  Base = 2
  KeyBytes = 2
  CookieBytes = 1
  MaxVolume = 1
  MaxTrips = 2
INVARIANTS
  CanonicalFormReparses
CHECK_DEADLOCK FALSE
