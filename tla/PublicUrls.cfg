SPECIFICATION Spec
CONSTANTS
  Hosts = {"internal", "cdn"}
  Sizes = {0, 1, 2}
INVARIANTS
  ResizedUrlsAgree
  UrlIsAbsolute
  UrlIsWhereTheCoreReads
CHECK_DEADLOCK FALSE
