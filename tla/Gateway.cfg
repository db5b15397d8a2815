\* Two requests, each for any of the paths.
SPECIFICATION FairSpec
CONSTANTS
  r1 = r1  r2 = r2  d1 = d1  d2 = d2
  None = None
  Requests = {r1, r2}
  Paths <- MCPaths
  Dependencies = {d1}
  Buckets = 2
INVARIANTS MetricsAgree LogIsTrue NoOrphanExchange
PROPERTIES ImplementsHttpCall
CHECK_DEADLOCK FALSE
