SPECIFICATION FairSpec
CONSTANTS
  w1 = w1 w2 = w2
  MarkerModule = {"plug"}
  Projects <- AllProjects
  Runnable <- RunnableProjects
  Pools = {{w1}, {w1, w2}}
  StateFile = TRUE
  Paced = TRUE
  RateLimitRetries = 1
  Bypassed = {"lib"}
  MaxRuns = 2
CHECK_DEADLOCK FALSE
INVARIANTS TypeOK ManifestExact SuccessMeansAllHits RoutesSeparated
  SkipsOnlyVerified
PROPERTIES NoRepeats RunEnds
