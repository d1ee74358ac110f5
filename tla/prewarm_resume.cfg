SPECIFICATION Spec
CONSTANTS
  w1 = w1 w2 = w2
  MarkerModule = {"plug"}
  Projects <- OneProject
  Runnable <- OneProject
  Pools = {{w1}, {w1, w2}}
  StateFile = TRUE
  Paced = FALSE
  RateLimitRetries = 1
  Bypassed = {"lib"}
  MaxRuns = 2
CHECK_DEADLOCK FALSE
INVARIANT CheckpointResumable
