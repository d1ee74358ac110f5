SPECIFICATION Spec
CONSTANTS
  Routes <- NestedRoutes
  Scenarios <- OneArtifact
  Bodies <- ShortBodies
  File <- OneFile
  MaxBody = 4
  RequestTimeout = 1
  OSVTimeout = 1
  ReadTimeout = 1
  Burst = 2
  Unit = 2
  MaxTime = 4
CHECK_DEADLOCK FALSE
INVARIANT FailureShows
