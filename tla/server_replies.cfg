SPECIFICATION FairSpec
CONSTANTS
  Routes <- NestedRoutes
  Scenarios <- AllScenarios
  Bodies <- ShortBodies
  File <- OneFile
  MaxBody = 4
  RequestTimeout = 1
  OSVTimeout = 1
  ReadTimeout = 1
  Burst = 2
  Unit = 2
  MaxTime = 4
CHECK_DEADLOCK FALSE
INVARIANTS TypeOK NothingEscapes CompleteMeansWhole AccountedOnce
  NothingDisclosed WriteTimeoutSuffices ExplainBounded CleanExit
PROPERTY RunReturns
