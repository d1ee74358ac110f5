SPECIFICATION FairSpec
CONSTANTS
  r1 = r1 r2 = r2 q1 = q1 q2 = q2
  Replica = {r1, r2}
  Request = {q1, q2}
  Retryable = {q1}
  Coordinated = TRUE
  MaxConcurrent = 1
  RateLimitRetries = 1
  MaxRetryAfter = 2
  Second = 2
  RetryAfter = {0, 2, 3}
  Jitter = 1
  MaxTime = 5
CHECK_DEADLOCK FALSE
INVARIANTS TypeOK SlotsMatchInFlight UpstreamSpared
PROPERTIES CooldownsMonotone EveryCallEnds
