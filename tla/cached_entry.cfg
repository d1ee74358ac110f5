SPECIFICATION Spec
CONSTANTS
  Writer = {w1}
  Reader = {r1}
  Origin = {o1, o2}
  Upstream = up
  MaxRedirects = 3
  Route = {"npm", "npm_token", "other"}
  StoreKind = {"file", "s3"}
  Second = 2
  TTL = 4
  Lifetime = {1, 2}
  MaxTime = 6
  MaxFaults = 1
SYMMETRY OriginSymmetry
CHECK_DEADLOCK FALSE
INVARIANTS TypeOK ServedIntact OnlyReplayable
PROPERTIES HitFresh AgeHonest
