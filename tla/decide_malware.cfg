SPECIFICATION Spec
CONSTANTS
  w1 = w1 w2 = w2
  p1 = p1 p2 = p2 p3 = p3 p4 = p4 p5 = p5 p6 = p6 p7 = p7 p8 = p8
  Worker = {w1, w2}
  Package = {p1, p2}
  Kind <- Artifacts
  Rule <- OneGlob
  Published <- AtOnce
  FailOpenIntelErrors = TRUE
  FailOpenUnknownPackage = FALSE
  DefaultAction = "warn"
  CooldownEnabled = FALSE
  MinAge = 0
  Verdicts = {"clean", "malicious"}
  TTL = 1
  Retention = 3
  ReleaseTTL = 2
  Timeout = 1
  MaxEntries = 1
  MaxChanges = 1
  MaxTime = 4
SYMMETRY Workers
INVARIANT CachesWellFormed
PROPERTY MalwareBlocked
