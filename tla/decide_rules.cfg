SPECIFICATION Spec
CONSTANTS
  w1 = w1 w2 = w2
  p1 = p1 p2 = p2 p3 = p3 p4 = p4 p5 = p5 p6 = p6 p7 = p7 p8 = p8
  Worker = {w1}
  Package = {p1, p2, p3, p4, p5, p6, p7, p8}
  Kind <- EveryKind
  Rule <- EveryRule
  Published <- AtOnce
  FailOpenIntelErrors = TRUE
  FailOpenUnknownPackage = FALSE
  DefaultAction = "warn"
  CooldownEnabled = TRUE
  MinAge = 2
  Verdicts = {"clean", "minor", "severe", "malicious"}
  TTL = 1
  Retention = 2
  ReleaseTTL = 2
  Timeout = 1
  MaxEntries = 2
  MaxChanges = 1
  MaxTime = 6
PROPERTIES CooldownHeld KnownMalwareBlocked
