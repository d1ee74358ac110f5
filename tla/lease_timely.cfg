SPECIFICATION Spec
CONSTANTS
  a1 = a1 a2 = a2 NoOwner = NoOwner
  Attempt = {a1, a2}
  Skew <- SecondAhead
  MaxSkew = 1
  Second = 2
  LeaseDuration = 7
  PollInterval = 1
  AnswerDelay = 1
  MaxTime = 14
CHECK_DEADLOCK FALSE
INVARIANTS TypeOK OneHolder
