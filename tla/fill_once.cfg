SPECIFICATION Spec
CONSTANTS
  r1 = r1 r2 = r2 q1 = q1 q2 = q2 q3 = q3
  Nobody = Nobody Orphan = Orphan
  Replica = {r1, r2}
  Request = {q1, q3}
  ReplicaOf <- OneEach
  Coordinated = TRUE
  Faults = {}
  MaxFaults = 0
CHECK_DEADLOCK FALSE
INVARIANT DownloadedOnce
