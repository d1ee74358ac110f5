SPECIFICATION FairSpec
CONSTANTS
  r1 = r1 r2 = r2 q1 = q1 q2 = q2 q3 = q3
  Nobody = Nobody Orphan = Orphan
  Replica = {r1, r2}
  Request = {q1, q2, q3}
  ReplicaOf <- TwoAndOne
  Coordinated = TRUE
  Faults = {"cancel", "crash", "read", "upstream", "uncacheable", "spool",
            "store", "acquire", "lostreply", "renew", "release", "expire",
            "late"}
  MaxFaults = 1
CHECK_DEADLOCK FALSE
INVARIANTS TypeOK OneFillPerProcess WaiterHasWaker OneFillPerCluster
  WaiterServedFromCache
PROPERTIES LeaseTakeover ImplementsSingleFlight EveryRequestEnds
