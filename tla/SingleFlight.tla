---------------------------- MODULE SingleFlight ----------------------------
(***************************************************************************)
(* What fillGroup promises its callers, without leases, caches or failures *)
(* in detail: per process one request at a time leads the work on a key,   *)
(* from the moment it takes the lead until it gives it up for good, and    *)
(* every other request stays out of that work.                             *)
(***************************************************************************)
CONSTANTS
  Replica,     \* processes
  Request,     \* requests for the key
  ReplicaOf,   \* the process of each request
  Nobody       \* no leader

VARIABLES
  leader,      \* who leads in each process
  phase        \* "idle", "pending", "leading" or "ended"

flightVars == <<leader, phase>>

FlightInit ==
  /\ leader = [r \in Replica |-> Nobody]
  /\ phase = [q \in Request |-> "idle"]

\* A request comes in and is either served at once or joins.
Enter(q) ==
  /\ phase[q] = "idle"
  /\ \E to \in {"pending", "ended"} : phase' = [phase EXCEPT ![q] = to]
  /\ UNCHANGED leader

\* A joined request takes the lead that nobody of its process has.
Lead(q) ==
  /\ phase[q] = "pending" /\ leader[ReplicaOf[q]] = Nobody
  /\ phase' = [phase EXCEPT ![q] = "leading"]
  /\ leader' = [leader EXCEPT ![ReplicaOf[q]] = q]

\* A joined request ends without ever having led.
Follow(q) ==
  /\ phase[q] = "pending"
  /\ phase' = [phase EXCEPT ![q] = "ended"]
  /\ UNCHANGED leader

\* The leader ends, and with it its lead.
Yield(q) ==
  /\ phase[q] = "leading" /\ leader[ReplicaOf[q]] = q
  /\ phase' = [phase EXCEPT ![q] = "ended"]
  /\ leader' = [leader EXCEPT ![ReplicaOf[q]] = Nobody]

\* The process restarts: what it had in hand is gone.
Restart(r) ==
  /\ leader' = [leader EXCEPT ![r] = Nobody]
  /\ phase' = [q \in Request |->
                 IF ReplicaOf[q] = r /\ phase[q] # "idle" THEN "ended"
                                                          ELSE phase[q]]

FlightNext ==
  \/ \E q \in Request : Enter(q) \/ Lead(q) \/ Follow(q) \/ Yield(q)
  \/ \E r \in Replica : Restart(r)

FlightSpec == FlightInit /\ [][FlightNext]_flightVars

=============================================================================
