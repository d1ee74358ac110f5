------------------------ MODULE ArtifactFill_proofs ------------------------
(***************************************************************************)
(* Safety of ArtifactFill for any number of replicas, requests and faults. *)
(***************************************************************************)
EXTENDS ArtifactFill, TLAPS

\* Type correctness is preserved by every step of the fill.
LEMMA TypeStep == TypeOK /\ [Next]_vars => TypeOK'
<1> SUFFICES ASSUME TypeOK, [Next]_vars PROVE TypeOK'
  OBVIOUS
<1> USE ReplicaAssumption, TokenAssumption
        DEF TypeOK, Phase, Outside, Joining, Leading, Completion, Go, Answer,
            Inject, NoFault, callVars, ctxVars, leaseVars
<1>1. ASSUME NEW q \in Request, Arrive(q) PROVE TypeOK'
  BY <1>1 DEF Arrive, ServeHit, ServeMiss, LoadFails
<1>2. ASSUME NEW q \in Request, Join(q) PROVE TypeOK'
  BY <1>2 DEF Join, BeginLead, BeginWait, WaitCancelled, WaitDone, ReloadHit,
              ReloadMiss, LoadFails
<1>3. ASSUME NEW q \in Request, Coordinate(q) PROVE TypeOK'
  <2>1. CASE Acquired(q) \/ NotAcquired(q) \/ AcquireAnswerLost(q)
    BY <2>1 DEF Acquired, NotAcquired, AcquireAnswerLost
  <2>2. CASE AcquireError(q)
    BY <2>2 DEF AcquireError, finish
  <2>3. CASE PollCancelled(q) \/ RereadHit(q)
    BY <2>3 DEF PollCancelled, RereadHit, finish
  <2>4. CASE PollTimer(q) \/ RereadMiss(q)
    BY <2>4 DEF PollTimer, RereadMiss, LoadFails
  <2> QED
    BY <1>3, <2>1, <2>2, <2>3, <2>4 DEF Coordinate
<1>4. ASSUME NEW q \in Request, Fill(q) PROVE TypeOK'
  <2>1. CASE FetchError(q) \/ FetchUncacheable(q) \/ FetchCacheable(q)
    BY <2>1 DEF FetchError, FetchUncacheable, FetchCacheable, Interrupted
  <2>2. CASE BodyError(q) \/ BodyNotCaptured(q) \/ BodyCaptured(q)
    BY <2>2 DEF BodyError, BodyNotCaptured, BodyCaptured, Interrupted
  <2>3. CASE PutOK(q) \/ PutError(q)
    BY <2>3 DEF PutOK, PutError
  <2> QED
    BY <1>4, <2>1, <2>2, <2>3 DEF Fill
<1>5. ASSUME NEW q \in Request, Complete(q) PROVE TypeOK'
  BY <1>5 DEF Complete, StopKeeper, Release, ReleaseError, Finish, finish
<1>6. ASSUME NEW q \in Request, Keep(q) PROVE TypeOK'
  BY <1>6 DEF Keep, RenewOK, RenewLost, RenewError
<1>7. ASSUME NEW q \in Request, ClientCancel(q) PROVE TypeOK'
  BY <1>7 DEF ClientCancel
<1>8. CASE LeaseAges \/ LeaseAgesEarly \/ EntryExpires
  BY <1>8 DEF LeaseAges, LeaseAgesEarly, EntryExpires, Aging
<1>9. ASSUME NEW r \in Replica, Crash(r) PROVE TypeOK'
  BY <1>9 DEF Crash
<1>10. CASE UNCHANGED vars
  BY <1>10 DEF vars
<1> QED
  BY <1>1, <1>2, <1>3, <1>4, <1>5, <1>6, <1>7, <1>8, <1>9, <1>10 DEF Next, Work

\* TypeOK is an invariant of the fill.
THEOREM TypeCorrect == Spec => []TypeOK
<1>1. Init => TypeOK
  BY ReplicaAssumption
     DEF Init, TypeOK, Phase, Outside
<1> QED
  BY <1>1, TypeStep, PTL DEF Spec

-----------------------------------------------------------------------------
(* The inductive invariant behind OneFillPerProcess, WaiterHasWaker and    *)
(* the refinement: a request is in a leading phase exactly while its       *)
(* replica's fillGroup holds its call, and a waiter's call is closed or is *)
(* that call.                                                              *)

LeaderInv ==
  /\ \A q \in Request : pc[q] \in Leading <=> calls[ReplicaOf[q]] = q
  /\ \A r \in Replica : calls[r] # Nobody => ReplicaOf[calls[r]] = r

WaiterInv ==
  \A q \in Request :
    pc[q] = "wait" =>
      /\ waitOn[q] \in Request
      /\ ReplicaOf[waitOn[q]] = ReplicaOf[q]
      /\ waitOn[q] \in closed \/ calls[ReplicaOf[q]] = waitOn[q]

FillInv == LeaderInv /\ WaiterInv

\* Every step keeps the correspondence between phases and fillGroup.calls.
LEMMA FillStep == TypeOK /\ FillInv /\ [Next]_vars => FillInv'
<1> SUFFICES ASSUME TypeOK, FillInv, [Next]_vars PROVE FillInv'
  OBVIOUS
<1> USE ReplicaAssumption, TokenAssumption
        DEF TypeOK, FillInv, LeaderInv, WaiterInv, Phase, Outside, Joining,
            Leading, Completion, Go, callVars, ctxVars, leaseVars
<1>1. ASSUME NEW q \in Request, Arrive(q) PROVE FillInv'
  BY <1>1 DEF Arrive, ServeHit, ServeMiss
<1>2. ASSUME NEW q \in Request, Join(q) PROVE FillInv'
  <2>1. CASE BeginLead(q)
    BY <2>1 DEF BeginLead
  <2>2. CASE BeginWait(q)
    BY <2>2 DEF BeginWait
  <2>3. CASE WaitCancelled(q) \/ WaitDone(q) \/ ReloadHit(q) \/ ReloadMiss(q)
    BY <2>3 DEF WaitCancelled, WaitDone, ReloadHit, ReloadMiss
  <2> QED
    BY <1>2, <2>1, <2>2, <2>3 DEF Join
<1>3. ASSUME NEW q \in Request, pc[q] \in Leading, Go(q, pc[q], "done"),
             finish(q), UNCHANGED waitOn
      PROVE  FillInv'
  BY <1>3 DEF finish
<1>4. ASSUME NEW q \in Request, NEW p \in Leading, pc[q] \in Leading,
             Go(q, pc[q], p), UNCHANGED <<callVars, waitOn>>
      PROVE  FillInv'
  BY <1>4
<1>5. ASSUME NEW q \in Request, Coordinate(q) PROVE FillInv'
  BY <1>5, <1>3, <1>4
     DEF Coordinate, Acquired, NotAcquired, AcquireAnswerLost, AcquireError,
         PollCancelled, PollTimer, RereadHit, RereadMiss
<1>6. ASSUME NEW q \in Request, Fill(q) PROVE FillInv'
  BY <1>6, <1>4
     DEF Fill, FetchError, FetchUncacheable, FetchCacheable, BodyError,
         BodyNotCaptured, BodyCaptured, PutOK, PutError
<1>7. ASSUME NEW q \in Request, Complete(q) PROVE FillInv'
  BY <1>7, <1>3, <1>4 DEF Complete, StopKeeper, Release, ReleaseError, Finish
<1>8. CASE UNCHANGED <<pc, waitOn, callVars>>
  BY <1>8
<1>9. ASSUME NEW q \in Request, Keep(q) \/ ClientCancel(q) PROVE FillInv'
  BY <1>9, <1>8 DEF Keep, RenewOK, RenewLost, RenewError, ClientCancel
<1>10. CASE LeaseAges \/ LeaseAgesEarly \/ EntryExpires
  BY <1>10, <1>8 DEF LeaseAges, LeaseAgesEarly, EntryExpires, Aging
<1>11. ASSUME NEW r \in Replica, Crash(r) PROVE FillInv'
  BY <1>11 DEF Crash
<1>12. CASE UNCHANGED vars
  BY <1>12, <1>8 DEF vars
<1> QED
  BY <1>1, <1>2, <1>5, <1>6, <1>7, <1>9, <1>10, <1>11, <1>12 DEF Next, Work

\* The correspondence holds in every reachable state.
LEMMA FillInvariant == Spec => [](TypeOK /\ FillInv)
<1>1. Init => FillInv
  BY ReplicaAssumption, TokenAssumption
     DEF Init, FillInv, LeaderInv, WaiterInv, Leading
<1> QED
  BY <1>1, FillStep, TypeCorrect, PTL DEF Spec

\* No two requests of one process lead a fill at the same time.
THEOREM ProcessExclusion == Spec => []OneFillPerProcess
<1>1. TypeOK /\ FillInv => OneFillPerProcess
  BY DEF TypeOK, FillInv, LeaderInv, OneFillPerProcess
<1> QED
  BY <1>1, FillInvariant, PTL

\* A waiting request can always count on a closed channel or a live leader.
THEOREM NoLostWakeup == Spec => []WaiterHasWaker
<1>1. TypeOK /\ FillInv => WaiterHasWaker
  BY ReplicaAssumption
     DEF TypeOK, FillInv, LeaderInv, WaiterInv, WaiterHasWaker
<1> QED
  BY <1>1, FillInvariant, PTL

-----------------------------------------------------------------------------
(* The inductive invariant behind OneFillPerCluster.  A fill that has not  *)
(* been told to give up still has its keeper; without late renewals a      *)
(* keeper's lease is live and its own, which rules out a second one.       *)

KeeperInv ==
  Coordinated =>
    \A q \in Request :
      /\ q \in keeper => pc[q] \in Filling \cup {"stop"}
      /\ pc[q] \in Filling /\ q \notin lost => q \in keeper
      /\ q \in keeper /\ late = 0 => owner = q /\ age = "live"

\* A late renewal is not forgotten.
LEMMA LateStays == TypeOK /\ [Next]_vars => (late' = 0 => late = 0)
<1> SUFFICES ASSUME TypeOK, [Next]_vars PROVE late' \in {late, late + 1}
  BY DEF TypeOK
<1>1. ASSUME NEW f, NoFault \/ Inject(f) PROVE late' \in {late, late + 1}
  BY <1>1 DEF NoFault, Inject
<1> USE <1>1
<1>2. ASSUME NEW q \in Request, Arrive(q) \/ Join(q) PROVE late' \in {late, late + 1}
  BY <1>2 DEF Arrive, ServeHit, ServeMiss, LoadFails, Join, BeginLead,
              BeginWait, WaitCancelled, WaitDone, ReloadHit, ReloadMiss
<1>3. ASSUME NEW q \in Request, Coordinate(q) PROVE late' \in {late, late + 1}
  BY <1>3 DEF Coordinate, Acquired, NotAcquired, AcquireAnswerLost,
              AcquireError, PollCancelled, PollTimer, RereadHit, RereadMiss,
              LoadFails
<1>4. ASSUME NEW q \in Request, Fill(q) PROVE late' \in {late, late + 1}
  BY <1>4 DEF Fill, FetchError, FetchUncacheable, FetchCacheable, BodyError,
              BodyNotCaptured, BodyCaptured, PutOK, PutError, Interrupted
<1>5. ASSUME NEW q \in Request, Complete(q) \/ Keep(q) \/ ClientCancel(q)
      PROVE  late' \in {late, late + 1}
  BY <1>5 DEF Complete, StopKeeper, Release, ReleaseError, Finish, Keep,
              RenewOK, RenewLost, RenewError, ClientCancel
<1>6. ASSUME LeaseAges \/ LeaseAgesEarly \/ EntryExpires
      PROVE  late' \in {late, late + 1}
  BY <1>6 DEF LeaseAges, LeaseAgesEarly, EntryExpires
<1>7. ASSUME NEW r \in Replica, Crash(r) PROVE late' \in {late, late + 1}
  BY <1>7 DEF Crash
<1>8. ASSUME UNCHANGED vars PROVE late' \in {late, late + 1}
  BY <1>8 DEF vars
<1> QED
  BY <1>2, <1>3, <1>4, <1>5, <1>6, <1>7, <1>8 DEF Next, Work

\* Every step keeps an uncancelled fill and its live lease together.
LEMMA KeeperStep == TypeOK /\ KeeperInv /\ [Next]_vars => KeeperInv'
<1> SUFFICES ASSUME TypeOK, KeeperInv, [Next]_vars, Coordinated
             PROVE  KeeperInv'
  BY DEF KeeperInv
<1>a. late' = 0 => late = 0
  BY LateStays
<1> USE TokenAssumption, <1>a
        DEF TypeOK, KeeperInv, Phase, Outside, Joining, Leading, Filling,
            Completion, Go, callVars, ctxVars, leaseVars
<1>1. ASSUME NEW q \in Request, Arrive(q) PROVE KeeperInv'
  BY <1>1 DEF Arrive, ServeHit, ServeMiss
<1>2. ASSUME NEW q \in Request, Join(q) PROVE KeeperInv'
  BY <1>2 DEF Join, BeginLead, BeginWait, WaitCancelled, WaitDone, ReloadHit,
              ReloadMiss
<1>3. ASSUME NEW q \in Request, Coordinate(q) PROVE KeeperInv'
  <2>1. CASE Acquired(q)
    BY <2>1 DEF Acquired, Acquirable
  <2>2. CASE AcquireAnswerLost(q) \/ AcquireError(q)
    BY <2>2 DEF AcquireAnswerLost, AcquireError, Acquirable
  <2>3. CASE \/ NotAcquired(q) \/ PollCancelled(q) \/ PollTimer(q)
             \/ RereadHit(q) \/ RereadMiss(q)
    BY <2>3 DEF NotAcquired, PollCancelled, PollTimer, RereadHit, RereadMiss
  <2> QED
    BY <1>3, <2>1, <2>2, <2>3 DEF Coordinate
<1>4. ASSUME NEW q \in Request, Fill(q) PROVE KeeperInv'
  BY <1>4 DEF Fill, FetchError, FetchUncacheable, FetchCacheable, BodyError,
              BodyNotCaptured, BodyCaptured, PutOK, PutError
<1>5. ASSUME NEW q \in Request, Complete(q) PROVE KeeperInv'
  BY <1>5 DEF Complete, StopKeeper, Release, ReleaseError, Finish
<1>6. ASSUME NEW q \in Request, Keep(q) PROVE KeeperInv'
  BY <1>6 DEF Keep, RenewOK, RenewLost, RenewError, Renewable
<1>7. ASSUME NEW q \in Request, ClientCancel(q) PROVE KeeperInv'
  BY <1>7 DEF ClientCancel
<1>8. CASE LeaseAges \/ LeaseAgesEarly \/ EntryExpires
  BY <1>8 DEF LeaseAges, LeaseAgesEarly, EntryExpires, Aging, Inject
<1>9. ASSUME NEW r \in Replica, Crash(r) PROVE KeeperInv'
  BY <1>9 DEF Crash
<1>10. CASE UNCHANGED vars
  BY <1>10 DEF vars
<1> QED
  BY <1>1, <1>2, <1>3, <1>4, <1>5, <1>6, <1>7, <1>8, <1>9, <1>10 DEF Next, Work

\* While no renewal is late, one request in the cluster fills at a time.
THEOREM ClusterExclusion == Spec => []OneFillPerCluster
<1>1. Init => KeeperInv
  BY DEF Init, KeeperInv, Filling
<1>2. KeeperInv => OneFillPerCluster
  BY DEF KeeperInv, OneFillPerCluster
<1> QED
  BY <1>1, <1>2, KeeperStep, TypeCorrect, PTL DEF Spec

\* A lease leaves its owner only by the owner's release or after its expiry.
THEOREM TakeoverSafety == Spec => LeaseTakeover
<1> DEFINE Takeover ==
      (owner \in Request /\ owner' # owner)
        => (\/ pc[owner] = "release" /\ owner' = Nobody
            \/ age # "live")
<1>1. TypeOK /\ [Next]_vars => [Takeover]_vars
  <2> SUFFICES ASSUME TypeOK, [Next]_vars, owner \in Request, owner' # owner,
                      age = "live"
               PROVE  pc[owner] = "release" /\ owner' = Nobody
    BY DEF vars
  <2> USE TokenAssumption DEF leaseVars, TypeOK
  <2>1. PICK q \in Request : Coordinate(q) \/ Complete(q)
    BY DEF Next, Work, vars, Arrive, ServeHit, ServeMiss, Join, BeginLead,
           BeginWait, WaitCancelled, WaitDone, ReloadHit, ReloadMiss, Fill,
           FetchError, FetchUncacheable, FetchCacheable, BodyError,
           BodyNotCaptured, BodyCaptured, PutOK, PutError, Keep, RenewOK,
           RenewLost, RenewError, ClientCancel, LeaseAges, LeaseAgesEarly,
           EntryExpires, Aging, Crash
  <2>2. ~Coordinate(q)
    BY DEF Coordinate, Acquired, NotAcquired, AcquireAnswerLost, AcquireError,
           PollCancelled, PollTimer, RereadHit, RereadMiss, Acquirable
  <2> QED
    BY <2>1, <2>2 DEF Complete, StopKeeper, Release, ReleaseError, Finish, Go
<1> QED
  BY <1>1, TypeCorrect, PTL DEF Spec, LeaseTakeover

-----------------------------------------------------------------------------
(* The inductive invariant behind WaiterServedFromCache.  As long as there *)
(* is no fault nobody leaves or loses a lease, so a call is finished only  *)
(* after the store, and whoever waited finds the entry.                    *)

FlawlessInv ==
  /\ ~Coordinated =>
       /\ keeper = {}
       /\ \A q \in Request : pc[q] \notin {"acquire", "poll", "reread"}
  /\ faults = 0 =>
       /\ late = 0 /\ cancelled = {} /\ lost = {}
       /\ closed # {} => entry = "fresh"
       /\ \A q \in Request :
            /\ pc[q] \in {"stop", "release", "finish", "reload"} =>
                 entry = "fresh"
            /\ waitOn[q] # Nobody =>
                 \/ pc[q] \in {"wait", "reload"}
                 \/ pc[q] = "done" /\ result[q] = "HIT"

\* Every step without a fault keeps to that.
LEMMA FlawlessStep ==
  TypeOK /\ KeeperInv /\ FlawlessInv /\ [Next]_vars => FlawlessInv'
<1> SUFFICES ASSUME TypeOK, KeeperInv, FlawlessInv, [Next]_vars
             PROVE  FlawlessInv'
  OBVIOUS
<1> USE TokenAssumption, BoundAssumption
        DEF TypeOK, FlawlessInv, Phase, Outside, Joining, Leading, Filling,
            Completion, Go, Answer, callVars, ctxVars, leaseVars, Inject,
            NoFault
<1>1. ASSUME NEW q \in Request, Arrive(q) PROVE FlawlessInv'
  BY <1>1 DEF Arrive, ServeHit, ServeMiss, LoadFails
<1>2. ASSUME NEW q \in Request, Join(q) PROVE FlawlessInv'
  <2>1. CASE BeginLead(q) \/ BeginWait(q)
    BY <2>1 DEF BeginLead, BeginWait
  <2>2. CASE WaitCancelled(q) \/ WaitDone(q)
    BY <2>2 DEF WaitCancelled, WaitDone
  <2>3. CASE ReloadHit(q) \/ ReloadMiss(q)
    BY <2>3 DEF ReloadHit, ReloadMiss, LoadFails
  <2> QED
    BY <1>2, <2>1, <2>2, <2>3 DEF Join
<1>3. ASSUME NEW q \in Request, Coordinate(q) PROVE FlawlessInv'
  <2>1. CASE Acquired(q) \/ NotAcquired(q) \/ AcquireAnswerLost(q)
    BY <2>1 DEF Acquired, NotAcquired, AcquireAnswerLost
  <2>2. CASE AcquireError(q) \/ PollCancelled(q)
    BY <2>2 DEF AcquireError, PollCancelled, finish
  <2>3. CASE RereadHit(q)
    BY <2>3 DEF RereadHit, finish
  <2>4. CASE PollTimer(q) \/ RereadMiss(q)
    BY <2>4 DEF PollTimer, RereadMiss, LoadFails
  <2> QED
    BY <1>3, <2>1, <2>2, <2>3, <2>4 DEF Coordinate
<1>4. ASSUME NEW q \in Request, Fill(q) PROVE FlawlessInv'
  <2>1. CASE FetchError(q) \/ FetchUncacheable(q) \/ FetchCacheable(q)
    BY <2>1 DEF FetchError, FetchUncacheable, FetchCacheable, Interrupted
  <2>2. CASE BodyError(q) \/ BodyNotCaptured(q) \/ BodyCaptured(q)
    BY <2>2 DEF BodyError, BodyNotCaptured, BodyCaptured, Interrupted
  <2>3. CASE PutOK(q) \/ PutError(q)
    BY <2>3 DEF PutOK, PutError
  <2> QED
    BY <1>4, <2>1, <2>2, <2>3 DEF Fill
<1>5. ASSUME NEW q \in Request, Complete(q) PROVE FlawlessInv'
  BY <1>5 DEF Complete, StopKeeper, Release, ReleaseError, Finish, finish
<1>6. ASSUME NEW q \in Request, Keep(q) PROVE FlawlessInv'
  BY <1>6 DEF Keep, RenewOK, RenewLost, RenewError, Renewable, KeeperInv
<1>7. ASSUME NEW q \in Request, ClientCancel(q) PROVE FlawlessInv'
  BY <1>7 DEF ClientCancel
<1>8. CASE LeaseAges \/ LeaseAgesEarly \/ EntryExpires
  BY <1>8 DEF LeaseAges, LeaseAgesEarly, EntryExpires, Aging
<1>9. ASSUME NEW r \in Replica, Crash(r) PROVE FlawlessInv'
  BY <1>9 DEF Crash
<1>10. CASE UNCHANGED vars
  BY <1>10 DEF vars
<1> QED
  BY <1>1, <1>2, <1>3, <1>4, <1>5, <1>6, <1>7, <1>8, <1>9, <1>10 DEF Next, Work

\* serveCacheMiss: without a fault, who waited for a fill is served from the
\* cache.
THEOREM WaiterServed == Spec => []WaiterServedFromCache
<1>1. Init => KeeperInv /\ FlawlessInv
  BY DEF Init, KeeperInv, FlawlessInv, Filling
<1>2. FlawlessInv => WaiterServedFromCache
  BY DEF FlawlessInv, WaiterServedFromCache
<1> QED
  BY <1>1, <1>2, KeeperStep, FlawlessStep, TypeCorrect, PTL DEF Spec

-----------------------------------------------------------------------------
(* The refinement of SingleFlight.                                         *)

\* Moving one request's pc moves its abstract phase and no other.
LEMMA PhaseMoves ==
  ASSUME TypeOK, NEW q \in Request, NEW from, NEW to, Go(q, from, to)
  PROVE  FlightPhase' = [FlightPhase EXCEPT ![q] = PhaseOf(to)]
  BY DEF TypeOK, Go, FlightPhase

\* A step of the fill is a step of the abstract fillGroup or a stutter.
LEMMA FlightStep ==
  TypeOK /\ FillInv /\ [Next]_vars => [Flight!FlightNext]_(Flight!flightVars)
<1> SUFFICES ASSUME TypeOK, FillInv, [Next]_vars
             PROVE  Flight!FlightNext \/ UNCHANGED Flight!flightVars
  OBVIOUS
<1> USE ReplicaAssumption, TokenAssumption DEF callVars, Flight!flightVars
<1>a. /\ PhaseOf("new") = "idle" /\ PhaseOf("done") = "ended"
      /\ \A p \in Joining : PhaseOf(p) = "pending"
      /\ \A p \in Leading : PhaseOf(p) = "leading"
  BY DEF PhaseOf, Joining, Leading
<1>b. ASSUME NEW q \in Request, NEW from, NEW to, Go(q, from, to)
      PROVE  /\ FlightPhase[q] = PhaseOf(from)
             /\ FlightPhase' = [FlightPhase EXCEPT ![q] = PhaseOf(to)]
             /\ PhaseOf(from) = PhaseOf(to) => UNCHANGED FlightPhase
  <2>1. FlightPhase[q] = PhaseOf(from)
    BY <1>b DEF FlightPhase, Go
  <2>2. FlightPhase' = [FlightPhase EXCEPT ![q] = PhaseOf(to)]
    BY <1>b, PhaseMoves
  <2>3. ASSUME PhaseOf(from) = PhaseOf(to) PROVE UNCHANGED FlightPhase
    <3>1. FlightPhase' = [FlightPhase EXCEPT ![q] = FlightPhase[q]]
      BY <2>1, <2>2, <2>3
    <3> QED
      BY <3>1 DEF FlightPhase
  <2> QED
    BY <2>1, <2>2, <2>3
<1>c. ASSUME NEW q \in Request, Go(q, "new", "miss") \/ Go(q, "new", "done"),
             UNCHANGED calls
      PROVE  Flight!Enter(q)
  BY <1>a, <1>b, <1>c DEF Flight!Enter, Joining
<1>d. ASSUME NEW q \in Request, NEW from \in Joining, NEW to \in Joining,
             Go(q, from, to), UNCHANGED calls
      PROVE  UNCHANGED Flight!flightVars
  BY <1>a, <1>b, <1>d
<1>e. ASSUME NEW q \in Request, NEW from \in Joining, Go(q, from, "done"),
             UNCHANGED calls
      PROVE  Flight!Follow(q)
  BY <1>a, <1>b, <1>e DEF Flight!Follow
<1>f. ASSUME NEW q \in Request, NEW from \in Leading, NEW to \in Leading,
             Go(q, from, to), UNCHANGED calls
      PROVE  UNCHANGED Flight!flightVars
  BY <1>a, <1>b, <1>f
<1>g. ASSUME NEW q \in Request, NEW from \in Leading, Go(q, from, "done"),
             finish(q)
      PROVE  Flight!Yield(q)
  <2>1. calls[ReplicaOf[q]] = q
    BY <1>g DEF FillInv, LeaderInv, Go
  <2> QED
    BY <2>1, <1>a, <1>b, <1>g DEF finish, Flight!Yield
<1>1. ASSUME NEW q \in Request, Arrive(q) PROVE Flight!Enter(q)
  BY <1>1, <1>c DEF Arrive, ServeHit, ServeMiss
<1>2. ASSUME NEW q \in Request, Join(q)
      PROVE  Flight!Lead(q) \/ Flight!Follow(q) \/ UNCHANGED Flight!flightVars
  <2>1. CASE BeginLead(q)
    <3>1. PICK to \in Leading : Go(q, "miss", to)
      BY <2>1 DEF BeginLead, Leading
    <3> QED
      BY <2>1, <3>1, <1>a, <1>b DEF BeginLead, Joining, Flight!Lead
  <2>2. CASE BeginWait(q) \/ WaitDone(q) \/ ReloadMiss(q)
    BY <2>2, <1>d DEF BeginWait, WaitDone, ReloadMiss, Joining
  <2>3. CASE WaitCancelled(q) \/ ReloadHit(q)
    BY <2>3, <1>e DEF WaitCancelled, ReloadHit, Joining
  <2> QED
    BY <1>2, <2>1, <2>2, <2>3 DEF Join
<1>3. ASSUME NEW q \in Request, Coordinate(q)
      PROVE  Flight!Yield(q) \/ UNCHANGED Flight!flightVars
  <2>1. CASE AcquireError(q) \/ PollCancelled(q) \/ RereadHit(q)
    BY <2>1, <1>g DEF AcquireError, PollCancelled, RereadHit, Leading
  <2>2. CASE \/ Acquired(q) \/ NotAcquired(q) \/ AcquireAnswerLost(q)
             \/ PollTimer(q) \/ RereadMiss(q)
    BY <2>2, <1>f DEF Acquired, NotAcquired, AcquireAnswerLost, PollTimer,
                      RereadMiss, Leading
  <2> QED
    BY <1>3, <2>1, <2>2 DEF Coordinate
<1>4. ASSUME NEW q \in Request, Fill(q) PROVE UNCHANGED Flight!flightVars
  BY <1>4, <1>f
     DEF Fill, FetchError, FetchUncacheable, FetchCacheable, BodyError,
         BodyNotCaptured, BodyCaptured, PutOK, PutError, Leading, Completion
<1>5. ASSUME NEW q \in Request, Complete(q)
      PROVE  Flight!Yield(q) \/ UNCHANGED Flight!flightVars
  BY <1>5, <1>f, <1>g
     DEF Complete, StopKeeper, Release, ReleaseError, Finish, Leading
<1>6. ASSUME UNCHANGED <<pc, calls>> PROVE UNCHANGED Flight!flightVars
  BY <1>6 DEF FlightPhase
<1>7. ASSUME NEW q \in Request, Keep(q) \/ ClientCancel(q)
      PROVE  UNCHANGED Flight!flightVars
  BY <1>7, <1>6 DEF Keep, RenewOK, RenewLost, RenewError, ClientCancel
<1>8. CASE LeaseAges \/ LeaseAgesEarly \/ EntryExpires
  BY <1>8, <1>6 DEF LeaseAges, LeaseAgesEarly, EntryExpires, Aging
<1>9. ASSUME NEW r \in Replica, Crash(r) PROVE Flight!Restart(r)
  <2>1. ASSUME NEW q \in Request
        PROVE  PhaseOf(pc[q])' = IF ReplicaOf[q] = r /\ PhaseOf(pc[q]) # "idle"
                                   THEN "ended" ELSE PhaseOf(pc[q])
    <3>1. pc[q] \in Outside \cup Joining \cup Leading
      BY DEF TypeOK, Phase
    <3>2. PhaseOf(pc[q]) = "idle" <=> pc[q] = "new"
      BY <3>1, <1>a DEF Outside, Joining, Leading
    <3>3. pc'[q] = IF ReplicaOf[q] = r /\ pc[q] \notin Outside THEN "done"
                                                              ELSE pc[q]
      BY <1>9 DEF Crash
    <3> QED
      BY <3>1, <3>2, <3>3, <1>a DEF Outside
  <2> QED
    BY <1>9, <2>1 DEF Crash, Flight!Restart, FlightPhase
<1>10. CASE UNCHANGED vars
  BY <1>10, <1>6 DEF vars
<1> QED
  BY <1>1, <1>2, <1>3, <1>4, <1>5, <1>7, <1>8, <1>9, <1>10
     DEF Next, Work, Flight!FlightNext

\* The fill implements the abstract fillGroup.
THEOREM Refinement == Spec => ImplementsSingleFlight
<1>1. Init => Flight!FlightInit
  BY DEF Init, Flight!FlightInit, FlightPhase, PhaseOf, Joining, Leading
<1> QED
  BY <1>1, FlightStep, FillInvariant, PTL
     DEF Spec, ImplementsSingleFlight, Flight!FlightSpec

=============================================================================
