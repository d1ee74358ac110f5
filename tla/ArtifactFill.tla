---------------------------- MODULE ArtifactFill ----------------------------
(***************************************************************************)
(* A cold artifact being filled: internal/proxy/fill.go together with the  *)
(* parts of proxy.go it drives (Serve, serveUpstream, serveAndStore) and   *)
(* the lease and cache it uses.                                            *)
(*                                                                         *)
(* The module is about ONE cache key.  fillGroup.calls, the lease item and *)
(* the cached object are all per key, and keys share nothing but the       *)
(* upstream limiter (module UpstreamLimiter).  Several replicas run the    *)
(* same code; each has its own fillGroup, all share the lease table and    *)
(* the artifact cache.                                                     *)
(*                                                                         *)
(* Time is abstract here: a lease item is "live" (expires_at > now), "due" *)
(* (expires_at = now) or "past" (expires_at < now) and ages by itself.     *)
(* Module DynamoLease has the clock.                                       *)
(***************************************************************************)
EXTENDS Naturals, FiniteSets

CONSTANTS
  Replica,      \* processes that run the proxy
  Request,      \* client requests for the key, all for the same artifact
  ReplicaOf,    \* the replica each request arrives at
  Coordinated,  \* whether a Coordinator is configured (coordination.backend)
  Faults,       \* which faults the environment may inject (a subset of Fault)
  MaxFaults,    \* bound: how many faults happen in a behaviour
  Nobody,       \* no lease item / no call in progress
  Orphan        \* a lease owner token that no process knows

Fault == {"cancel", "crash", "read", "upstream", "uncacheable", "spool",
          "store", "acquire", "lostreply", "renew", "late", "release",
          "expire"}

ASSUME ReplicaAssumption == ReplicaOf \in [Request -> Replica]
ASSUME SwitchAssumption == Coordinated \in BOOLEAN /\ Faults \subseteq Fault
ASSUME BoundAssumption == MaxFaults \in Nat
ASSUME TokenAssumption ==
  Nobody \notin Request /\ Orphan \notin Request /\ Nobody # Orphan

VARIABLES
  pc,         \* where the work on behalf of each request stands
  waitOn,     \* the fillCall a request waits for, named by its leader
  calls,      \* fillGroup.calls[key] of each replica: a leader or Nobody
  closed,     \* the fillCalls whose done channel is closed
  cancelled,  \* requests whose client context is done
  keeper,     \* requests whose keepLease goroutine runs
  lost,       \* requests whose fill context keepLease cancelled
  owner,      \* owner attribute of the lease item, Nobody when there is none
  age,        \* expires_at of the lease item compared with now
  entry,      \* the key's cache entry: "absent" (or expired) or "fresh"
  result,     \* X-Package-Firewall-Cache of the answer, or "error"
  fetched,    \* history: requests that went to the upstream registry
  faults,     \* number of faults injected so far
  late        \* history: how many of them were a late renewal

callVars  == <<calls, closed>>
leaseVars == <<owner, age>>
ctxVars   == <<cancelled, keeper, lost>>
vars == <<pc, waitOn, callVars, ctxVars, leaseVars, entry, result, fetched,
          faults, late>>

-----------------------------------------------------------------------------
(* The phases of a request.                                                *)

Outside == {"new", "done"}
Joining == {"miss", "wait", "reload"}
Leading == {"acquire", "poll", "reread", "fetch", "body", "put",
            "stop", "release", "finish"}
Phase   == Outside \cup Joining \cup Leading

\* The phases in which a request is downloading or storing the artifact.
Filling == {"fetch", "body", "put"}

\* serveUpstream's complete(): with a lease it starts with stopLease().
Completion == IF Coordinated THEN "stop" ELSE "finish"

Init ==
  /\ pc = [q \in Request |-> "new"]
  /\ waitOn = [q \in Request |-> Nobody]
  /\ calls = [r \in Replica |-> Nobody]
  /\ closed = {}
  /\ cancelled = {} /\ keeper = {} /\ lost = {}
  /\ owner = Nobody /\ age = "past"
  /\ entry = "absent"
  /\ result = [q \in Request |-> "none"]
  /\ fetched = {}
  /\ faults = 0 /\ late = 0

Go(q, from, to) == pc[q] = from /\ pc' = [pc EXCEPT ![q] = to]

Answer(q, res) == result' = [result EXCEPT ![q] = res]

\* A fault of kind f happens in this step.
Inject(f) ==
  /\ f \in Faults /\ faults < MaxFaults
  /\ faults' = faults + 1 /\ late' = IF f = "late" THEN late + 1 ELSE late
NoFault == UNCHANGED <<faults, late>>

\* Mutant of finish: the call is forgotten but done is never closed.
finishUnclosed(q) ==
  IF calls[ReplicaOf[q]] = q
    THEN calls' = [calls EXCEPT ![ReplicaOf[q]] = Nobody] /\ UNCHANGED closed
    ELSE UNCHANGED callVars

\* fillGroup.finish: forget the call if it is still this one and close done.
finish(q) ==
  IF calls[ReplicaOf[q]] = q
    THEN /\ calls' = [calls EXCEPT ![ReplicaOf[q]] = Nobody]
         /\ closed' = closed \cup {q}
    ELSE UNCHANGED callVars

\* loadCached finds no usable entry: none is stored, the request's context
\* is done, or the read fails, times out or does not verify.
LoadFails(q) ==
  \/ (entry = "absent" \/ q \in cancelled) /\ NoFault
  \/ Inject("read")

-----------------------------------------------------------------------------
(* Serve, serveCacheMiss and serveLocalFillLeader.                         *)

\* Serve: the first cache lookup of an eligible request.
ServeHit(q) ==
  /\ entry = "fresh"
  /\ Go(q, "new", "done") /\ Answer(q, "HIT") /\ NoFault
  /\ UNCHANGED <<waitOn, callVars, ctxVars, leaseVars, entry, fetched>>

ServeMiss(q) ==
  /\ Go(q, "new", "miss") /\ LoadFails(q)
  /\ UNCHANGED <<waitOn, callVars, ctxVars, leaseVars, entry, result, fetched>>

\* Mutant of BeginLead: begin does not look for a call in progress.
BeginLeadUnchecked(q) ==
  /\ calls' = [calls EXCEPT ![ReplicaOf[q]] = q]
  /\ Go(q, "miss", IF Coordinated THEN "acquire" ELSE "fetch")
  /\ fetched' = IF Coordinated THEN fetched ELSE fetched \cup {q}
  /\ NoFault
  /\ UNCHANGED <<waitOn, closed, ctxVars, leaseVars, entry, result>>

\* fillGroup.begin: the first caller leads, the others get its call.
BeginLead(q) ==
  /\ calls[ReplicaOf[q]] = Nobody
  /\ calls' = [calls EXCEPT ![ReplicaOf[q]] = q]
  /\ Go(q, "miss", IF Coordinated THEN "acquire" ELSE "fetch")
  /\ fetched' = IF Coordinated THEN fetched ELSE fetched \cup {q}
  /\ NoFault
  /\ UNCHANGED <<waitOn, closed, ctxVars, leaseVars, entry, result>>

BeginWait(q) ==
  /\ calls[ReplicaOf[q]] # Nobody
  /\ waitOn' = [waitOn EXCEPT ![q] = calls[ReplicaOf[q]]]
  /\ Go(q, "miss", "wait") /\ NoFault
  /\ UNCHANGED <<callVars, ctxVars, leaseVars, entry, result, fetched>>

\* select { case <-r.Context().Done(): ... case <-call.done: }
WaitCancelled(q) ==
  /\ q \in cancelled
  /\ Go(q, "wait", "done") /\ Answer(q, "error") /\ NoFault
  /\ UNCHANGED <<waitOn, callVars, ctxVars, leaseVars, entry, fetched>>

WaitDone(q) ==
  /\ waitOn[q] \in closed
  /\ Go(q, "wait", "reload") /\ NoFault
  /\ UNCHANGED <<waitOn, callVars, ctxVars, leaseVars, entry, result, fetched>>

\* The waiter reads the cache again and serves the hit, or starts over.
ReloadHit(q) ==
  /\ entry = "fresh"
  /\ Go(q, "reload", "done") /\ Answer(q, "HIT") /\ NoFault
  /\ UNCHANGED <<waitOn, callVars, ctxVars, leaseVars, entry, fetched>>

ReloadMiss(q) ==
  /\ Go(q, "reload", "miss") /\ LoadFails(q)
  /\ UNCHANGED <<waitOn, callVars, ctxVars, leaseVars, entry, result, fetched>>

\* Mutant of Acquirable: the ConditionExpression is left out.
AcquirableAlways == TRUE

\* TryAcquire succeeds when there is no item or it is due or past.
Acquirable == owner = Nobody \/ age \in {"due", "past"}

\* TryAcquire acquired: keepLease starts and the leader goes upstream.
Acquired(q) ==
  /\ Acquirable
  /\ Go(q, "acquire", "fetch") /\ NoFault
  /\ owner' = q /\ age' = "live"
  /\ keeper' = keeper \cup {q}
  /\ fetched' = fetched \cup {q}
  /\ UNCHANGED <<waitOn, callVars, cancelled, lost, entry, result>>

\* TryAcquire reports that another owner holds the lease.
NotAcquired(q) ==
  /\ ~Acquirable
  /\ Go(q, "acquire", "poll") /\ NoFault
  /\ UNCHANGED <<waitOn, callVars, ctxVars, leaseVars, entry, result, fetched>>

\* The write is applied but its answer is lost: the client's retry then
\* meets the item it has just written and reports a held lease.  The owner
\* token of the failed call is random and forgotten.
AcquireAnswerLost(q) ==
  /\ Acquirable
  /\ Go(q, "acquire", "poll") /\ Inject("lostreply")
  /\ owner' = Orphan /\ age' = "live"
  /\ UNCHANGED <<waitOn, callVars, ctxVars, entry, result, fetched>>

\* TryAcquire fails: the call is finished and the error returned.  The
\* item may have been written all the same.
AcquireError(q) ==
  /\ Go(q, "acquire", "done") /\ Answer(q, "error")
  /\ \/ q \in cancelled /\ NoFault
     \/ Inject("acquire")
  /\ finish(q)
  /\ \/ UNCHANGED leaseVars
     \/ Acquirable /\ owner' = Orphan /\ age' = "live"
  /\ UNCHANGED <<waitOn, ctxVars, entry, fetched>>

\* select { case <-r.Context().Done(): ... case <-time.After(PollInterval): }
PollCancelled(q) ==
  /\ q \in cancelled
  /\ Go(q, "poll", "done") /\ Answer(q, "error") /\ NoFault
  /\ finish(q)
  /\ UNCHANGED <<waitOn, ctxVars, leaseVars, entry, fetched>>

PollTimer(q) ==
  /\ Go(q, "poll", "reread") /\ NoFault
  /\ UNCHANGED <<waitOn, callVars, ctxVars, leaseVars, entry, result, fetched>>

RereadHit(q) ==
  /\ entry = "fresh"
  /\ Go(q, "reread", "done") /\ Answer(q, "HIT") /\ NoFault
  /\ finish(q)
  /\ UNCHANGED <<waitOn, ctxVars, leaseVars, entry, fetched>>

RereadMiss(q) ==
  /\ Go(q, "reread", "acquire") /\ LoadFails(q)
  /\ UNCHANGED <<waitOn, callVars, ctxVars, leaseVars, entry, result, fetched>>

-----------------------------------------------------------------------------
(* serveUpstream, serveAndStore and the deferred completion.  A request    *)
(* whose context is done may fail at any of these calls or just outrun the *)
(* cancellation.                                                           *)

Interrupted(q) == (q \in cancelled \/ q \in lost) /\ NoFault

\* p.do or the checks before it fail, or the body cannot be rewritten.
FetchError(q) ==
  /\ Go(q, "fetch", Completion) /\ Answer(q, "error")
  /\ Interrupted(q) \/ Inject("upstream")
  /\ UNCHANGED <<waitOn, callVars, ctxVars, leaseVars, entry, fetched>>

\* The response may not be stored (status, headers, redirects, rewriting):
\* it is only copied to the client, which may fail on the way.
FetchUncacheable(q) ==
  /\ Go(q, "fetch", Completion)
  /\ \E res \in {"MISS", "error"} : Answer(q, res)
  /\ Inject("uncacheable")
  /\ UNCHANGED <<waitOn, callVars, ctxVars, leaseVars, entry, fetched>>

FetchCacheable(q) ==
  /\ Go(q, "fetch", "body") /\ NoFault
  /\ UNCHANGED <<waitOn, callVars, ctxVars, leaseVars, entry, result, fetched>>

\* streamAndCapture fails: the upstream body or the client broke off.
BodyError(q) ==
  /\ Go(q, "body", Completion) /\ Answer(q, "error")
  /\ Interrupted(q) \/ Inject("upstream")
  /\ UNCHANGED <<waitOn, callVars, ctxVars, leaseVars, entry, fetched>>

\* The client has the whole body but the capture is unusable: no temp file,
\* a write error, more than max_object_size, or freshness already over.
BodyNotCaptured(q) ==
  /\ Go(q, "body", Completion) /\ Answer(q, "MISS")
  /\ Inject("spool")
  /\ UNCHANGED <<waitOn, callVars, ctxVars, leaseVars, entry, fetched>>

\* Mutant of BodyCaptured: completion is not left to the background store.
BodyCapturedFinishes(q) ==
  /\ Go(q, "body", "put") /\ Answer(q, "MISS") /\ NoFault
  /\ finish(q)
  /\ UNCHANGED <<waitOn, ctxVars, leaseVars, entry, fetched>>

\* The client is answered and the background store takes over completion.
BodyCaptured(q) ==
  /\ Go(q, "body", "put") /\ Answer(q, "MISS") /\ NoFault
  /\ UNCHANGED <<waitOn, callVars, ctxVars, leaseVars, entry, fetched>>

\* Store.Put under its own context: not cancelled with the request or lease.
PutOK(q) ==
  /\ Go(q, "put", Completion) /\ NoFault
  /\ entry' = "fresh"
  /\ UNCHANGED <<waitOn, callVars, ctxVars, leaseVars, result, fetched>>

\* Put fails or times out; a remote store may have applied it all the same.
PutError(q) ==
  /\ Go(q, "put", Completion) /\ Inject("store")
  /\ entry' \in {entry, "fresh"}
  /\ UNCHANGED <<waitOn, callVars, ctxVars, leaseVars, result, fetched>>

\* stopLease: cancel the keeper and wait until its goroutine has returned.
StopKeeper(q) ==
  /\ Go(q, "stop", "release") /\ NoFault
  /\ keeper' = keeper \ {q}
  /\ UNCHANGED <<waitOn, callVars, cancelled, lost, leaseVars, entry, result,
                 fetched>>

\* Mutants of Release: the item is deleted whoever owns it; the owner is
\* overwritten with an empty string instead.
ReleaseAnyOwner(q) ==
  /\ Go(q, "release", "finish") /\ NoFault
  /\ owner' = Nobody
  /\ UNCHANGED <<waitOn, callVars, ctxVars, age, entry, result, fetched>>

ReleaseBlanks(q) ==
  /\ Go(q, "release", "finish") /\ NoFault
  /\ owner' = IF owner = q THEN "" ELSE owner
  /\ UNCHANGED <<waitOn, callVars, ctxVars, age, entry, result, fetched>>

\* Lease.Release deletes the item only while it still has this owner.
Release(q) ==
  /\ Go(q, "release", "finish") /\ NoFault
  /\ owner' = IF owner = q THEN Nobody ELSE owner
  /\ UNCHANGED <<waitOn, callVars, ctxVars, age, entry, result, fetched>>

\* Release fails or times out unapplied; the error is only logged.
ReleaseError(q) ==
  /\ Go(q, "release", "finish") /\ Inject("release")
  /\ UNCHANGED <<waitOn, callVars, ctxVars, leaseVars, entry, result, fetched>>

Finish(q) ==
  /\ Go(q, "finish", "done") /\ NoFault
  /\ finish(q)
  /\ UNCHANGED <<waitOn, ctxVars, leaseVars, entry, result, fetched>>

-----------------------------------------------------------------------------
(* keepLease's goroutine.                                                  *)

\* Renew's condition: still the owner and not past its expiry.
Renewable(q) == owner = q /\ age \in {"live", "due"}

RenewOK(q) ==
  /\ q \in keeper /\ Renewable(q)
  /\ age' = "live" /\ NoFault
  /\ UNCHANGED <<pc, waitOn, callVars, ctxVars, owner, entry, result, fetched>>

\* ErrLeaseLost: cancelFill and return.
RenewLost(q) ==
  /\ q \in keeper /\ ~Renewable(q)
  /\ keeper' = keeper \ {q} /\ lost' = lost \cup {q} /\ NoFault
  /\ UNCHANGED <<pc, waitOn, callVars, cancelled, leaseVars, entry, result,
                 fetched>>

\* Any other error, or the timeout, gives the fill up in the same way.  The
\* renewal may have been applied.
RenewError(q) ==
  /\ q \in keeper /\ Inject("renew")
  /\ keeper' = keeper \ {q} /\ lost' = lost \cup {q}
  /\ age' \in {age} \cup (IF Renewable(q) THEN {"live"} ELSE {})
  /\ UNCHANGED <<pc, waitOn, callVars, cancelled, owner, entry, result, fetched>>

-----------------------------------------------------------------------------
(* The environment.                                                        *)

ClientCancel(q) ==
  /\ pc[q] \notin Outside /\ q \notin cancelled /\ Inject("cancel")
  /\ cancelled' = cancelled \cup {q}
  /\ UNCHANGED <<pc, waitOn, callVars, keeper, lost, leaseVars, entry, result,
                 fetched>>

\* Time passes for the lease item.  That it reaches its expiry while the
\* owner still renews it is a fault: the renewal is late.
Aging ==
  /\ owner # Nobody /\ age # "past"
  /\ age' = IF age = "live" THEN "due" ELSE "past"
  /\ UNCHANGED <<pc, waitOn, callVars, ctxVars, owner, entry, result, fetched>>

LeaseAges == owner \notin keeper /\ Aging /\ NoFault
LeaseAgesEarly == owner \in keeper /\ Aging /\ Inject("late")

\* The entry's ExpiresAt passes or the object is deleted.
EntryExpires ==
  /\ entry = "fresh" /\ entry' = "absent" /\ Inject("expire")
  /\ UNCHANGED <<pc, waitOn, callVars, ctxVars, leaseVars, result, fetched>>

\* A replica dies and restarts with an empty fillGroup.  Its requests and
\* its background stores are gone; its lease item stays until it expires.
Crash(r) ==
  LET died == {q \in Request : ReplicaOf[q] = r /\ pc[q] \notin Outside}
  IN /\ died # {} /\ Inject("crash")
     /\ pc' = [q \in Request |-> IF q \in died THEN "done" ELSE pc[q]]
     /\ result' = [q \in Request |->
                     IF q \in died /\ result[q] = "none" THEN "error"
                                                         ELSE result[q]]
     /\ calls' = [calls EXCEPT ![r] = Nobody]
     /\ keeper' = keeper \ died
     /\ UNCHANGED <<waitOn, closed, cancelled, lost, leaseVars, entry, fetched>>

-----------------------------------------------------------------------------

Arrive(q) == ServeHit(q) \/ ServeMiss(q)

Join(q) ==
  \/ BeginLead(q) \/ BeginWait(q)
  \/ WaitCancelled(q) \/ WaitDone(q)
  \/ ReloadHit(q) \/ ReloadMiss(q)

Coordinate(q) ==
  \/ Acquired(q) \/ NotAcquired(q) \/ AcquireAnswerLost(q) \/ AcquireError(q)
  \/ PollCancelled(q) \/ PollTimer(q)
  \/ RereadHit(q) \/ RereadMiss(q)

Fill(q) ==
  \/ FetchError(q) \/ FetchUncacheable(q) \/ FetchCacheable(q)
  \/ BodyError(q) \/ BodyNotCaptured(q) \/ BodyCaptured(q)
  \/ PutOK(q) \/ PutError(q)

Complete(q) == StopKeeper(q) \/ Release(q) \/ ReleaseError(q) \/ Finish(q)

Keep(q) == RenewOK(q) \/ RenewLost(q) \/ RenewError(q)

Work(q) == Join(q) \/ Coordinate(q) \/ Fill(q) \/ Complete(q)

Next ==
  \/ \E q \in Request : Arrive(q) \/ Work(q) \/ Keep(q) \/ ClientCancel(q)
  \/ LeaseAges \/ LeaseAgesEarly \/ EntryExpires
  \/ \E r \in Replica : Crash(r)

Spec == Init /\ [][Next]_vars

(* Goroutines run, calls to the cache, the table and the registry return   *)
(* (each has a timeout) and time passes.  Nothing makes a client arrive or *)
(* leave, or a fault happen.                                               *)
Fairness ==
  /\ \A q \in Request : WF_vars(Work(q))
  /\ WF_vars(LeaseAges)

FairSpec == Spec /\ Fairness

-----------------------------------------------------------------------------
(* Properties.                                                             *)

\* Type invariant of the module's state (fillGroup, lease item, contexts).
TypeOK ==
  /\ pc \in [Request -> Phase]
  /\ waitOn \in [Request -> Request \cup {Nobody}]
  /\ calls \in [Replica -> Request \cup {Nobody}]
  /\ closed \in SUBSET Request
  /\ cancelled \in SUBSET Request
  /\ keeper \in SUBSET Request
  /\ lost \in SUBSET Request
  /\ owner \in Request \cup {Nobody, Orphan}
  /\ age \in {"live", "due", "past"}
  /\ entry \in {"absent", "fresh"}
  /\ result \in [Request -> {"none", "HIT", "MISS", "error"}]
  /\ fetched \in SUBSET Request
  /\ faults \in Nat /\ late \in Nat

\* Within one process no two requests lead a fill of the key at a time, from
\* fillGroup.begin to the finish that follows the background store, whatever
\* fails in between.
OneFillPerProcess ==
  \A p, q \in Request :
    /\ p # q /\ ReplicaOf[p] = ReplicaOf[q]
    => ~(pc[p] \in Leading /\ pc[q] \in Leading)

\* No lost wake-up: a request that waits for a fillCall waits for one whose
\* done channel is closed already or whose leader, of the same process, is
\* still going to close it.
WaiterHasWaker ==
  \A q \in Request :
    pc[q] = "wait" =>
      \/ waitOn[q] \in closed
      \/ /\ waitOn[q] \in Request
         /\ calls[ReplicaOf[q]] = waitOn[q]
         /\ pc[waitOn[q]] \in Leading

\* With a coordinator, and until a renewal comes late, at most one
\* request of the whole cluster downloads or stores the artifact without
\* having been told by keepLease to give up, crashes, lost answers and failed
\* releases included.
OneFillPerCluster ==
  Coordinated /\ late = 0 =>
    \A p, q \in Request :
      /\ pc[p] \in Filling /\ p \notin lost
      /\ pc[q] \in Filling /\ q \notin lost
      => p = q

\* A lease changes hands only by its owner's own release or once it has
\* reached its expiry: a holder that was displaced (and whose late Release
\* still arrives) never frees the lease of its successor.
LeaseTakeover ==
  [][ (owner \in Request /\ owner' # owner)
        => (\/ pc[owner] = "release" /\ owner' = Nobody
            \/ age # "live") ]_vars

\* If nothing fails, a request that waited in its process for another one's
\* fill is answered from the cache: finish comes after the store.
WaiterServedFromCache ==
  faults = 0 =>
    \A q \in Request :
      pc[q] = "done" /\ waitOn[q] # Nobody => result[q] = "HIT"

\* Every request ends: no waiter, leader or background store is stuck, also
\* when leaders fail, leave or crash and leases are orphaned.
EveryRequestEnds ==
  \A q \in Request : pc[q] = "miss" ~> pc[q] = "done"

\* README "Concurrent misses for one artifact are coalesced in-process. With
\* DynamoDB coordination enabled, one lease holder downloads and stores the
\* artifact while other replicas poll the shared cache": if nothing fails, the
\* artifact is downloaded once.
DownloadedOnce == faults = 0 => Cardinality(fetched) <= 1

\* The abstract phase of a request: before, during or after leading.
PhaseOf(p) == CASE p = "new"     -> "idle"
                [] p \in Joining -> "pending"
                [] p \in Leading -> "leading"
                [] p = "done"    -> "ended"

FlightPhase == [q \in Request |-> PhaseOf(pc[q])]

Flight == INSTANCE SingleFlight WITH leader <- calls, phase <- FlightPhase

\* Every behaviour of the fill, with its leases, stores and failures, is one
\* of the abstract fillGroup: leads never overlap and are never resumed.
ImplementsSingleFlight == Flight!FlightSpec

=============================================================================
