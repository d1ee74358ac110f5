-------------------------- MODULE UpstreamLimiter --------------------------
(***************************************************************************)
(* Proxy.do (proxy/upstream.go): every request to one upstream registry    *)
(* passes the registry's cooldown, takes one of the replica's concurrency  *)
(* slots, and on a 429 sets the cooldown, gives the slot back and retries. *)
(* The cooldown is kept per replica and, with a coordinator, in a shared   *)
(* DynamoDB item.  One registry; Second clock ticks make a second.         *)
(***************************************************************************)
EXTENDS Integers, FiniteSets, FiniteSetsExt

CONSTANTS
  Replica,           \* processes that run the proxy
  Request,           \* requests for the registry
  Retryable,         \* the bodyless GET and HEAD requests
  Coordinated,       \* whether a Coordinator is configured
  MaxConcurrent,     \* upstream.max_concurrent_per_registry
  RateLimitRetries,  \* upstream.rate_limit_retries
  MaxRetryAfter,     \* upstream.max_retry_after in ticks
  Second,            \* clock ticks per second
  RetryAfter,        \* the Retry-After delays the registry sends, in ticks
  Jitter,            \* bound on the jitter added to a Retry-After, in ticks
  MaxTime            \* bound: the clock stops there

ASSUME UpstreamAssumption ==
  /\ Retryable \subseteq Request
  /\ Coordinated \in BOOLEAN
  /\ MaxConcurrent \in Nat \ {0} /\ RateLimitRetries \in Nat
  /\ MaxRetryAfter \in Nat \ {0} /\ Second \in Nat \ {0}
  /\ RetryAfter \subseteq Nat /\ Jitter \in Nat /\ MaxTime \in Nat

VARIABLES
  at,         \* the replica the load balancer sent each request to
  now,        \* the clock, the same for all replicas
  pc,         \* where each request is in do
  attempt,    \* do's loop counter
  wakeAt,     \* end of the wait the request is in
  local,      \* routeCooldowns of each replica
  remote,     \* expires_at of the shared cooldown item, in seconds
  inUse,      \* length of each replica's limiter channel
  held,       \* requests whose release function has not run yet
  outcome,    \* what do returned
  seen,       \* until: the cooldown the request found at its last check
  announced,  \* history: latest cooldown end stored in the shared item
  informed,   \* history: announced, when the request last read the item
  sends       \* history: requests sent upstream per request

coolVars == <<local, remote, announced>>
slotVars == <<inUse, held>>
histVars == <<seen, informed, sends>>
vars == <<at, now, pc, attempt, wakeAt, coolVars, slotVars, outcome, histVars>>

Phase == {"new", "check", "cool", "queue", "send", "body", "backoff", "done"}

Init ==
  /\ at \in [Request -> Replica]
  /\ now = 0
  /\ pc = [q \in Request |-> "new"]
  /\ attempt = [q \in Request |-> 0]
  /\ wakeAt = [q \in Request |-> 0]
  /\ local = [r \in Replica |-> 0] /\ remote = 0 /\ announced = 0
  /\ inUse = [r \in Replica |-> 0] /\ held = {}
  /\ outcome = [q \in Request |-> "none"]
  /\ seen = [q \in Request |-> 0] /\ informed = [q \in Request |-> 0]
  /\ sends = [q \in Request |-> 0]

Go(q, from, to) == pc[q] = from /\ pc' = [pc EXCEPT ![q] = to]
Return(q, res) == outcome' = [outcome EXCEPT ![q] = res]

\* releaseOnClose / sync.OnceFunc: the slot goes back once.
release(q) ==
  IF q \in held
    THEN /\ inUse' = [inUse EXCEPT ![at[q]] = @ - 1]
         /\ held' = held \ {q}
    ELSE UNCHANGED slotVars

-----------------------------------------------------------------------------
(* waitForCooldown.                                                        *)

\* do enters its loop: cooldowns.get, before the shared item is asked for.
ReadLocal(q) == seen' = [seen EXCEPT ![q] = local[at[q]]]

Start(q) ==
  /\ Go(q, "new", "check")
  /\ ReadLocal(q)
  /\ UNCHANGED <<at, now, attempt, wakeAt, coolVars, slotVars, outcome,
                 informed,
                 sends>>

\* Mutant of Cooldown: seconds are taken for ticks.
CooldownUnscaled == IF remote > now THEN remote ELSE 0

\* Coordinator.Cooldown: the item's second, unless it has passed.
Cooldown == IF remote * Second > now THEN remote * Second ELSE 0

\* Mutant of SetLocal: the last writer wins.
SetLocalAlways(q, until) ==
  local' = [local EXCEPT ![at[q]] = until]

\* cooldowns.set: the replica's own entry only ever moves forward.
SetLocal(q, until) ==
  local' = [local EXCEPT ![at[q]] = Max({@, until})]

\* What follows from the entry read and the shared cooldown: a later shared
\* one is kept locally; then go on, answer 429, or wait for the end.
Proceed(q, shared) ==
  LET until == Max({seen[q], shared})
  IN /\ SetLocal(q, shared)
     /\ seen' = [seen EXCEPT ![q] = until]
     /\ \/ /\ until <= now
           /\ Go(q, "check", "queue")
           /\ UNCHANGED <<wakeAt, outcome>>
        \/ /\ until - now > MaxRetryAfter
           /\ Go(q, "check", "done") /\ Return(q, "cooldown")
           /\ UNCHANGED wakeAt
        \/ /\ until > now /\ until - now <= MaxRetryAfter
           /\ Go(q, "check", "cool")
           /\ wakeAt' = [wakeAt EXCEPT ![q] = until]
           /\ UNCHANGED outcome

\* The shared item is read.
CheckShared(q) ==
  /\ Coordinated
  /\ Proceed(q, Cooldown)
  /\ informed' = [informed EXCEPT ![q] = announced]
  /\ UNCHANGED <<at, now, attempt, remote, announced, slotVars, sends>>

\* There is no coordinator, or reading the item failed and was logged.
CheckLocal(q) ==
  /\ Proceed(q, 0)
  /\ UNCHANGED <<at, now, attempt, remote, announced, slotVars, informed,
                 sends>>

\* Mutant of CoolDown: the remaining cooldown is not waited for.
CoolDownAtOnce(q) ==
  /\ Go(q, "cool", "queue")
  /\ UNCHANGED <<at, now, attempt, wakeAt, coolVars, slotVars, outcome,
                 histVars>>

\* p.wait returns after the remaining cooldown.
CoolDown(q) ==
  /\ now >= wakeAt[q]
  /\ Go(q, "cool", "queue")
  /\ UNCHANGED <<at, now, attempt, wakeAt, coolVars, slotVars, outcome,
                 histVars>>

-----------------------------------------------------------------------------
(* acquireUpstream and doOnce.                                             *)

\* case limiter <- struct{}{}: a slot is free; the request is sent.
AcquireSlot(q) ==
  /\ inUse[at[q]] < MaxConcurrent
  /\ Go(q, "queue", "send")
  /\ inUse' = [inUse EXCEPT ![at[q]] = @ + 1]
  /\ held' = held \cup {q}
  /\ sends' = [sends EXCEPT ![q] = @ + 1]
  /\ UNCHANGED <<at, now, attempt, wakeAt, coolVars, outcome, seen, informed>>

\* Mutant of QueueTimeout: a slot that was never taken is given back.
QueueTimeoutReleases(q) ==
  /\ Go(q, "queue", "done") /\ Return(q, "queue_timeout")
  /\ inUse' = [inUse EXCEPT ![at[q]] = @ - 1]
  /\ UNCHANGED <<at, now, attempt, wakeAt, coolVars, held, histVars>>

\* case <-timer.C: ErrUpstreamQueueTimeout.
QueueTimeout(q) ==
  /\ Go(q, "queue", "done") /\ Return(q, "queue_timeout")
  /\ UNCHANGED <<at, now, attempt, wakeAt, coolVars, slotVars, histVars>>

\* The context ends (client gone or request timeout) while waiting.
WaitAborted(q) ==
  /\ pc[q] \in {"cool", "queue", "backoff"}
  /\ pc' = [pc EXCEPT ![q] = "done"] /\ Return(q, "aborted")
  /\ UNCHANGED <<at, now, attempt, wakeAt, coolVars, slotVars, histVars>>

\* Mutant of SendFails: the error path does not release.
SendFailsKeepsSlot(q) ==
  /\ Go(q, "send", "done") /\ Return(q, "error")
  /\ UNCHANGED <<at, now, attempt, wakeAt, coolVars, slotVars, histVars>>

\* doOnce fails.
SendFails(q) ==
  /\ Go(q, "send", "done") /\ Return(q, "error")
  /\ release(q)
  /\ UNCHANGED <<at, now, attempt, wakeAt, coolVars, histVars>>

\* Any status but 429: the body keeps the slot until it is closed.
Responds(q) ==
  /\ Go(q, "send", "body") /\ Return(q, "response")
  /\ UNCHANGED <<at, now, attempt, wakeAt, coolVars, slotVars, histVars>>

\* Mutant of CloseBody: closing the body does not release.
CloseBodyKeepsSlot(q) ==
  /\ Go(q, "body", "done")
  /\ UNCHANGED <<at, now, attempt, wakeAt, coolVars, slotVars, outcome,
                 histVars>>

\* serveUpstream's deferred Body.Close, also after an aborted copy.
CloseBody(q) ==
  /\ Go(q, "body", "done")
  /\ release(q)
  /\ UNCHANGED <<at, now, attempt, wakeAt, coolVars, outcome, histVars>>

-----------------------------------------------------------------------------
(* A 429.                                                                  *)

\* rateLimitBackoff: random, up to a second doubled per attempt.
Backoff(q) ==
  1 .. Min({Second * 2 ^ Min({attempt[q], 5}), MaxRetryAfter})

\* A valid Retry-After with jitter, capped if only the jitter is too much.
Jittered(d) ==
  IF d = 0 THEN {0}
  ELSE {IF d <= MaxRetryAfter THEN Min({d + j, MaxRetryAfter}) ELSE d + j
          : j \in 0 .. Jitter}

Delays(q) == Backoff(q) \cup UNION {Jittered(d) : d \in RetryAfter}

\* The shared item, in whole seconds, moves forward only as well: its
\* ConditionExpression.
SetCooldown(until) ==
  /\ remote' = IF remote < until \div Second THEN until \div Second ELSE remote
  /\ announced' = Max({announced, until})

setCooldown(q, until) ==
  /\ SetLocal(q, until)
  /\ \/ Coordinated /\ SetCooldown(until)
     \/ UNCHANGED <<remote, announced>>  \* no coordinator, or it failed

\* Mutant of GivesUp: one retry too many.
GivesUpLate(q, delay) ==
  \/ q \notin Retryable
  \/ attempt[q] > RateLimitRetries
  \/ delay > MaxRetryAfter

GivesUp(q, delay) ==
  \/ q \notin Retryable
  \/ attempt[q] >= RateLimitRetries
  \/ delay > MaxRetryAfter

\* The 429 is handed to the caller.
LimitedReturns(q, delay) ==
  /\ GivesUp(q, delay)
  /\ Go(q, "send", "body") /\ Return(q, "limited")
  /\ setCooldown(q, now + delay)
  /\ UNCHANGED <<at, now, attempt, wakeAt, slotVars, histVars>>

\* The 429 is drained and closed, which frees the slot, and waited out.
LimitedRetries(q, delay) ==
  /\ ~GivesUp(q, delay)
  /\ Go(q, "send", "backoff")
  /\ setCooldown(q, now + delay)
  /\ release(q)
  /\ wakeAt' = [wakeAt EXCEPT ![q] = now + delay]
  /\ UNCHANGED <<at, now, attempt, outcome, histVars>>

Limited(q) ==
  \E delay \in Delays(q) :
    /\ now + delay <= MaxTime
    /\ LimitedReturns(q, delay) \/ LimitedRetries(q, delay)

BackedOff(q) ==
  /\ now >= wakeAt[q]
  /\ Go(q, "backoff", "check")
  /\ attempt' = [attempt EXCEPT ![q] = @ + 1]
  /\ ReadLocal(q)
  /\ UNCHANGED <<at, now, wakeAt, coolVars, slotVars, outcome, informed,
                 sends>>

Tick ==
  /\ now < MaxTime
  /\ now' = now + 1
  /\ UNCHANGED <<at, pc, attempt, wakeAt, coolVars, slotVars, outcome,
                 histVars>>

-----------------------------------------------------------------------------

Work(q) ==
  \/ CheckShared(q) \/ CheckLocal(q) \/ CoolDown(q)
  \/ AcquireSlot(q) \/ QueueTimeout(q)
  \/ SendFails(q) \/ Responds(q) \/ CloseBody(q)
  \/ Limited(q) \/ BackedOff(q)

Next ==
  \/ \E q \in Request : Start(q) \/ Work(q) \/ WaitAborted(q)
  \/ Tick

Spec == Init /\ [][Next]_vars

(* Timers fire, the queue and the HTTP client have timeouts, handlers run. *)
FairSpec ==
  Spec /\ WF_vars(Tick) /\ \A q \in Request : WF_vars(Work(q))

-----------------------------------------------------------------------------
(* Properties.                                                             *)

\* Type invariant of the limiter and the cooldowns.
TypeOK ==
  /\ at \in [Request -> Replica] /\ now \in 0 .. MaxTime
  /\ pc \in [Request -> Phase]
  /\ attempt \in [Request -> Nat] /\ wakeAt \in [Request -> Nat]
  /\ local \in [Replica -> Nat] /\ remote \in Nat /\ announced \in Nat
  /\ inUse \in [Replica -> Nat] /\ held \subseteq Request
  /\ outcome \in [Request -> {"none", "cooldown", "queue_timeout", "aborted",
                              "error", "response", "limited"}]
  /\ seen \in [Request -> Nat] /\ informed \in [Request -> Nat]
  /\ sends \in [Request -> Nat]

InFlight(r) == {q \in Request : at[q] = r /\ pc[q] \in {"send", "body"}}

\* Slots are never leaked and never given back twice: on every path out of do
\* the limiter channel holds exactly one token per upstream response in
\* flight, and so no more than max_concurrent_per_registry are.
SlotsMatchInFlight ==
  \A r \in Replica :
    inUse[r] = Cardinality(InFlight(r)) /\ inUse[r] <= MaxConcurrent

\* The upstream is spared.  Nothing is sent before the cooldown the request
\* itself found, or was given by its own 429, has passed, nor more than the
\* second that SetCooldown cuts off before a shared one it has read ends; and
\* a request is sent at most once more than rate_limit_retries, one that may
\* not be replayed (a body, another method) at most once.
UpstreamSpared ==
  \A q \in Request :
    /\ pc[q] = "send" =>
         /\ now >= seen[q] /\ now >= wakeAt[q]
         /\ now + Second > informed[q]
    /\ sends[q] <= (IF q \in Retryable THEN RateLimitRetries + 1 ELSE 1)

\* Concurrent 429s never shorten a cooldown: neither the replica's entry nor
\* the shared item moves back.
CooldownsMonotone ==
  [][ /\ remote' >= remote
      /\ \A r \in Replica : local'[r] >= local[r] ]_vars

\* Every request gets out of do and gives its slot back.
EveryCallEnds ==
  \A q \in Request : pc[q] = "check" ~> pc[q] = "done" /\ q \notin held

=============================================================================
