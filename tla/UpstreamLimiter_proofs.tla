----------------------- MODULE UpstreamLimiter_proofs -----------------------
(***************************************************************************)
(* The slots, the cooldowns and the retries of UpstreamLimiter, for any    *)
(* replicas, requests, delays and limits.                                  *)
(***************************************************************************)
EXTENDS UpstreamLimiter, Arithmetic_proofs, FiniteSetTheorems

-----------------------------------------------------------------------------
(* Operators.                                                              *)

\* A delay is a natural number, be it random or the registry's.
LEMMA DelayNat == \A q \in Request : \A d \in Delays(q) : d \in Nat
<1> TAKE q \in Request
<1> TAKE d \in Delays(q)
<1>1. CASE d \in Backoff(q)
  BY <1>1 DEF Backoff
<1>2. CASE d \notin Backoff(q)
  <2>1. PICK e \in RetryAfter : d \in Jittered(e)
    BY <1>2 DEF Delays
  <2>2. e \in Nat /\ MaxRetryAfter \in Nat /\ Jitter \in Nat
    BY UpstreamAssumption
  <2>3. CASE e = 0
    BY <2>1, <2>3 DEF Jittered
  <2>4. CASE e # 0
    <3>1. PICK j \in 0 .. Jitter :
            d = IF e <= MaxRetryAfter THEN Min({e + j, MaxRetryAfter})
                ELSE e + j
      BY <2>1, <2>4 DEF Jittered
    <3> DEFINE s == e + j
    <3>2. s \in Nat
      BY <2>2
    <3> HIDE DEF s
    <3>3. Min({s, MaxRetryAfter}) \in {s, MaxRetryAfter}
      BY <3>2, <2>2, MinPair
    <3> QED
      BY <3>1, <3>2, <3>3, <2>2 DEF s
  <2> QED
    BY <2>3, <2>4
<1> QED
  BY <1>1, <1>2

\* The shared cooldown is a time.
LEMMA CooldownNat ==
  ASSUME remote \in Nat, now \in Nat
  PROVE  Cooldown \in Nat
  BY UpstreamAssumption DEF Cooldown

\* cooldowns.set keeps the type and never moves an entry back.
LEMMA SetLocalForward ==
  ASSUME NEW q \in Request, NEW until \in Nat, SetLocal(q, until),
         at \in [Request -> Replica], local \in [Replica -> Nat]
  PROVE  /\ local' \in [Replica -> Nat]
         /\ \A r \in Replica : local'[r] >= local[r]
<1> DEFINE r0 == at[q]
           m == Max({local[r0], until})
<1>1. r0 \in Replica /\ local[r0] \in Nat
  OBVIOUS
<1>2. m \in {local[r0], until} /\ m >= local[r0]
  BY <1>1, MaxPair
<1>3. local' = [local EXCEPT ![r0] = m]
  BY DEF SetLocal
<1> HIDE DEF m, r0
<1> QED
  BY <1>1, <1>2, <1>3

\* The shared item's expiry and its history move forward and stay numbers.
LEMMA SetCooldownForward ==
  ASSUME NEW until \in Nat, SetCooldown(until), remote \in Nat,
         announced \in Nat
  PROVE  /\ remote' \in Nat /\ remote' >= remote
         /\ announced' \in Nat /\ announced' >= announced
         /\ announced' \in {announced, until}
         /\ until \div Second \in Nat /\ remote' >= until \div Second
<1>1. until \div Second \in Nat
  BY DivFacts, UpstreamAssumption
<1>2. /\ Max({announced, until}) \in {announced, until}
      /\ Max({announced, until}) >= announced
  BY MaxPair
<1> QED
  BY <1>1, <1>2 DEF SetCooldown

-----------------------------------------------------------------------------
(* Slots.  TypeOK is not inductive by itself: that a release leaves a      *)
(* natural number in inUse takes the correspondence between the tokens,    *)
(* the release functions that have not run, and the phases.                *)

Sending == {"send", "body"}

SlotInv ==
  /\ held = {q \in Request : pc[q] \in Sending}
  /\ \A r \in Replica : IsFiniteSet(InFlight(r))
  /\ SlotsMatchInFlight

\* A step that takes its request neither into flight nor out of it.
LEMMA FlightKept ==
  ASSUME TypeOK, SlotInv, NEW q \in Request, NEW to \in Phase,
         pc' = [pc EXCEPT ![q] = to], pc[q] \in Sending <=> to \in Sending,
         UNCHANGED <<at, slotVars>>
  PROVE  SlotInv'
<1>1. \A p \in Request : pc'[p] \in Sending <=> pc[p] \in Sending
  BY DEF TypeOK
<1>2. \A r \in Replica : InFlight(r)' = InFlight(r)
  BY <1>1 DEF InFlight, Sending
<1> QED
  BY <1>1, <1>2 DEF SlotInv, SlotsMatchInFlight, slotVars

\* Taking a slot counts the request in.
LEMMA FlightBegins ==
  ASSUME TypeOK, SlotInv, NEW q \in Request, AcquireSlot(q)
  PROVE  SlotInv' /\ inUse' \in [Replica -> Nat]
<1> DEFINE r0 == at[q]
<1>1. /\ r0 \in Replica /\ inUse[r0] \in Nat /\ inUse[r0] < MaxConcurrent
      /\ inUse' = [inUse EXCEPT ![r0] = inUse[r0] + 1]
      /\ q \notin InFlight(r0) /\ held' = held \cup {q} /\ at' = at
      /\ pc[q] = "queue" /\ pc' = [pc EXCEPT ![q] = "send"]
  BY DEF AcquireSlot, Go, TypeOK, InFlight
<1>2. /\ InFlight(r0)' = InFlight(r0) \cup {q}
      /\ \A r \in Replica \ {r0} : InFlight(r)' = InFlight(r)
  BY <1>1 DEF InFlight, TypeOK
<1>3. /\ IsFiniteSet(InFlight(r0)')
      /\ Cardinality(InFlight(r0)') = Cardinality(InFlight(r0)) + 1
  BY <1>1, <1>2, FS_AddElement, SMTT(60) DEF SlotInv
<1>4. held' = {p \in Request : pc'[p] \in Sending}
  BY <1>1 DEF SlotInv, TypeOK, Sending
<1>5. \A r \in Replica :
        /\ IsFiniteSet(InFlight(r)')
        /\ inUse'[r] = Cardinality(InFlight(r)') /\ inUse'[r] <= MaxConcurrent
  <2> TAKE r \in Replica
  <2>1. CASE r = r0
    BY <2>1, <1>1, <1>3, UpstreamAssumption
       DEF SlotInv, SlotsMatchInFlight, TypeOK
  <2>2. CASE r # r0
    BY <2>2, <1>1, <1>2 DEF SlotInv, SlotsMatchInFlight, TypeOK
  <2> QED
    BY <2>1, <2>2
<1> QED
  BY <1>1, <1>4, <1>5 DEF SlotInv, SlotsMatchInFlight, TypeOK

\* Giving the slot back counts the request out, and leaves a number.
LEMMA FlightEnds ==
  ASSUME TypeOK, SlotInv, NEW q \in Request, pc[q] \in Sending, release(q),
         NEW to \in Phase \ Sending, pc' = [pc EXCEPT ![q] = to], at' = at
  PROVE  SlotInv' /\ inUse' \in [Replica -> Nat] /\ held' \subseteq Request
<1> DEFINE r0 == at[q]
<1>1. /\ r0 \in Replica /\ inUse[r0] \in Nat /\ q \in held
      /\ inUse' = [inUse EXCEPT ![r0] = inUse[r0] - 1]
      /\ held' = held \ {q} /\ q \in InFlight(r0)
  BY DEF release, TypeOK, InFlight, SlotInv, Sending
<1>2. /\ InFlight(r0)' = InFlight(r0) \ {q}
      /\ \A r \in Replica \ {r0} : InFlight(r)' = InFlight(r)
  <2>1. /\ pc'[q] \notin Sending
        /\ \A p \in Request \ {q} : pc'[p] = pc[p]
    BY DEF TypeOK
  <2>2. \A r \in Replica :
          /\ InFlight(r) = {p \in Request : at[p] = r /\ pc[p] \in Sending}
          /\ InFlight(r)' = {p \in Request : at[p] = r /\ pc'[p] \in Sending}
    BY DEF InFlight, Sending
  <2>3. \A p \in Request \ {q} : pc'[p] \in Sending <=> pc[p] \in Sending
    BY <2>1
  <2>4. \A r \in Replica \ {r0} : InFlight(r)' = InFlight(r)
    BY <2>1, <2>2, <2>3
  <2>5. InFlight(r0)' = InFlight(r0) \ {q}
    BY <1>1, <2>1, <2>2, <2>3
  <2> QED
    BY <2>4, <2>5
<1>3. /\ IsFiniteSet(InFlight(r0)')
      /\ Cardinality(InFlight(r0)') = Cardinality(InFlight(r0)) - 1
  BY <1>1, <1>2, FS_RemoveElement, ZenonT(60) DEF SlotInv
<1>4. Cardinality(InFlight(r0)') \in Nat
  BY <1>3, FS_CardinalityType
<1>5. held' = {p \in Request : pc'[p] \in Sending}
  BY <1>1 DEF SlotInv, TypeOK
<1>6. \A r \in Replica :
        /\ IsFiniteSet(InFlight(r)') /\ inUse'[r] \in Nat
        /\ inUse'[r] = Cardinality(InFlight(r)') /\ inUse'[r] <= MaxConcurrent
  <2> TAKE r \in Replica
  <2>1. CASE r = r0
    BY <2>1, <1>1, <1>3, <1>4, UpstreamAssumption
       DEF SlotInv, SlotsMatchInFlight, TypeOK
  <2>2. CASE r # r0
    BY <2>2, <1>1, <1>2 DEF SlotInv, SlotsMatchInFlight, TypeOK
  <2> QED
    BY <2>1, <2>2
<1> QED
  BY <1>1, <1>5, <1>6 DEF SlotInv, SlotsMatchInFlight, TypeOK

-----------------------------------------------------------------------------
(* Type correctness.                                                       *)

\* Every step of a request, and the clock, keep the types.
LEMMA TypeStep == TypeOK /\ SlotInv /\ [Next]_vars => TypeOK'
<1> SUFFICES ASSUME TypeOK, SlotInv, [Next]_vars PROVE TypeOK'
  OBVIOUS
<1> USE UpstreamAssumption
        DEF TypeOK, Phase, Go, Return, coolVars, slotVars, histVars
<1>1. ASSUME NEW q \in Request, Start(q) PROVE TypeOK'
  BY <1>1 DEF Start, ReadLocal
<1>2. ASSUME NEW q \in Request, NEW shared \in Nat, Proceed(q, shared),
             UNCHANGED <<at, now, attempt, remote, announced, slotVars, sends>>,
             informed' \in [Request -> Nat]
      PROVE  TypeOK'
  <2>1. local' \in [Replica -> Nat]
    BY <1>2, SetLocalForward DEF Proceed
  <2> DEFINE until == Max({seen[q], shared})
  <2>2. until \in Nat
    <3>1. seen[q] \in Int /\ shared \in Int
      BY <1>2
    <3>2. until \in {seen[q], shared}
      BY <3>1, MaxPair
    <3> QED
      BY <1>2, <3>2
  <2>3. /\ seen' = [seen EXCEPT ![q] = until]
        /\ \/ Go(q, "check", "queue") /\ UNCHANGED <<wakeAt, outcome>>
           \/ /\ Go(q, "check", "done") /\ Return(q, "cooldown")
              /\ UNCHANGED wakeAt
           \/ /\ Go(q, "check", "cool")
              /\ wakeAt' = [wakeAt EXCEPT ![q] = until]
              /\ UNCHANGED outcome
    BY <1>2 DEF Proceed
  <2> HIDE DEF until
  <2> QED
    BY <1>2, <2>1, <2>2, <2>3
<1>3. ASSUME NEW q \in Request, CheckShared(q) \/ CheckLocal(q) PROVE TypeOK'
  BY <1>3, <1>2, CooldownNat DEF CheckShared, CheckLocal
<1>4. ASSUME NEW q \in Request, CoolDown(q) \/ QueueTimeout(q) \/ WaitAborted(q)
             \/ Responds(q) \/ BackedOff(q)
      PROVE  TypeOK'
  BY <1>4 DEF CoolDown, QueueTimeout, WaitAborted, Responds, BackedOff,
              ReadLocal
<1>5. ASSUME NEW q \in Request, AcquireSlot(q) PROVE TypeOK'
  BY <1>5 DEF AcquireSlot
<1>6. ASSUME NEW q \in Request, SendFails(q) \/ CloseBody(q) PROVE TypeOK'
  BY <1>6, FlightEnds DEF SendFails, CloseBody, Sending
<1>7. ASSUME NEW q \in Request, NEW until \in Nat, setCooldown(q, until)
      PROVE  local' \in [Replica -> Nat] /\ remote' \in Nat /\ announced' \in Nat
  BY <1>7, SetLocalForward, SetCooldownForward DEF setCooldown
<1>8. ASSUME NEW q \in Request, Limited(q) PROVE TypeOK'
  <2>1. PICK delay \in Delays(q) :
          /\ now + delay <= MaxTime
          /\ LimitedReturns(q, delay) \/ LimitedRetries(q, delay)
    BY <1>8 DEF Limited
  <2>2. delay \in Nat /\ now + delay \in Nat
    BY DelayNat
  <2>3. CASE LimitedReturns(q, delay)
    BY <2>3, <2>2, <1>7 DEF LimitedReturns
  <2>4. CASE LimitedRetries(q, delay)
    BY <2>4, <2>2, <1>7, FlightEnds DEF LimitedRetries, Sending
  <2> QED
    BY <2>1, <2>3, <2>4
<1>9. CASE Tick
  BY <1>9 DEF Tick
<1>10. CASE UNCHANGED vars
  BY <1>10 DEF vars
<1> QED
  BY <1>1, <1>3, <1>4, <1>5, <1>6, <1>8, <1>9, <1>10 DEF Next, Work

\* Every step keeps slots, release functions and phases together.
LEMMA SlotStep == TypeOK /\ SlotInv /\ [Next]_vars => SlotInv'
<1> SUFFICES ASSUME TypeOK, SlotInv, [Next]_vars PROVE SlotInv'
  OBVIOUS
<1> USE DEF Phase, Sending, Go, coolVars, slotVars, histVars
<1>1. ASSUME NEW q \in Request, Start(q) \/ CoolDown(q) \/ QueueTimeout(q)
             \/ WaitAborted(q) \/ Responds(q) \/ BackedOff(q)
      PROVE  SlotInv'
  BY <1>1, FlightKept
     DEF Start, CoolDown, QueueTimeout, WaitAborted, Responds, BackedOff
<1>2. ASSUME NEW q \in Request, CheckShared(q) \/ CheckLocal(q)
      PROVE  SlotInv'
  BY <1>2, FlightKept DEF CheckShared, CheckLocal, Proceed
<1>3. ASSUME NEW q \in Request, AcquireSlot(q) PROVE SlotInv'
  BY <1>3, FlightBegins
<1>4. ASSUME NEW q \in Request, SendFails(q) \/ CloseBody(q) PROVE SlotInv'
  BY <1>4, FlightEnds DEF SendFails, CloseBody
<1>5. ASSUME NEW q \in Request, Limited(q) PROVE SlotInv'
  BY <1>5, FlightEnds, FlightKept DEF Limited, LimitedReturns, LimitedRetries
<1>6. CASE UNCHANGED <<at, pc, slotVars>>
  <2>1. \A r \in Replica : InFlight(r)' = InFlight(r)
    BY <1>6 DEF InFlight
  <2> QED
    BY <1>6, <2>1 DEF SlotInv, SlotsMatchInFlight
<1> QED
  BY <1>1, <1>2, <1>3, <1>4, <1>5, <1>6 DEF Next, Work, Tick, vars

\* Types and slots hold from the start.
LEMMA SlotInit == Init => TypeOK /\ SlotInv
<1> SUFFICES ASSUME Init PROVE TypeOK /\ SlotInv
  OBVIOUS
<1>1. TypeOK
  BY UpstreamAssumption DEF Init, TypeOK, Phase
<1>2. \A r \in Replica : InFlight(r) = {}
  BY DEF Init, InFlight
<1>3. /\ IsFiniteSet({}) /\ Cardinality({}) = 0
      /\ MaxConcurrent \in Nat /\ 0 <= MaxConcurrent
  BY FS_EmptySet, UpstreamAssumption
<1>4. \A r \in Replica : inUse[r] = 0
  BY DEF Init
<1>5. held = {} /\ \A q \in Request : pc[q] \notin Sending
  BY DEF Init, Sending
<1>6. SlotsMatchInFlight
  BY <1>2, <1>3, <1>4 DEF SlotsMatchInFlight
<1> QED
  BY <1>1, <1>2, <1>3, <1>5, <1>6 DEF SlotInv

\* TypeOK is an invariant of the limiter.
THEOREM TypeCorrect == Spec => []TypeOK
<1>1. TypeOK /\ SlotInv /\ [Next]_vars => (TypeOK /\ SlotInv)'
  BY TypeStep, SlotStep
<1> QED
  BY <1>1, SlotInit, PTL DEF Spec

\* On every path out of do the limiter channel holds one token per response in
\* flight: none is leaked, none given back twice, and at most
\* max_concurrent_per_registry responses of a registry are in flight.
THEOREM SlotsKept == Spec => []SlotsMatchInFlight
<1>1. TypeOK /\ SlotInv /\ [Next]_vars => (TypeOK /\ SlotInv)'
  BY TypeStep, SlotStep
<1>2. SlotInv => SlotsMatchInFlight
  BY DEF SlotInv
<1> QED
  BY <1>1, <1>2, SlotInit, PTL DEF Spec

-----------------------------------------------------------------------------
(* The upstream is spared.  CoolInv: past the check a request has waited   *)
(* for the cooldowns it knows of; RetryInv: what it has sent is bounded by *)
(* its attempts, and these by the retries allowed; ItemInv: the shared     *)
(* item is less than a second short of what was announced.                 *)

ItemInv == announced < Second * remote + Second

CoolInv ==
  \A q \in Request :
    /\ pc[q] \in {"new", "check", "queue", "send"} => wakeAt[q] <= now
    /\ pc[q] = "cool" => wakeAt[q] = seen[q]
    /\ pc[q] \in {"queue", "send"} => seen[q] <= now
    /\ \/ informed[q] < now + Second
       \/ pc[q] \in {"cool", "done"} /\ informed[q] < seen[q] + Second

RetryInv ==
  \A q \in Request :
    /\ sends[q] <= attempt[q] +
         (IF pc[q] \in {"new", "check", "cool", "queue"} THEN 0 ELSE 1)
    /\ attempt[q] <= RateLimitRetries
    /\ pc[q] = "backoff" => attempt[q] < RateLimitRetries
    /\ q \notin Retryable => attempt[q] = 0 /\ pc[q] # "backoff"

\* The seconds cut off a stored cooldown are less than one.
LEMMA ItemStep == TypeOK /\ ItemInv /\ [Next]_vars => ItemInv'
<1> SUFFICES ASSUME TypeOK, ItemInv, [Next]_vars PROVE ItemInv'
  OBVIOUS
<1>1. ASSUME NEW until \in Nat, SetCooldown(until) PROVE ItemInv'
  <2> DEFINE u == until \div Second
             cut == Second * u
             old == Second * remote
             new == Second * remote'
  <2>1. /\ Second \in Nat \ {0} /\ u \in Nat /\ until < cut + Second
        /\ remote \in Nat /\ announced \in Nat
    BY DivFacts, UpstreamAssumption DEF TypeOK
  <2>2. /\ remote' \in Nat /\ remote' >= remote /\ remote' >= u
        /\ announced' \in {announced, until}
    BY <1>1, <2>1, SetCooldownForward
  <2> HIDE DEF u
  <2>3. /\ cut \in Nat /\ old \in Nat /\ new \in Nat
        /\ cut <= new /\ old <= new
    BY <2>1, <2>2, TimesMono, TimesComm
  <2>4. announced < old + Second
    BY DEF ItemInv
  <2> HIDE DEF cut, old, new
  <2>5. announced' < new + Second
    BY <2>1, <2>2, <2>3, <2>4
  <2> QED
    BY <2>5 DEF ItemInv, new
<1>2. CASE UNCHANGED <<remote, announced>>
  BY <1>2 DEF ItemInv
<1>3. ASSUME NEW q \in Request, Limited(q) PROVE ItemInv'
  <2>1. PICK delay \in Delays(q) : setCooldown(q, now + delay)
    BY <1>3 DEF Limited, LimitedReturns, LimitedRetries
  <2>2. delay \in Nat
    BY DelayNat
  <2>3. now + delay \in Nat
    BY <2>2 DEF TypeOK
  <2> QED
    BY <2>1, <2>3, <1>1, <1>2 DEF setCooldown
<1>4. ASSUME NEW q \in Request, Start(q) \/ CheckShared(q) \/ CheckLocal(q)
             \/ CoolDown(q) \/ AcquireSlot(q) \/ QueueTimeout(q)
             \/ WaitAborted(q) \/ SendFails(q) \/ Responds(q) \/ CloseBody(q)
             \/ BackedOff(q)
      PROVE  UNCHANGED <<remote, announced>>
  BY <1>4 DEF Start, CheckShared, CheckLocal, CoolDown, AcquireSlot,
              QueueTimeout, WaitAborted, SendFails, Responds, CloseBody,
              BackedOff, coolVars
<1> QED
  BY <1>2, <1>3, <1>4 DEF Next, Work, Tick, vars, coolVars

\* Proceed leaves a request that knows of a cooldown still running waiting
\* for its end, or answered.
LEMMA ProceedCools ==
  ASSUME TypeOK, CoolInv, NEW q \in Request, NEW shared \in Nat,
         Proceed(q, shared), now' = now,
         NEW known \in Nat, informed' = [informed EXCEPT ![q] = known],
         \/ known < now + Second
         \/ known < shared + Second /\ shared > now
  PROVE  CoolInv'
<1>0. now \in Nat /\ Second \in Nat \ {0}
  BY UpstreamAssumption DEF TypeOK
<1> USE DEF TypeOK, CoolInv, Phase, Go
<1> DEFINE until == Max({seen[q], shared})
<1>1. until \in Nat /\ until >= shared
  <2>1. seen[q] \in Int /\ shared \in Int
    OBVIOUS
  <2>2. until \in {seen[q], shared} /\ until >= shared
    BY <2>1, MaxPair
  <2> QED
    BY <2>2
<1>2. /\ seen' = [seen EXCEPT ![q] = until] /\ pc[q] = "check"
      /\ \/ until <= now /\ Go(q, "check", "queue") /\ UNCHANGED wakeAt
         \/ Go(q, "check", "done") /\ UNCHANGED wakeAt
         \/ /\ Go(q, "check", "cool")
            /\ wakeAt' = [wakeAt EXCEPT ![q] = until]
  BY DEF Proceed
<1> HIDE DEF until
<1> QED
  BY <1>0, <1>1, <1>2

\* Past the check a request has waited for every cooldown it knows of.
LEMMA CoolStep == TypeOK /\ ItemInv /\ CoolInv /\ [Next]_vars => CoolInv'
<1> SUFFICES ASSUME TypeOK, ItemInv, CoolInv, [Next]_vars PROVE CoolInv'
  OBVIOUS
<1>0. now \in Nat /\ Second \in Nat \ {0}
  BY UpstreamAssumption DEF TypeOK
<1>1. ASSUME NEW q \in Request, CheckShared(q) PROVE CoolInv'
  <2> DEFINE c == Cooldown
             e == remote * Second
  <2>1. c \in Nat /\ announced \in Nat
    BY CooldownNat, <1>0 DEF TypeOK
  <2>2. e \in Nat /\ announced < e + Second
    BY <1>0, TimesComm DEF ItemInv, TypeOK
  <2>3. c = IF e > now THEN e ELSE 0
    BY DEF Cooldown
  <2>4. /\ Proceed(q, c) /\ now' = now
        /\ informed' = [informed EXCEPT ![q] = announced]
    BY <1>1 DEF CheckShared
  <2> HIDE DEF c, e
  <2>5. announced < now + Second \/ (announced < c + Second /\ c > now)
    BY <1>0, <2>1, <2>2, <2>3
  <2> QED
    BY <2>1, <2>4, <2>5, ProceedCools
<1>2. ASSUME NEW q \in Request, CheckLocal(q) PROVE CoolInv'
  <2>1. /\ Proceed(q, 0) /\ now' = now /\ informed' = informed
        /\ pc[q] = "check" /\ informed[q] \in Nat
    BY <1>2 DEF CheckLocal, Proceed, Go, TypeOK
  <2>2. informed[q] < now + Second
    BY <2>1 DEF CoolInv
  <2>3. informed' = [informed EXCEPT ![q] = informed[q]]
    BY <2>1 DEF TypeOK
  <2> QED
    BY <2>1, <2>2, <2>3, ProceedCools
<1> USE DEF TypeOK, CoolInv, Phase, Go, coolVars, slotVars, histVars
<1>3. ASSUME NEW q \in Request, Start(q) \/ BackedOff(q) PROVE CoolInv'
  BY <1>0, <1>3 DEF Start, BackedOff, ReadLocal
<1>4. ASSUME NEW q \in Request, CoolDown(q) \/ AcquireSlot(q)
             \/ QueueTimeout(q) \/ WaitAborted(q) \/ Responds(q)
             \/ SendFails(q) \/ CloseBody(q)
      PROVE  CoolInv'
  BY <1>0, <1>4 DEF CoolDown, AcquireSlot, QueueTimeout, WaitAborted, Responds,
                    SendFails, CloseBody
<1>5. ASSUME NEW q \in Request, Limited(q) PROVE CoolInv'
  <2>1. /\ UNCHANGED <<now, seen, informed>> /\ pc[q] = "send"
        /\ \/ pc' = [pc EXCEPT ![q] = "body"] /\ wakeAt' = wakeAt
           \/ /\ pc' = [pc EXCEPT ![q] = "backoff"]
              /\ \E t : wakeAt' = [wakeAt EXCEPT ![q] = t]
    BY <1>5 DEF Limited, LimitedReturns, LimitedRetries
  <2> QED
    BY <1>0, <2>1
<1>6. CASE Tick
  BY <1>0, <1>6 DEF Tick
<1>7. CASE UNCHANGED vars
  BY <1>7 DEF vars
<1> QED
  BY <1>1, <1>2, <1>3, <1>4, <1>5, <1>6, <1>7 DEF Next, Work

\* What is sent is bounded by the attempts, and these by the retries.
LEMMA RetryStep == TypeOK /\ RetryInv /\ [Next]_vars => RetryInv'
<1> SUFFICES ASSUME TypeOK, RetryInv, [Next]_vars PROVE RetryInv'
  OBVIOUS
<1>0. RateLimitRetries \in Nat
  BY UpstreamAssumption
<1> USE DEF TypeOK, RetryInv, Phase, Go, coolVars, slotVars, histVars
<1>1. ASSUME NEW q \in Request, CheckShared(q) \/ CheckLocal(q)
      PROVE  RetryInv'
  <2>1. /\ UNCHANGED <<attempt, sends>> /\ pc[q] = "check"
        /\ \E to \in {"queue", "done", "cool"} : pc' = [pc EXCEPT ![q] = to]
    BY <1>1 DEF CheckShared, CheckLocal, Proceed
  <2> QED
    BY <1>0, <2>1
<1>2. ASSUME NEW q \in Request, Start(q) \/ CoolDown(q) \/ QueueTimeout(q)
             \/ WaitAborted(q) \/ Responds(q) \/ SendFails(q) \/ CloseBody(q)
      PROVE  RetryInv'
  BY <1>0, <1>2 DEF Start, CoolDown, QueueTimeout, WaitAborted, Responds,
                    SendFails, CloseBody
<1>3. ASSUME NEW q \in Request, AcquireSlot(q) PROVE RetryInv'
  BY <1>0, <1>3 DEF AcquireSlot
<1>4. ASSUME NEW q \in Request, BackedOff(q) PROVE RetryInv'
  BY <1>0, <1>4 DEF BackedOff
<1>5. ASSUME NEW q \in Request, Limited(q) PROVE RetryInv'
  <2>1. /\ UNCHANGED <<attempt, sends>> /\ pc[q] = "send"
        /\ \/ pc' = [pc EXCEPT ![q] = "body"]
           \/ /\ pc' = [pc EXCEPT ![q] = "backoff"]
              /\ q \in Retryable /\ ~(attempt[q] >= RateLimitRetries)
    BY <1>5 DEF Limited, LimitedReturns, LimitedRetries, GivesUp
  <2> QED
    BY <1>0, <2>1
<1>6. CASE UNCHANGED <<pc, attempt, sends>>
  BY <1>6
<1> QED
  BY <1>1, <1>2, <1>3, <1>4, <1>5, <1>6 DEF Next, Work, Tick, vars

\* UpstreamSpared: do sends nothing before the cooldowns the request knows of
\* are over (but for the second SetCooldown cuts off), and no more often than
\* rate_limit_retries allows.
THEOREM UpstreamKept == Spec => []UpstreamSpared
<1> DEFINE Inv == TypeOK /\ SlotInv /\ ItemInv /\ CoolInv /\ RetryInv
<1>1. Init => Inv
  <2>1. Init => ItemInv /\ CoolInv /\ RetryInv
    BY UpstreamAssumption DEF Init, ItemInv, CoolInv, RetryInv
  <2> QED
    BY <2>1, SlotInit
<1>2. Inv /\ [Next]_vars => Inv'
  BY TypeStep, SlotStep, ItemStep, CoolStep, RetryStep
<1>3. Inv => UpstreamSpared
  BY UpstreamAssumption DEF TypeOK, CoolInv, RetryInv, UpstreamSpared
<1> QED
  BY <1>1, <1>2, <1>3, PTL DEF Spec

-----------------------------------------------------------------------------
(* Cooldowns only move forward.                                            *)

\* No step moves a cooldown back.
LEMMA ForwardStep ==
  TypeOK /\ [Next]_vars =>
    remote' >= remote /\ \A r \in Replica : local'[r] >= local[r]
<1> SUFFICES ASSUME TypeOK, [Next]_vars
             PROVE  remote' >= remote /\ \A r \in Replica : local'[r] >= local[r]
  OBVIOUS
<1>1. ASSUME NEW q \in Request, CheckShared(q) \/ CheckLocal(q)
      PROVE  remote' >= remote /\ \A r \in Replica : local'[r] >= local[r]
  <2>1. PICK shared \in Nat : SetLocal(q, shared)
    BY <1>1, CooldownNat DEF CheckShared, CheckLocal, Proceed, TypeOK
  <2> QED
    BY <1>1, <2>1, SetLocalForward DEF CheckShared, CheckLocal, TypeOK
<1>2. ASSUME NEW q \in Request, Limited(q)
      PROVE  remote' >= remote /\ \A r \in Replica : local'[r] >= local[r]
  <2>1. PICK delay \in Delays(q) : setCooldown(q, now + delay)
    BY <1>2 DEF Limited, LimitedReturns, LimitedRetries
  <2>2. delay \in Nat
    BY DelayNat
  <2>3. now + delay \in Nat
    BY <2>2 DEF TypeOK
  <2> QED
    BY <2>1, <2>3, SetLocalForward, SetCooldownForward DEF setCooldown, TypeOK
<1>3. ASSUME NEW q \in Request, Start(q) \/ CoolDown(q) \/ AcquireSlot(q)
             \/ QueueTimeout(q) \/ WaitAborted(q) \/ SendFails(q)
             \/ Responds(q) \/ CloseBody(q) \/ BackedOff(q)
      PROVE  UNCHANGED <<remote, local>>
  BY <1>3 DEF Start, CoolDown, AcquireSlot, QueueTimeout, WaitAborted,
              SendFails, Responds, CloseBody, BackedOff, coolVars
<1>4. CASE UNCHANGED <<remote, local>>
  BY <1>4 DEF TypeOK
<1> QED
  BY <1>1, <1>2, <1>3, <1>4 DEF Next, Work, Tick, vars, coolVars

\* CooldownsMonotone: concurrent 429s never shorten a cooldown, a replica's
\* own or the shared one.
THEOREM CooldownsKept == Spec => CooldownsMonotone
<1>1. TypeOK /\ [Next]_vars =>
        [ /\ remote' >= remote
          /\ \A r \in Replica : local'[r] >= local[r] ]_vars
  BY ForwardStep
<1> QED
  BY <1>1, TypeCorrect, PTL DEF Spec, CooldownsMonotone
=============================================================================
