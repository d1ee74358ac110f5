------------------------- MODULE DynamoLease_proofs -------------------------
(***************************************************************************)
(* Mutual exclusion of fills in real time: for every number of attempts    *)
(* and every configuration that is Timely.                                 *)
(***************************************************************************)
EXTENDS DynamoLease, Arithmetic_proofs

-----------------------------------------------------------------------------
(* Arithmetic of whole seconds and of the ticker.                          *)

\* Truncation to seconds yields a natural number.
LEMMA UnixNat == \A t \in Nat : Unix(t) \in Nat
  BY DivFacts, DurationAssumption DEF Unix

\* Truncation keeps the order of two instants.
LEMMA UnixMono ==
  ASSUME NEW x \in Nat, NEW y \in Nat, x <= y
  PROVE  Unix(x) <= Unix(y)
<1> DEFINE d == Second
           p == x \div d
           q == y \div d
<1>1. /\ d \in Nat \ {0} /\ p \in Nat /\ q \in Nat
      /\ d * p <= x /\ y < d * q + d
  BY DivFacts, DurationAssumption
<1>2. d * p < d * (q + 1)
  BY <1>1
<1> HIDE DEF d, p, q
<1>3. p < q + 1
  BY <1>1, <1>2
<1> QED
  BY <1>1, <1>3 DEF Unix, p, q, d

\* Two instants compared as seconds are off by less than a second.
LEMMA UnixSlack ==
  ASSUME NEW x \in Nat, NEW y \in Nat, Unix(x) <= Unix(y)
  PROVE  x < y + Second
<1> DEFINE d == Second
           p == x \div d
           q == y \div d
<1>1. /\ d \in Nat \ {0} /\ p \in Nat /\ q \in Nat
      /\ x < d * p + d /\ d * q <= y
  BY DivFacts, DurationAssumption
<1>2. p <= q
  BY DEF Unix
<1> HIDE DEF d, p, q
<1>3. d * p <= d * q
  BY <1>1, <1>2
<1>4. x < y + d
  BY <1>1, <1>3
<1> QED
  BY <1>4 DEF d

\* A valid lease duration makes the ticker's period positive.
LEMMA PeriodPositive == RenewPeriod \in Nat \ {0}
  BY DurationAssumption DEF ValidDurations, RenewPeriod

\* The next tick is at most one period or the present moment away.
LEMMA NextTickBound ==
  ASSUME NEW a \in Attempt, now \in Nat, nextTick[a] \in Nat,
         nextTick[a] <= now
  PROVE  /\ NextTick(a) \in Nat
         /\ NextTick(a) <= now \/ NextTick(a) <= nextTick[a] + RenewPeriod
<1> DEFINE n == now - nextTick[a]
           k == n \div RenewPeriod
<1>1. n \in Nat /\ RenewPeriod \in Nat \ {0}
  BY PeriodPositive
<1>2. k \in Nat /\ RenewPeriod * k <= n
  BY <1>1, DivFacts
<1>3. NextTick(a) = nextTick[a] + RenewPeriod * (IF k > 1 THEN k ELSE 1)
  BY DEF NextTick
<1> HIDE DEF k
<1>4. CASE k > 1
  BY <1>1, <1>2, <1>3, <1>4
<1>5. CASE ~(k > 1)
  BY <1>1, <1>3, <1>5
<1> QED
  BY <1>4, <1>5

-----------------------------------------------------------------------------
(* Type correctness, with the fact that a renewal follows a tick.          *)

TickInv == \A a \in Attempt : state[a] = "renewing" => nextTick[a] <= now

\* Every step keeps the types; the expiry written is a whole second.
LEMMA TypeStep == TypeOK /\ TickInv /\ [Next]_leaseVars => TypeOK' /\ TickInv'
<1> SUFFICES ASSUME TypeOK, TickInv, [Next]_leaseVars PROVE TypeOK' /\ TickInv'
  OBVIOUS
<1> USE DEF TickInv
<1>1. ASSUME NEW m \in Call PROVE Expiry(m) \in Nat
  BY UnixNat, SkewAssumption, DurationAssumption DEF Expiry, Local, Call
<1>2. ASSUME NEW a \in Attempt, Step(a) PROVE TypeOK' /\ TickInv'
  <2>1. CASE TryAcquire(a) \/ Renew(a)
    BY <2>1 DEF TypeOK, State, Goto, TryAcquire, Renew, Send, Call
  <2>2. CASE Acquired(a) \/ Refused(a)
    BY <2>2, PeriodPositive
       DEF TypeOK, State, Goto, Acquired, Refused, Answered
  <2>3. CASE AcquireAbandoned(a) \/ RenewFailed(a) \/ ReleaseLease(a)
    BY <2>3 DEF TypeOK, State, Goto, AcquireAbandoned, RenewFailed,
                ReleaseLease, Call
  <2>4. CASE Renewed(a)
    BY <2>4, NextTickBound DEF TypeOK, State, Goto, Renewed, Answered
  <2> QED
    BY <1>2, <2>1, <2>2, <2>3, <2>4 DEF Step
<1>3. ASSUME NEW m \in net, Serve(m) PROVE TypeOK' /\ TickInv'
  BY <1>3, <1>1 DEF TypeOK, Serve, ApplyAcquire, ApplyRenew, ApplyRelease,
                    ApplyRefused, Reply, Call
<1>4. CASE Tick
  BY <1>4 DEF TypeOK, Tick
<1>5. CASE UNCHANGED leaseVars
  BY <1>5 DEF TypeOK, leaseVars
<1> QED
  BY <1>2, <1>3, <1>4, <1>5 DEF Next

\* TypeOK is an invariant of the lease protocol.
THEOREM TypeCorrect == Spec => [](TypeOK /\ TickInv)
<1>1. Init => TypeOK /\ TickInv
  BY DEF Init, TypeOK, TickInv, State
<1> QED
  BY <1>1, TypeStep, PTL DEF Spec

-----------------------------------------------------------------------------
(* The inductive invariant.  NetInv: a call under way belongs to the phase *)
(* that sent it.  TimeInv: how much later than its last confirmed call an  *)
(* attempt can still be active.  HoldInv: whoever is active, or is about   *)
(* to learn of a success, owns the item with the expiry of that call.      *)

NetInv ==
  \A m \in net :
    /\ m.at <= now
    /\ m.kind = "acquire" =>
         /\ state[m.from] \in {"acquiring", "ended"}
         /\ state[m.from] = "acquiring" => m.at = sent[m.from]
    /\ m.kind = "renew" =>
         /\ state[m.from] \in {"renewing", "lost", "ended"}
         /\ state[m.from] = "renewing" => m.at = sent[m.from]
    /\ m.kind = "release" => state[m.from] = "ended"

Due(s, t) == t <= s + AnswerDelay + RenewPeriod \/ t <= s + PollInterval

TimeInv ==
  \A a \in Attempt :
    /\ sent[a] <= now /\ confirmed[a] <= now
    /\ state[a] = "acquiring" => now <= sent[a] + AnswerDelay
    /\ state[a] = "holding" =>
         Due(confirmed[a], nextTick[a]) /\ Due(confirmed[a], now)
    /\ state[a] = "renewing" =>
         /\ nextTick[a] <= sent[a] /\ confirmed[a] <= sent[a]
         /\ Due(confirmed[a], sent[a])
         /\ now <= sent[a] + PollInterval

Protected(a, s) ==
  item.owner = a /\ item.expires >= Unix(Local(a, s) + LeaseDuration)

HoldInv ==
  \A a \in Attempt :
    /\ Active(a) => Protected(a, confirmed[a])
    /\ state[a] \in {"acquiring", "renewing"} /\ reply[a] = "ok"
         => Protected(a, sent[a])

\* Calls stay with the phase that sent them.
LEMMA NetStep ==
  TypeOK /\ NetInv /\ TimeInv /\ [Next]_leaseVars => NetInv'
<1> SUFFICES ASSUME TypeOK, NetInv, TimeInv, [Next]_leaseVars PROVE NetInv'
  OBVIOUS
<1> USE DEF TypeOK, State, Call, NetInv, Goto
<1>1. ASSUME NEW a \in Attempt, TryAcquire(a) \/ Renew(a) PROVE NetInv'
  BY <1>1 DEF TryAcquire, Renew, Send
<1>2. ASSUME NEW a \in Attempt,
             Acquired(a) \/ Refused(a) \/ Renewed(a)
      PROVE  NetInv'
  BY <1>2 DEF Acquired, Refused, Renewed, Answered
<1>3. ASSUME NEW a \in Attempt,
             AcquireAbandoned(a) \/ RenewFailed(a) \/ ReleaseLease(a)
      PROVE  NetInv'
  BY <1>3 DEF AcquireAbandoned, RenewFailed, ReleaseLease, TimeInv
<1>4. ASSUME NEW m \in net, Serve(m) PROVE NetInv'
  BY <1>4 DEF Serve, ApplyAcquire, ApplyRenew, ApplyRelease, ApplyRefused, Reply
<1>5. CASE Tick
  BY <1>5 DEF Tick
<1>6. CASE UNCHANGED leaseVars
  BY <1>6 DEF leaseVars
<1> QED
  BY <1>1, <1>2, <1>3, <1>4, <1>5, <1>6 DEF Next, Step

\* The ticker and the timeouts bound how long an attempt stays active.
LEMMA TimeStep ==
  TypeOK /\ TickInv /\ TimeInv /\ [Next]_leaseVars => TimeInv'
<1> SUFFICES ASSUME TypeOK, TickInv, TimeInv, [Next]_leaseVars PROVE TimeInv'
  OBVIOUS
<1> USE PeriodPositive, DurationAssumption
        DEF TypeOK, State, TimeInv, TickInv, Due, Goto
<1>1. ASSUME NEW a \in Attempt, TryAcquire(a) \/ Renew(a) PROVE TimeInv'
  BY <1>1 DEF TryAcquire, Renew, Send
<1>2. ASSUME NEW a \in Attempt, Acquired(a) \/ Refused(a) PROVE TimeInv'
  BY <1>2 DEF Acquired, Refused, Answered
<1>3. ASSUME NEW a \in Attempt, Renewed(a) PROVE TimeInv'
  BY <1>3, NextTickBound DEF Renewed, Answered
<1>4. ASSUME NEW a \in Attempt,
             AcquireAbandoned(a) \/ RenewFailed(a) \/ ReleaseLease(a)
      PROVE  TimeInv'
  BY <1>4 DEF AcquireAbandoned, RenewFailed, ReleaseLease
<1>5. ASSUME NEW m \in net, Serve(m) PROVE TimeInv'
  BY <1>5 DEF Serve, ApplyAcquire, ApplyRenew, ApplyRelease, ApplyRefused, Reply
<1>6. CASE Tick
  BY <1>6 DEF Tick
<1>7. CASE UNCHANGED leaseVars
  BY <1>7 DEF leaseVars
<1> QED
  BY <1>1, <1>2, <1>3, <1>4, <1>5, <1>6, <1>7 DEF Next, Step

\* In a Timely configuration nobody can acquire an item that is protected
\* by a call as recent as an active attempt's.
LEMMA Guarded ==
  ASSUME Timely, TypeOK, NetInv, NEW a \in Attempt, NEW s \in Nat,
         Protected(a, s),
         \/ now <= s + AnswerDelay + RenewPeriod + PollInterval
         \/ now <= s + 2 * PollInterval,
         NEW m \in net
  PROVE  ~AcquireCondition(m)
<1> SUFFICES ASSUME AcquireCondition(m) PROVE FALSE
  OBVIOUS
<1>1. /\ m.at \in Nat /\ m.at <= now /\ now \in Nat /\ m.from \in Attempt
      /\ item.expires \in Nat
  BY DEF TypeOK, NetInv, Call
<1>2. /\ Skew[a] \in 0 .. MaxSkew /\ Skew[m.from] \in 0 .. MaxSkew
      /\ MaxSkew \in Nat
  BY <1>1, SkewAssumption
<1>3. LeaseDuration \in Nat /\ Second \in Nat /\ PollInterval \in Nat
      /\ AnswerDelay \in Nat /\ RenewPeriod \in Nat
  BY DurationAssumption, PeriodPositive
<1>4. item.expires <= Unix(m.at + Skew[m.from])
  BY OwnerAssumption DEF AcquireCondition, Protected, Local
<1>5. Unix(s + Skew[a] + LeaseDuration) <= Unix(m.at + Skew[m.from])
  <2>1. Unix(s + Skew[a] + LeaseDuration) \in Nat
        /\ Unix(m.at + Skew[m.from]) \in Nat
    BY <1>1, <1>2, <1>3, UnixNat
  <2> QED
    BY <1>1, <1>4, <2>1 DEF Protected, Local
<1>6. s + Skew[a] + LeaseDuration < m.at + Skew[m.from] + Second
  BY <1>1, <1>2, <1>3, <1>5, UnixSlack
<1>7. s + LeaseDuration < now + MaxSkew + Second
  BY <1>1, <1>2, <1>3, <1>6
<1> QED
  BY <1>1, <1>2, <1>3, <1>7 DEF Timely

\* Ownership follows the calls: a step never takes an active attempt's item.
LEMMA HoldStep ==
  Timely /\ TypeOK /\ TickInv /\ NetInv /\ TimeInv /\ HoldInv
    /\ [Next]_leaseVars => HoldInv'
<1> SUFFICES ASSUME Timely, TypeOK, TickInv, NetInv, TimeInv, HoldInv,
                    [Next]_leaseVars
             PROVE  HoldInv'
  OBVIOUS
<1> USE DEF HoldInv, Active
<1>1. ASSUME NEW a \in Attempt, TryAcquire(a) \/ Renew(a) PROVE HoldInv'
  BY <1>1 DEF TryAcquire, Renew, Send, Goto, TypeOK, Protected
<1>2. ASSUME NEW a \in Attempt, Acquired(a) \/ Renewed(a) PROVE HoldInv'
  BY <1>2 DEF Acquired, Renewed, Answered, Goto, TypeOK, Protected
<1>3. ASSUME NEW a \in Attempt,
             \/ Refused(a) \/ AcquireAbandoned(a)
             \/ RenewFailed(a) \/ ReleaseLease(a)
      PROVE  HoldInv'
  BY <1>3 DEF Refused, AcquireAbandoned, RenewFailed,
              ReleaseLease, Answered, Goto, TypeOK, Protected
<1>4. ASSUME NEW m \in net, Serve(m) PROVE HoldInv'
  <2>1. m \in Call /\ m.from \in Attempt /\ m.at \in Nat
    BY DEF TypeOK, Call
  <2>2. ASSUME NEW a \in Attempt,
               \/ Active(a)
               \/ state[a] \in {"acquiring", "renewing"} /\ reply[a] = "ok"
        PROVE  ~AcquireCondition(m)
    <3>1. /\ sent[a] \in Nat /\ confirmed[a] \in Nat /\ now \in Nat
          /\ AnswerDelay \in Nat /\ PollInterval \in Nat /\ RenewPeriod \in Nat
      BY DurationAssumption, PeriodPositive DEF TypeOK
    <3>2. CASE Active(a)
      BY <3>1, <3>2, Guarded DEF TimeInv, Due
    <3>3. CASE state[a] \in {"acquiring", "renewing"} /\ reply[a] = "ok"
      BY <3>1, <3>3, Guarded DEF TimeInv
    <3> QED
      BY <2>2, <3>2, <3>3
  <2>3. CASE ApplyAcquire(m)
    <3>1. /\ AcquireCondition(m) /\ item'.owner = m.from
          /\ item'.expires = Expiry(m) /\ m.kind = "acquire"
      BY <2>3 DEF ApplyAcquire
    <3>2. /\ UNCHANGED <<state, sent, confirmed>>
          /\ \A a \in Attempt : reply'[a] = reply[a] \/ (a = m.from /\ Outstanding(m))
      BY <2>1, <2>3 DEF ApplyAcquire, Reply, TypeOK
    <3>3. Expiry(m) >= Unix(Local(m.from, m.at) + LeaseDuration)
      BY <2>1, UnixNat, SkewAssumption, DurationAssumption DEF Expiry, Local
    <3>4. ASSUME NEW a \in Attempt PROVE ~Active(a)'
      BY <2>2, <3>1, <3>2
    <3>5. ASSUME NEW a \in Attempt, state'[a] \in {"acquiring", "renewing"},
                 reply'[a] = "ok"
          PROVE  Protected(a, sent[a])'
      <4>1. a = m.from /\ Outstanding(m)
        BY <2>2, <3>1, <3>2, <3>5
      <4>2. sent'[a] = m.at
        BY <3>2, <4>1 DEF Outstanding
      <4> QED
        BY <3>1, <3>3, <4>1, <4>2 DEF Protected
    <3> QED
      BY <3>4, <3>5
  <2>4. CASE ApplyRenew(m)
    <3>1. ASSUME NEW a \in Attempt, a # m.from,
                 \/ Active(a)
                 \/ state[a] \in {"acquiring", "renewing"} /\ reply[a] = "ok"
          PROVE  FALSE
      BY <3>1, <2>4 DEF ApplyRenew, RenewCondition, Protected
    <3>2. item'.owner = m.from /\ item'.expires = Expiry(m)
      BY <2>4 DEF ApplyRenew, RenewCondition, TypeOK
    <3>3. state[m.from] = "renewing" =>
            m.at = sent[m.from] /\ confirmed[m.from] <= m.at
      BY <2>1, <2>4 DEF ApplyRenew, NetInv, TimeInv
    <3>4. state[m.from] \notin {"acquiring", "holding"}
      BY <2>4 DEF ApplyRenew, NetInv
    <3>5. ASSUME state[m.from] = "renewing"
          PROVE  /\ Expiry(m) >= Unix(Local(m.from, sent[m.from]) + LeaseDuration)
                 /\ Expiry(m) >= Unix(Local(m.from, confirmed[m.from]) + LeaseDuration)
      <4>1. /\ confirmed[m.from] \in Nat /\ Skew[m.from] \in Nat
            /\ LeaseDuration \in Nat
        BY <2>1, SkewAssumption, DurationAssumption DEF TypeOK
      <4>2. Local(m.from, confirmed[m.from]) + LeaseDuration
              <= Local(m.from, m.at) + LeaseDuration
        BY <2>1, <3>3, <3>5, <4>1 DEF Local
      <4>3. Unix(Local(m.from, confirmed[m.from]) + LeaseDuration)
              <= Unix(Local(m.from, m.at) + LeaseDuration)
        BY <2>1, <4>1, <4>2, UnixMono DEF Local
      <4>4. /\ Unix(Local(m.from, confirmed[m.from]) + LeaseDuration) \in Nat
            /\ Unix(Local(m.from, m.at) + LeaseDuration) \in Nat
        BY <2>1, <4>1, UnixNat DEF Local
      <4> QED
        BY <3>3, <3>5, <4>3, <4>4 DEF Expiry
    <3>6. UNCHANGED <<state, sent, confirmed>>
          /\ \A a \in Attempt : a # m.from => reply'[a] = reply[a]
      BY <2>4, <2>1 DEF ApplyRenew, Reply, TypeOK
    <3> QED
      BY <3>1, <3>2, <3>4, <3>5, <3>6, <2>1 DEF Protected
  <2>5. CASE ApplyRelease(m)
    BY <2>1, <2>5, OwnerAssumption
       DEF ApplyRelease, ReleaseCondition, NetInv, Reply, Outstanding,
           Protected, TypeOK
  <2>6. CASE ApplyRefused(m)
    BY <2>1, <2>6 DEF ApplyRefused, Reply, Protected, TypeOK
  <2> QED
    BY <1>4, <2>3, <2>4, <2>5, <2>6 DEF Serve
<1>5. CASE Tick
  BY <1>5 DEF Tick, Protected
<1>6. CASE UNCHANGED leaseVars
  BY <1>6 DEF leaseVars, Protected
<1> QED
  BY <1>1, <1>2, <1>3, <1>4, <1>5, <1>6 DEF Next, Step

\* With Timely durations at most one attempt fills with a live context.
THEOREM LeaseExclusion == Timely => (Spec => []OneHolder)
<1> SUFFICES ASSUME Timely PROVE Spec => []OneHolder
  OBVIOUS
<1> DEFINE Inv == NetInv /\ TimeInv /\ HoldInv
<1>1. Init => Inv
  BY DurationAssumption, PeriodPositive
     DEF Init, NetInv, TimeInv, HoldInv, Active, Due
<1>2. TypeOK /\ TickInv /\ Inv /\ [Next]_leaseVars => Inv'
  BY NetStep, TimeStep, HoldStep
<1>3. Inv => OneHolder
  BY DEF HoldInv, Protected, OneHolder
<1> QED
  BY <1>1, <1>2, <1>3, TypeCorrect, PTL DEF Spec

=============================================================================
