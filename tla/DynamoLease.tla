---------------------------- MODULE DynamoLease ----------------------------
(***************************************************************************)
(* The artifact-fill lease in real time: coordination/dynamodb.go driven   *)
(* by keepLease (proxy/fill.go).                                           *)
(*                                                                         *)
(* An attempt is one TryAcquire with its fresh random owner token and,     *)
(* when it succeeds, the fill, the renewals and the release that follow.   *)
(* Calls travel as messages: each carries the caller's clock reading, may  *)
(* be applied late, be retried by the client library while its caller      *)
(* waits, be applied after the caller gave up, or never (it is lost).      *)
(*                                                                         *)
(* The clock counts small ticks, Second of them to a second: the table     *)
(* stores whole seconds (time.Time.Unix), so durations are cut off.        *)
(***************************************************************************)
EXTENDS Integers

CONSTANTS
  Attempt,        \* TryAcquire calls, each with a token of its own
  Skew,           \* how far the clock of each attempt's replica is ahead
  Second,         \* clock ticks per second
  LeaseDuration,  \* coordination.lease_duration in ticks
  PollInterval,   \* coordination.poll_interval in ticks, Renew's timeout
  AnswerDelay,    \* environment: TryAcquire is answered within this time
  MaxSkew,        \* bound on Skew
  MaxTime,        \* bound: the clock stops there
  NoOwner         \* the item does not exist

\* What config.Validate requires of lease_duration and poll_interval.
ValidDurations ==
  /\ LeaseDuration >= 3 * Second
  /\ PollInterval > 0 /\ PollInterval < LeaseDuration

ASSUME DurationAssumption ==
  /\ Second \in Nat \ {0}
  /\ LeaseDuration \in Nat /\ PollInterval \in Nat /\ AnswerDelay \in Nat
  /\ MaxTime \in Nat
  /\ ValidDurations
ASSUME SkewAssumption ==
  MaxSkew \in Nat /\ Skew \in [Attempt -> 0 .. MaxSkew]
ASSUME OwnerAssumption == NoOwner \notin Attempt

VARIABLES
  now,        \* real time
  item,       \* the lease item: owner and expires_at
  state,      \* what each attempt is doing
  sent,       \* real time at which its outstanding call was built
  reply,      \* what the table answered to its outstanding call
  nextTick,   \* when keepLease's ticker fires next
  confirmed,  \* history: sent of its last call that was answered with success
  net         \* calls on their way to the table

leaseVars == <<now, item, state, sent, reply, nextTick, confirmed, net>>

State == {"idle", "acquiring", "holding", "renewing", "lost", "ended"}

\* The attempts whose fill goes on with an uncancelled context.
Active(a) == state[a] \in {"holding", "renewing"}

Unix(t) == t \div Second
Local(a, t) == t + Skew[a]

\* Mutant of RenewPeriod: renewals wait for the whole lease duration.
RenewPeriodFull == LeaseDuration

\* time.NewTicker(LeaseDuration / 3)
RenewPeriod == LeaseDuration \div 3

Call == [kind : {"acquire", "renew", "release"}, from : Attempt, at : Nat]

Init ==
  /\ now = 0
  /\ item = [owner |-> NoOwner, expires |-> 0]
  /\ state = [a \in Attempt |-> "idle"]
  /\ sent = [a \in Attempt |-> 0]
  /\ reply = [a \in Attempt |-> "none"]
  /\ nextTick = [a \in Attempt |-> 0]
  /\ confirmed = [a \in Attempt |-> 0]
  /\ net = {}

Goto(a, from, to) == state[a] = from /\ state' = [state EXCEPT ![a] = to]

\* a builds a call now and sends it.
Send(a, kind) ==
  /\ sent' = [sent EXCEPT ![a] = now]
  /\ reply' = [reply EXCEPT ![a] = "none"]
  /\ net' = net \cup {[kind |-> kind, from |-> a, at |-> now]}

\* a takes the answer to its outstanding call; no retry is sent any more.
Answered(a, kind, answer) ==
  /\ reply[a] = answer
  /\ reply' = [reply EXCEPT ![a] = "none"]
  /\ net' = net \ {[kind |-> kind, from |-> a, at |-> sent[a]]}

-----------------------------------------------------------------------------
(* The attempt: TryAcquire, keepLease's loop, and the returned stop        *)
(* function.                                                               *)

TryAcquire(a) ==
  /\ Goto(a, "idle", "acquiring")
  /\ Send(a, "acquire")
  /\ UNCHANGED <<now, item, nextTick, confirmed>>

\* Acquired: keepLease starts its ticker.
Acquired(a) ==
  /\ Goto(a, "acquiring", "holding")
  /\ Answered(a, "acquire", "ok")
  /\ confirmed' = [confirmed EXCEPT ![a] = sent[a]]
  /\ nextTick' = [nextTick EXCEPT ![a] = now + RenewPeriod]
  /\ UNCHANGED <<now, item, sent>>

\* Not acquired; the request will poll and try again with another token.
Refused(a) ==
  /\ Goto(a, "acquiring", "ended")
  /\ Answered(a, "acquire", "refused")
  /\ UNCHANGED <<now, item, sent, nextTick, confirmed>>

\* The request's context ends or the call fails; the item may yet appear.
AcquireAbandoned(a) ==
  /\ Goto(a, "acquiring", "ended")
  /\ UNCHANGED <<now, item, sent, reply, nextTick, confirmed, net>>

\* case <-ticker.C: Renew with a timeout of PollInterval.
Renew(a) ==
  /\ nextTick[a] <= now
  /\ Goto(a, "holding", "renewing")
  /\ Send(a, "renew")
  /\ UNCHANGED <<now, item, nextTick, confirmed>>

\* The ticker keeps its phase; of the ticks missed meanwhile it keeps one.
NextTick(a) ==
  LET missed == (now - nextTick[a]) \div RenewPeriod
  IN  nextTick[a] + RenewPeriod * (IF missed > 1 THEN missed ELSE 1)

Renewed(a) ==
  /\ Goto(a, "renewing", "holding")
  /\ Answered(a, "renew", "ok")
  /\ confirmed' = [confirmed EXCEPT ![a] = sent[a]]
  /\ nextTick' = [nextTick EXCEPT ![a] = NextTick(a)]
  /\ UNCHANGED <<now, item, sent>>

\* Mutant of RenewFailed: the failure is logged and the loop goes on.
RenewFailedGoesOn(a) ==
  /\ Goto(a, "renewing", "holding")
  /\ nextTick' = [nextTick EXCEPT ![a] = NextTick(a)]
  /\ UNCHANGED <<now, item, sent, reply, confirmed, net>>

\* Renew fails, with ErrLeaseLost or another error and at the latest when
\* renewCtx times out: cancelFill, and leave the loop.  The call may still be
\* on its way.
RenewFailed(a) ==
  /\ Goto(a, "renewing", "lost")
  /\ UNCHANGED <<now, item, sent, reply, nextTick, confirmed, net>>

\* The fill is over: the keeper is stopped, a renewal under way abandoned,
\* and Release sent.  It carries no clock reading, and whatever comes of it
\* (success, ErrLeaseLost, an error, its timeout) is at most logged.
ReleaseLease(a) ==
  /\ state[a] \in {"holding", "renewing", "lost"}
  /\ state' = [state EXCEPT ![a] = "ended"]
  /\ net' = net \cup {[kind |-> "release", from |-> a, at |-> 0]}
  /\ UNCHANGED <<now, item, sent, reply, nextTick, confirmed>>

-----------------------------------------------------------------------------
(* The table.  UpdateItem and DeleteItem are atomic; each evaluates its    *)
(* ConditionExpression with the clock reading the caller put into it.      *)

AcquireCondition(m) ==
  item.owner = NoOwner \/ item.expires <= Unix(Local(m.from, m.at))

RenewCondition(m) ==
  item.owner = m.from /\ item.expires >= Unix(Local(m.from, m.at))

ReleaseCondition(m) == item.owner = m.from

Expiry(m) == Unix(Local(m.from, m.at) + LeaseDuration)

\* Whether m's caller still waits for it, so that the library may retry it.
Outstanding(m) ==
  /\ sent[m.from] = m.at
  /\ \/ m.kind = "acquire" /\ state[m.from] = "acquiring"
     \/ m.kind = "renew" /\ state[m.from] = "renewing"

\* The answer reaches a caller that still waits; the message is used up
\* unless the library may send it again.
Reply(m, answer) ==
  /\ reply' = IF Outstanding(m) THEN [reply EXCEPT ![m.from] = answer]
                                ELSE reply
  /\ net' \in {net \ {m}} \cup (IF Outstanding(m) THEN {net} ELSE {})
  /\ UNCHANGED <<now, state, sent, nextTick, confirmed>>

ApplyAcquire(m) ==
  /\ m.kind = "acquire" /\ AcquireCondition(m)
  /\ item' = [owner |-> m.from, expires |-> Expiry(m)]
  /\ Reply(m, "ok")

ApplyRenew(m) ==
  /\ m.kind = "renew" /\ RenewCondition(m)
  /\ item' = [item EXCEPT !.expires = Expiry(m)]
  /\ Reply(m, "ok")

\* Mutant of ApplyRelease: the owner is blanked, the item stays.
ApplyReleaseBlanks(m) ==
  /\ m.kind = "release" /\ ReleaseCondition(m)
  /\ item' = [item EXCEPT !.owner = ""]
  /\ Reply(m, "ok")

ApplyRelease(m) ==
  /\ m.kind = "release" /\ ReleaseCondition(m)
  /\ item' = [item EXCEPT !.owner = NoOwner]
  /\ Reply(m, "ok")

\* ConditionalCheckFailedException
ApplyRefused(m) ==
  /\ \/ m.kind = "acquire" /\ ~AcquireCondition(m)
     \/ m.kind = "renew" /\ ~RenewCondition(m)
     \/ m.kind = "release" /\ ~ReleaseCondition(m)
  /\ Reply(m, "refused")
  /\ UNCHANGED item

-----------------------------------------------------------------------------
(* Time.  keepLease runs when its ticker fires, renewCtx fires on time,    *)
(* and TryAcquire, which has no timeout of its own, is answered within     *)
(* AnswerDelay.                                                            *)

Tick ==
  /\ now < MaxTime
  /\ \A a \in Attempt :
       /\ state[a] = "acquiring" => now < sent[a] + AnswerDelay
       /\ state[a] = "holding" => now < nextTick[a]
       /\ state[a] = "renewing" => now < sent[a] + PollInterval
  /\ now' = now + 1
  /\ UNCHANGED <<item, state, sent, reply, nextTick, confirmed, net>>

Step(a) ==
  \/ TryAcquire(a) \/ Acquired(a) \/ Refused(a) \/ AcquireAbandoned(a)
  \/ Renew(a) \/ Renewed(a) \/ RenewFailed(a) \/ ReleaseLease(a)

Serve(m) ==
  ApplyAcquire(m) \/ ApplyRenew(m) \/ ApplyRelease(m) \/ ApplyRefused(m)

Next ==
  \/ \E a \in Attempt : Step(a)
  \/ \E m \in net : Serve(m)
  \/ Tick

Spec == Init /\ [][Next]_leaseVars

-----------------------------------------------------------------------------
(* Properties.                                                             *)

\* Type invariant of the table, the attempts and the calls under way.
TypeOK ==
  /\ now \in Nat
  /\ item \in [owner : Attempt \cup {NoOwner}, expires : Nat]
  /\ state \in [Attempt -> State]
  /\ sent \in [Attempt -> Nat]
  /\ reply \in [Attempt -> {"none", "ok", "refused"}]
  /\ nextTick \in [Attempt -> Nat]
  /\ confirmed \in [Attempt -> Nat]
  /\ net \subseteq Call

\* The configurations in which an unanswered holder notices before anybody
\* else can take its lease over: from the clock reading of its last
\* confirmed call, the next renewal is built at the latest after the ticker's
\* period (counted from the answer) or the previous renewal's timeout, and it
\* fails one PollInterval later; the stored expiry is cut to whole seconds and
\* read with another replica's clock.
Timely ==
  /\ AnswerDelay + RenewPeriod + PollInterval + MaxSkew + Second <= LeaseDuration
  /\ 2 * PollInterval + MaxSkew + Second <= LeaseDuration

\* At most one attempt goes on filling: a replica that takes the lease over
\* finds every earlier holder's fill cancelled or over.
OneHolder ==
  \A a, b \in Attempt : Active(a) /\ Active(b) => a = b

=============================================================================
