------------------------ MODULE CachedEntry_proofs ------------------------
(***************************************************************************)
(* What CachedEntry serves from the cache is intact, may be replayed, is   *)
(* fresh and says how old it is: for any writers and readers, origins,     *)
(* lifetimes and length of a second.                                       *)
(***************************************************************************)
EXTENDS CachedEntry, Arithmetic_proofs

-----------------------------------------------------------------------------
(* The inductive invariant.  Its parts take the state as arguments, so     *)
(* that a step that leaves something alone leaves its part alone.          *)

Slack(dated) == IF dated THEN 0 ELSE Second

\* The redirects followed under policy pol.
ChaseOK(c, pol) ==
  /\ "selective" \in c.picked => c.uncacheable
  /\ c.via = 0 => c.seen = {} /\ c.picked = {}
  /\ pol.enforce => c.seen \subseteq pol.allowed

\* The Age of a response, with its Date, does not make it too old.
RespYoung(r) ==
  /\ r.head.born <= r.received
  /\ r.head.age * Second <=
       r.received - r.head.born + Overstated(r.head.dated, r.trip)

\* The Age of an entry, with its Date, does not make it too old.
EntryYoung(e) ==
  /\ e.born <= e.stored
  /\ e.age * Second <= e.stored - e.born + Overstated(e.dated, e.trip)
  /\ (IF e.dated THEN e.born ELSE e.stored) <= e.date + (Second - 1)

\* A response received by the time t on a route rt.
RespOK(r, rt, t) ==
  /\ r \in Response /\ r.private \subseteq {"overlooked"}
  /\ r.received <= t /\ RespYoung(r)
  /\ IF rt = "npm"
       THEN /\ r.expires > 0
            /\ r.expires <= r.head.born + r.head.life * Second
                              + Slack(r.head.dated)
            /\ ~r.head.dated =>
                 r.received - r.head.born <=
                   r.head.age * Second + 2 * (Second - 1)
       ELSE r.expires = 0

\* An entry for the key k, stored by the time t on a route rt.
EntryOK(e, k, rt, t) ==
  /\ e \in Entry /\ e.private \subseteq {"overlooked"}
  /\ e.seen \subseteq UNION k /\ EntryYoung(e)
  /\ e.stored <= t /\ e.stored < e.expires /\ e.expires <= e.stored + TTL
  /\ e.dated => e.date <= e.born
  /\ rt = "npm" =>
       /\ e.expires <= e.born + e.life * Second + Slack(e.dated)
       /\ ~e.dated =>
            e.stored - e.born <= e.age * Second + 3 * (Second - 1)

FillOK(w) ==
  /\ asked[w] <= now /\ ChaseOK(chase[w], policy)
  /\ wpc[w] = "body" => /\ RespOK(resp[w], route, now)
                        /\ chase[w].seen \subseteq UNION CacheKey
  /\ wpc[w] \in {"put", "written", "synced"} =>
       EntryOK(temp[w], CacheKey, route, now)
  /\ wpc[w] = "synced" => temp[w].synced /\ temp[w].content = "whole"

FillInv == \A w \in Writer : FillOK(w)

\* What the store has under the key k.
HasOK(e, k, rt, t) ==
  e # NoEntry => EntryOK(e, k, rt, t) /\ e.synced /\ e.content # "partial"

StoreInv ==
  \A k \in Key :
    HasOK(file[k], k, route, now) /\ HasOK(durable[k], k, route, now)

ReadInv ==
  \A r \in Reader :
    /\ rpc[r] # "idle" => EntryOK(staged[r], CacheKey, route, now)
    /\ rpc[r] \in {"staged", "served"} => staged[r].content = "whole"

Inv == TypeOK /\ FillInv /\ StoreInv /\ ReadInv

-----------------------------------------------------------------------------
(* Seconds, ages and dates.                                                *)

\* Whole seconds cut off less than one.
LEMMA SecondsFacts ==
  ASSUME NEW t \in Nat
  PROVE  /\ Seconds(t) \in Nat /\ Seconds(t) * Second \in Nat
         /\ Seconds(t) * Second <= t
         /\ t <= Seconds(t) * Second + (Second - 1)
<1> DEFINE n == t \div Second
           p == Second * n
<1>1. Second \in Nat \ {0}
  BY EntryAssumption
<1>2. n \in Nat /\ p <= t /\ t < p + Second
  BY <1>1, DivFacts
<1> HIDE DEF n
<1>3. p \in Nat /\ n * Second = p
  BY <1>1, <1>2, TimesComm
<1> HIDE DEF p
<1>4. n * Second \in Nat /\ n * Second <= t /\ t <= n * Second + (Second - 1)
  BY <1>1, <1>2, <1>3
<1> QED
  BY <1>2, <1>4 DEF Seconds, n

\* A Date is not after the time it stands for, and less than a second before.
LEMMA TruncatedFacts ==
  ASSUME NEW t \in Nat
  PROVE  /\ Truncated(t) \in Nat /\ Truncated(t) <= t
         /\ t <= Truncated(t) + (Second - 1)
  BY SecondsFacts DEF Truncated

\* What an Age may be too large by.
LEMMA OverstatedFacts ==
  ASSUME NEW dated \in BOOLEAN, NEW trip \in Nat
  PROVE  /\ Overstated(dated, trip) \in Nat /\ trip <= Overstated(dated, trip)
         /\ dated => Second - 1 <= Overstated(dated, trip)
<1> DEFINE c == IF dated THEN Second - 1 ELSE 0
<1>1. c \in Nat /\ (dated => c = Second - 1)
  BY EntryAssumption
<1>2. Overstated(dated, trip) = Max({trip, c})
  BY DEF Overstated
<1> HIDE DEF c
<1>3. /\ Max({trip, c}) \in {trip, c}
      /\ Max({trip, c}) >= trip /\ Max({trip, c}) >= c
  BY <1>1, MaxPair
<1> QED
  BY <1>1, <1>2, <1>3

\* agedHeaders: the Age shown at the time at counts the Age stored at base and
\* the time since the Date, but for what the conversions cut off.
LEMMA AgedFacts ==
  ASSUME NEW age \in Nat, NEW date \in Nat, NEW base \in Nat, NEW at \in Nat
  PROVE  LET shownAge == aged(age, date, base, at)
         IN /\ shownAge \in Nat
            /\ age * Second + (at - base) <= shownAge * Second + (Second - 1)
            /\ at - date <= shownAge * Second + 2 * (Second - 1)
<1> DEFINE d == base - date
           r == at - base
           x == Seconds(d)
           y == Seconds(r)
           m == Max({age} \cup (IF base > date THEN {x} ELSE {}))
           s == IF at > base THEN y ELSE 0
<1>1. Second \in Nat \ {0} /\ d \in Int /\ r \in Int
  BY EntryAssumption
<1>2. base > date => /\ x \in Nat /\ x * Second \in Nat
                     /\ d <= x * Second + (Second - 1)
  BY SecondsFacts
<1>3. at > base => /\ y \in Nat /\ y * Second \in Nat
                   /\ r <= y * Second + (Second - 1)
  BY SecondsFacts
<1>4. aged(age, date, base, at) = m + s
  BY DEF aged
<1>5. m \in Nat /\ m >= age /\ (base > date => m >= x)
  <2>1. CASE base > date
    <3> HIDE DEF x
    <3>1. {age} \cup (IF base > date THEN {x} ELSE {}) = {age, x}
      BY <2>1
    <3>2. /\ Max({age, x}) \in {age, x}
          /\ Max({age, x}) >= age /\ Max({age, x}) >= x
      BY <1>2, <2>1, MaxPair
    <3> QED
      BY <1>2, <2>1, <3>1, <3>2
  <2>2. CASE ~(base > date)
    <3>1. {age} \cup (IF base > date THEN {x} ELSE {}) = {age}
      BY <2>2
    <3> QED
      BY <2>2, <3>1, ExtremaOfOne
  <2> QED
    BY <2>1, <2>2
<1>6. /\ s \in Nat /\ s * Second \in Nat
      /\ r <= s * Second + (IF at > base THEN Second - 1 ELSE 0)
  <2>1. CASE at > base
    BY <1>3, <2>1
  <2>2. CASE ~(at > base)
    <3>1. s = 0 /\ s * Second = 0 /\ r <= 0
      BY <1>1, <2>2
    <3> QED
      BY <2>2, <3>1
  <2> QED
    BY <2>1, <2>2
<1> HIDE DEF m, s, x, y
<1>7. /\ m * Second \in Nat /\ age * Second \in Nat
      /\ age * Second <= m * Second
      /\ base > date => x * Second <= m * Second
  BY <1>1, <1>2, <1>5, TimesMono, TimesComm
<1>8. (m + s) * Second = m * Second + s * Second /\ m + s \in Nat
  BY <1>1, <1>5, <1>6, TimesSum
<1> DEFINE mS == m * Second
           sS == s * Second
           xS == x * Second
           aS == age * Second
<1>9. /\ aS + r <= mS + sS + (Second - 1)
      /\ d + r <= mS + sS + 2 * (Second - 1)
  <2>1. /\ mS \in Nat /\ sS \in Nat /\ aS \in Nat /\ aS <= mS
        /\ base > date => xS \in Nat /\ xS <= mS /\ d <= xS + (Second - 1)
        /\ r <= sS + (Second - 1)
    BY <1>1, <1>2, <1>6, <1>7
  <2> HIDE DEF mS, sS, xS, aS
  <2>2. d <= mS + (Second - 1)
    BY <1>1, <2>1 
  <2> QED
    BY <1>1, <2>1, <2>2
<1>10. d + r = at - date
  OBVIOUS
<1> QED
  BY <1>4, <1>8, <1>9, <1>10

\* agedHeaders: when neither the Age stored at base nor the time since the Date
\* is more than b, the Age shown is at most that and the time since base.
LEMMA AgedAtMost ==
  ASSUME NEW age \in Nat, NEW date \in Nat, NEW base \in Nat, NEW at \in Nat,
         base <= at, NEW b \in Int, age * Second <= b,
         base > date => Seconds(base - date) * Second <= b
  PROVE  aged(age, date, base, at) * Second <= b + (at - base)
<1> DEFINE d == base - date
           r == at - base
           x == Seconds(d)
           y == Seconds(r)
           m == Max({age} \cup (IF base > date THEN {x} ELSE {}))
           s == IF at > base THEN y ELSE 0
<1>1. Second \in Nat \ {0} /\ r \in Nat /\ (base > date => d \in Nat)
  BY EntryAssumption
<1>2. base > date => x \in Nat
  BY <1>1, SecondsFacts
<1>3. y \in Nat /\ y * Second \in Nat /\ y * Second <= r
  BY <1>1, SecondsFacts
<1>4. aged(age, date, base, at) = m + s
  BY DEF aged
<1>5. m \in Nat /\ m * Second <= b
  <2>1. CASE base > date
    <3>1. x * Second <= b
      BY <2>1
    <3> HIDE DEF x
    <3>2. {age} \cup (IF base > date THEN {x} ELSE {}) = {age, x}
      BY <2>1
    <3>3. x \in Nat
      BY <1>2, <2>1
    <3>4. /\ Max({age, x}) \in {age, x}
          /\ Max({age, x}) >= age /\ Max({age, x}) >= x
      BY <3>3, MaxPair
    <3> QED
      BY <3>1, <3>2, <3>3, <3>4
  <2>2. CASE ~(base > date)
    <3>1. {age} \cup (IF base > date THEN {x} ELSE {}) = {age}
      BY <2>2
    <3> QED
      BY <2>2, <3>1, ExtremaOfOne
  <2> QED
    BY <2>1, <2>2
<1>6. s \in Nat /\ s * Second \in Nat /\ s * Second <= r
  <2>1. CASE at > base
    BY <1>3, <2>1
  <2>2. CASE ~(at > base)
    <3>1. s = 0 /\ s * Second = 0
      BY <1>1, <2>2
    <3> QED
      BY <1>1, <3>1
  <2> QED
    BY <2>1, <2>2
<1> HIDE DEF m, s, x, y
<1>7. m * Second \in Nat
  BY <1>1, <1>5, TimesComm
<1>8. (m + s) * Second = m * Second + s * Second
  BY <1>1, <1>5, <1>6, TimesSum
<1> DEFINE mS == m * Second
           sS == s * Second
<1>9. mS \in Nat /\ sS \in Nat /\ mS <= b /\ sS <= r
  BY <1>5, <1>6, <1>7
<1> HIDE DEF mS, sS, r
<1>10. mS + sS <= b + r
  BY <1>9, <1>1
<1> QED
  BY <1>4, <1>8, <1>10 DEF mS, sS, r

\* The shape of the headers an upstream sends.
LEMMA HeaderShape ==
  ASSUME now \in Nat, NEW req \in Nat, req <= now, NEW h \in Headers(req)
  PROVE  /\ h \in [born : Nat, dated : BOOLEAN, age : Nat, life : Lifetime]
         /\ h.born <= now /\ h.age * Second <= now - h.born
         /\ ~h.dated => req - h.born <= h.age * Second + (Second - 1)
<1>1. Second \in Nat \ {0}
  BY EntryAssumption
<1>2. CASE h \in [born : 0 .. req, dated : {TRUE}, life : Lifetime, age : {0}]
  <2>1. PICK b \in 0 .. req, l \in Lifetime :
          h = [born |-> b, dated |-> TRUE, life |-> l, age |-> 0]
    BY <1>2
  <2>2. h.age * Second = 0
    BY <1>1, <2>1
  <2> QED
    BY <2>1, <2>2
<1>3. ASSUME NEW born \in 0 .. now,
             h \in [born : {born}, dated : BOOLEAN, life : Lifetime,
                    age : IF born < req
                            THEN {Seconds(sent - born) : sent \in req .. now}
                            ELSE {0}]
      PROVE  /\ h \in [born : Nat, dated : BOOLEAN, age : Nat, life : Lifetime]
             /\ h.born <= now /\ h.age * Second <= now - h.born
             /\ req - h.born <= h.age * Second + (Second - 1)
  <2>1. CASE born < req
    <3>1. PICK sent \in req .. now : h.age = Seconds(sent - born)
      BY <1>3, <2>1
    <3> DEFINE t == sent - born
    <3>2. t \in Nat /\ req - born <= t /\ t <= now - born
      BY <2>1
    <3> HIDE DEF t
    <3> DEFINE g == h.age * Second
    <3>3. h.age \in Nat /\ g \in Nat /\ g <= t /\ t <= g + (Second - 1)
      BY <3>1, <3>2, SecondsFacts DEF t
    <3> HIDE DEF g
    <3>4. req - born <= g + (Second - 1) /\ g <= now - born
      BY <1>1, <3>2, <3>3
    <3> QED
      BY <1>3, <2>1, <3>3, <3>4 DEF g
  <2>2. CASE ~(born < req)
    <3>1. h.age = 0 /\ h.born = born
      BY <1>3, <2>2
    <3>2. h.age * Second = 0
      BY <1>1, <3>1
    <3> QED
      BY <1>1, <1>3, <2>2, <3>1, <3>2
  <2> QED
    BY <2>1, <2>2
<1> DEFINE Sent(born) ==
             [born : {born}, dated : BOOLEAN, life : Lifetime,
              age : IF born < req
                      THEN {Seconds(sent - born) : sent \in req .. now}
                      ELSE {0}]
           Late == [born : 0 .. req, dated : {TRUE}, life : Lifetime, age : {0}]
<1>4. Headers(req) = (UNION {Sent(born) : born \in 0 .. now}) \cup Late
  BY DEF Headers
<1>5. ASSUME NEW born \in 0 .. now, h \in Sent(born)
      PROVE  /\ h \in [born : Nat, dated : BOOLEAN, age : Nat, life : Lifetime]
             /\ h.born <= now /\ h.age * Second <= now - h.born
             /\ req - h.born <= h.age * Second + (Second - 1)
  BY <1>3, <1>5
<1>6. h \in Late \/ \E born \in 0 .. now : h \in Sent(born)
  <2> HIDE DEF Late, Sent
  <2> QED
    BY <1>4
<1> HIDE DEF Sent
<1> QED
  BY <1>2, <1>5, <1>6

\* npmAge: the age on arrival is not less than the response's, but for a
\* fraction of a second when it has no Date, and not more than it may be.
LEMMA ArrivalAge ==
  ASSUME now \in Nat, NEW req \in Nat, req <= now, NEW h \in Headers(req)
  PROVE  /\ npmAge(h, req) \in Nat
         /\ now - h.born <= npmAge(h, req) + (IF h.dated THEN 0 ELSE Second - 1)
         /\ npmAge(h, req) <= now - h.born + Overstated(h.dated, now - req)
<1> DEFINE g == h.age * Second
           o == Overstated(h.dated, now - req)
           a == g + (now - req)
           b == now - Truncated(h.born)
           age == npmAge(h, req)
<1>1. /\ Second \in Nat \ {0} /\ h.born \in Nat /\ h.age \in Nat
      /\ h.dated \in BOOLEAN /\ h.born <= now
      /\ ~h.dated => req - h.born <= g + (Second - 1)
      /\ g <= now - h.born
  BY EntryAssumption, HeaderShape
<1>2. g \in Nat
  BY <1>1, TimesComm
<1>3. o \in Nat /\ now - req <= o /\ (h.dated => Second - 1 <= o)
  BY <1>1, OverstatedFacts
<1> HIDE DEF o
<1>4. b \in Nat /\ now - h.born <= b /\ (h.dated => b <= now - h.born + o)
  BY <1>1, <1>3, TruncatedFacts
<1>5. /\ a \in Nat /\ (~h.dated => now - h.born <= a + (Second - 1))
      /\ a <= now - h.born + o
  <2> HIDE DEF g
  <2> QED
    BY <1>1, <1>2, <1>3
<1>6. age = Max({a} \cup (IF h.dated THEN {b} ELSE {}))
  BY DEF npmAge
<1> HIDE DEF a, b, age
<1>7. CASE h.dated
  <2>1. age = Max({a, b})
    BY <1>6, <1>7
  <2>2. a \in Nat /\ b \in Nat
    BY <1>4, <1>5
  <2>3. /\ Max({a, b}) \in {a, b}
        /\ Max({a, b}) >= a /\ Max({a, b}) >= b
    BY <2>2, MaxPair
  <2>4. age \in {a, b} /\ age >= b
    BY <2>1, <2>3
  <2> HIDE DEF age
  <2>5. age \in Nat /\ age >= b /\ age <= now - h.born + o
    BY <1>1, <1>4, <1>5, <1>7, <1>3, <2>4
  <2>6. now - h.born <= age + (IF h.dated THEN 0 ELSE Second - 1)
    BY <1>1, <1>4, <1>7, <2>5
  <2> QED
    BY <2>5, <2>6 DEF age, o
<1>8. CASE ~h.dated
  <2>1. age = Max({a})
    BY <1>6, <1>8
  <2>2. age = a
    BY <1>5, <2>1, ExtremaOfOne
  <2> QED
    BY <1>5, <1>8, <2>2 DEF age, o
<1> QED
  BY <1>7, <1>8, <1>1

-----------------------------------------------------------------------------
(* What may be stored, and as what.                                        *)

\* The key names the origins that the policy trusts.
LEMMA KeyTrusts ==
  ASSUME policy \in Policy
  PROVE  /\ CacheKey \in Key
         /\ UNION CacheKey = IF policy.enforce THEN policy.allowed ELSE {}
<1>1. CASE policy.enforce
  <2>1. CacheKey = {policy.allowed} /\ policy.allowed \subseteq Origin
    BY <1>1 DEF CacheKey, redirectPolicyFingerprint, Policy
  <2> QED
    BY <1>1, <2>1 DEF Key
<1>2. CASE ~policy.enforce
  BY <1>2 DEF CacheKey, redirectPolicyFingerprint, Key
<1> QED
  BY <1>1, <1>2

\* A response that may be stored is nobody's own, as far as can be seen, and
\* came by way of origins that its key names.
LEMMA StorableClean ==
  ASSUME policy \in Policy, NEW w \in Writer, chase[w] \in Chase,
         ChaseOK(chase[w], policy), NEW unfit, NEW cookie \in Cookie,
         NEW control \in Control, Storable(w, unfit, cookie, control)
  PROVE  /\ Private(w, cookie, control) \subseteq {"overlooked"}
         /\ chase[w].seen \subseteq UNION CacheKey
<1>1. /\ cookie \in {"none", "cdn"} /\ control # "private"
      /\ redirected(chase[w]) => cacheableRedirect(policy, chase[w])
  BY DEF Storable, npmFresh, validCDNCookies, responseBypassReason,
         DisablesCaching, Cookie, Control
<1>2. /\ chase[w].picked \subseteq {"overlooked"}
      /\ ~policy.enforce => chase[w].seen = {}
  BY <1>1 DEF redirected, cacheableRedirect, ChaseOK, Chase, Hop
<1>3. Private(w, cookie, control) \subseteq {"overlooked"}
  BY <1>1, <1>2 DEF Private
<1> QED
  BY <1>2, <1>3, KeyTrusts DEF ChaseOK

\* Time passes: what has been stored or received stays so.
LEMMA Later ==
  ASSUME NEW e, NEW r, NEW k, NEW rt, NEW t \in Nat, NEW u \in Nat, t <= u
  PROVE  /\ EntryOK(e, k, rt, t) => EntryOK(e, k, rt, u)
         /\ RespOK(r, rt, t) => RespOK(r, rt, u)
         /\ HasOK(e, k, rt, t) => HasOK(e, k, rt, u)
<1>1. EntryOK(e, k, rt, t) => EntryOK(e, k, rt, u)
  <2> SUFFICES ASSUME EntryOK(e, k, rt, t) PROVE EntryOK(e, k, rt, u)
    OBVIOUS
  <2>1. e.stored \in Nat /\ e.stored <= t
    BY DEF EntryOK, Entry
  <2>2. e.stored <= u
    BY <2>1
  <2> QED
    BY <2>2, Zenon DEF EntryOK
<1>2. RespOK(r, rt, t) => RespOK(r, rt, u)
  <2> SUFFICES ASSUME RespOK(r, rt, t) PROVE RespOK(r, rt, u)
    OBVIOUS
  <2>1. r.received \in Nat /\ r.received <= t
    BY DEF RespOK, Response
  <2>2. r.received <= u
    BY <2>1
  <2> QED
    BY <2>2, Zenon DEF RespOK
<1> QED
  BY <1>1, <1>2 DEF HasOK

\* Receive: the response is as RespOK says.
LEMMA ReceiveOK ==
  ASSUME TypeOK, FillInv, NEW w \in Writer, Receive(w)
  PROVE  /\ RespOK(resp'[w], route, now)
         /\ resp' = [resp EXCEPT ![w] = resp'[w]]
         /\ chase[w].seen \subseteq UNION CacheKey
<1>1. PICK unfit \in BOOLEAN, cookie \in Cookie, control \in Control,
           h \in Headers(asked[w]) :
        /\ Storable(w, unfit, cookie, control)
        /\ LET age == npmAge(h, asked[w])
               private == Private(w, cookie, control)
           IN IF route = "npm"
                THEN /\ age < h.life * Second
                     /\ resp' = [resp EXCEPT ![w] =
                          [received |-> now, trip |-> now - asked[w],
                           private |-> private,
                           expires |-> now + h.life * Second - age,
                           head |-> [h EXCEPT !.age = Seconds(age)]]]
                ELSE resp' = [resp EXCEPT ![w] =
                       [received |-> now, trip |-> 0, private |-> private,
                        expires |-> 0, head |-> h]]
  BY DEF Receive
<1> DEFINE private == Private(w, cookie, control)
           age == npmAge(h, asked[w])
           trip == now - asked[w]
           o == Overstated(h.dated, trip)
           life == h.life * Second
           g == Seconds(age)
           gS == g * Second
<1>2. /\ now \in Nat /\ asked[w] \in Nat /\ asked[w] <= now
      /\ Second \in Nat \ {0} /\ Lifetime \subseteq Nat
      /\ policy \in Policy /\ chase[w] \in Chase /\ ChaseOK(chase[w], policy)
  BY EntryAssumption DEF TypeOK, FillInv, FillOK
<1>3. /\ private \subseteq {"overlooked"} /\ private \in SUBSET Sign
      /\ chase[w].seen \subseteq UNION CacheKey
  BY <1>1, <1>2, StorableClean DEF Sign, Hop
<1>4. /\ h \in [born : Nat, dated : BOOLEAN, age : Nat, life : Lifetime]
      /\ age \in Nat
      /\ now - h.born <= age + (IF h.dated THEN 0 ELSE Second - 1)
      /\ h.born <= now /\ h.age * Second <= now - h.born
      /\ age <= now - h.born + o
  BY <1>2, HeaderShape, ArrivalAge
<1>5. trip \in Nat /\ o \in Nat
  BY <1>2, <1>4, OverstatedFacts
<1>6. life \in Nat
  BY <1>2, <1>4, TimesComm
<1> HIDE DEF private, age, trip, o
<1>7. g \in Nat /\ gS \in Nat /\ gS <= age /\ age <= gS + (Second - 1)
  BY <1>4, SecondsFacts
<1>8. CASE route = "npm"
  <2> DEFINE expires == now + life - age
             head == [h EXCEPT !.age = g]
             r == [received |-> now, trip |-> trip, private |-> private,
                   expires |-> expires, head |-> head]
  <2>1. age < life /\ resp' = [resp EXCEPT ![w] = r]
    BY <1>1, <1>8 DEF private, age, trip
  <2> HIDE DEF life, g
  <2>2. /\ expires \in Nat /\ expires > 0
        /\ expires <= h.born + life + (IF h.dated THEN 0 ELSE Second)
    BY <1>2, <1>4, <1>6, <2>1
  <2>3. /\ head \in [born : Nat, dated : BOOLEAN, age : Nat, life : Lifetime]
        /\ head.born = h.born /\ head.dated = h.dated /\ head.life = h.life
        /\ head.age = g
    BY <1>4, <1>7
  <2>4. /\ ~h.dated => now - h.born <= gS + 2 * (Second - 1)
        /\ gS <= now - h.born + o
    <3> HIDE DEF gS
    <3> QED
      BY <1>2, <1>4, <1>7, <1>5
  <2> HIDE DEF expires, head
  <2>5. r \in Response /\ r.received <= now
    BY <1>2, <1>3, <1>5, <2>2, <2>3 DEF Response
  <2>6. RespYoung(r)
    BY <1>4, <2>3, <2>4 DEF RespYoung, o
  <2>7. RespOK(r, "npm", now)
    BY <1>3, <2>2, <2>3, <2>4, <2>5, <2>6 DEF RespOK, Slack, life
  <2>8. resp'[w] = r
    BY <2>1 DEF TypeOK
  <2> HIDE DEF r
  <2> QED
    BY <1>3, <1>8, <2>1, <2>7, <2>8
<1>9. CASE route # "npm"
  <2> DEFINE r == [received |-> now, trip |-> 0, private |-> private,
                   expires |-> 0, head |-> h]
             q == Overstated(h.dated, 0)
             hS == h.age * Second
  <2>1. resp' = [resp EXCEPT ![w] = r]
    BY <1>1, <1>9 DEF private
  <2>2. q \in Nat /\ hS \in Nat /\ hS <= now - h.born
    BY <1>2, <1>4, OverstatedFacts, TimesComm
  <2>3. RespYoung(r)
    <3> HIDE DEF q, hS
    <3>1. hS <= now - h.born + q
      BY <1>2, <1>4, <2>2
    <3> QED
      BY <1>4, <3>1 DEF RespYoung, q, hS
  <2>4. RespOK(r, route, now)
    BY <1>2, <1>3, <1>4, <1>9, <2>3 DEF RespOK, Response
  <2>5. resp'[w] = r
    BY <2>1 DEF TypeOK
  <2> HIDE DEF r
  <2> QED
    BY <1>3, <2>1, <2>4, <2>5
<1> QED
  BY <1>8, <1>9

\* StoredAge: what is stored as the Age of an npm response without a Date is
\* its age, but for three fractions of a second, and no Age is too large.
LEMMA StoredAgeOK ==
  ASSUME now \in Nat, NEW r, NEW rt, RespOK(r, rt, now)
  PROVE  /\ StoredAge(r) \in Nat
         /\ rt = "npm" /\ ~r.head.dated =>
              now - r.head.born <= StoredAge(r) * Second + 3 * (Second - 1)
         /\ StoredAge(r) * Second <=
              now - r.head.born + Overstated(r.head.dated, r.trip)
<1> DEFINE o == Overstated(r.head.dated, r.trip)
           b == r.received - r.head.born + o
<1>1. /\ Second \in Nat \ {0} /\ r.received \in Nat /\ r.head.age \in Nat
      /\ r.head.born \in Nat /\ r.head.dated \in BOOLEAN
      /\ r.trip \in Nat /\ r.received <= now
  BY EntryAssumption DEF RespOK, Response
<1>2. o \in Nat /\ (r.head.dated => Second - 1 <= o)
  BY <1>1, OverstatedFacts
<1>3. r.head.age * Second <= b /\ r.head.age * Second \in Nat
  BY <1>1, TimesComm DEF RespOK, RespYoung
<1> HIDE DEF o
<1>4. CASE r.expires = 0
  <2> DEFINE hS == r.head.age * Second
  <2>1. StoredAge(r) = r.head.age
    BY <1>4 DEF StoredAge
  <2>2. rt # "npm"
    BY <1>4 DEF RespOK
  <2>3. hS \in Nat /\ hS <= b
    BY <1>3
  <2> HIDE DEF hS
  <2>4. hS <= now - r.head.born + o
    BY <1>1, <1>2, <2>3
  <2> QED
    BY <1>1, <2>1, <2>2, <2>4 DEF o, hS
<1>5. CASE r.expires # 0
  <2> DEFINE date == IF r.head.dated THEN Truncated(r.head.born) ELSE r.received
             a == aged(r.head.age, date, r.received, now)
             aS == a * Second
             hS == r.head.age * Second
  <2>1. date \in Nat
    BY <1>1, TruncatedFacts
  <2>2. StoredAge(r) = a
    BY <1>5 DEF StoredAge
  <2>3. r.received > date => Seconds(r.received - date) * Second <= b
    <3> SUFFICES ASSUME r.received > date
                 PROVE  Seconds(r.received - date) * Second <= b
      OBVIOUS
    <3> DEFINE x == r.received - date
               xS == Seconds(x) * Second
    <3>1. x \in Nat /\ r.head.dated /\ date = Truncated(r.head.born)
      BY <1>1, <2>1
    <3>2. x <= b
      BY <1>1, <1>2, <3>1, TruncatedFacts
    <3> HIDE DEF x
    <3>3. xS \in Nat /\ xS <= x
      BY <3>1, SecondsFacts
    <3> HIDE DEF xS
    <3>4. xS <= b
      BY <1>1, <1>2, <3>1, <3>2, <3>3
    <3> QED
      BY <3>4 DEF xS, x
  <2> HIDE DEF date
  <2>4. aS <= b + (now - r.received)
    <3>1. b \in Int
      BY <1>1, <1>2
    <3> HIDE DEF b
    <3> QED
      BY <1>1, <1>3, <2>1, <2>3, <3>1, AgedAtMost
  <2>5. a \in Nat /\ hS + (now - r.received) <= aS + (Second - 1)
    BY <1>1, <2>1, AgedFacts
  <2>6. aS \in Nat /\ hS \in Nat
    <3> HIDE DEF a
    <3> QED
      BY <1>1, <2>5, TimesComm
  <2>7. rt = "npm" /\ ~r.head.dated =>
          r.received - r.head.born <= hS + 2 * (Second - 1)
    BY DEF RespOK
  <2> HIDE DEF aS, hS
  <2>8. /\ rt = "npm" /\ ~r.head.dated =>
             now - r.head.born <= aS + 3 * (Second - 1)
        /\ aS <= now - r.head.born + o
    BY <1>1, <1>2, <2>5, <2>6, <2>7, <2>4
  <2> HIDE DEF a
  <2> QED
    BY <2>2, <2>5, <2>8 DEF aS, o
<1> QED
  BY <1>4, <1>5

\* Capture: the PutRequest is as EntryOK says.
LEMMA CaptureOK ==
  ASSUME now \in Nat, NEW r, NEW rt, RespOK(r, rt, now), StillFresh(r),
         NEW k, NEW seen \in SUBSET Origin, seen \subseteq UNION k
  PROVE  EntryOK([content |-> "partial", synced |-> FALSE, stored |-> now,
                  expires |-> Min({now + TTL} \cup ({r.expires} \ {0})),
                  age |-> StoredAge(r), date |-> Date(r.head, now),
                  born |-> r.head.born, dated |-> r.head.dated,
                  life |-> r.head.life, trip |-> r.trip,
                  private |-> r.private, seen |-> seen], k, rt, now)
<1> DEFINE x == now + TTL
           m == Min({x} \cup ({r.expires} \ {0}))
           a == StoredAge(r)
           d == Date(r.head, now)
           life == r.head.life * Second
           e == [content |-> "partial", synced |-> FALSE, stored |-> now,
                 expires |-> m, age |-> a, date |-> d,
                 born |-> r.head.born, dated |-> r.head.dated,
                 life |-> r.head.life, trip |-> r.trip,
                 private |-> r.private, seen |-> seen]
<1>1. /\ TTL \in Nat \ {0} /\ r.expires \in Nat /\ r.head.born \in Nat
      /\ r.head.dated \in BOOLEAN /\ r.head.life \in Lifetime
      /\ r.private \in SUBSET Sign /\ r.private \subseteq {"overlooked"}
      /\ r.trip \in Nat /\ r.received \in Nat /\ r.received <= now
      /\ r.head.born <= r.received
  BY EntryAssumption DEF RespOK, RespYoung, Response
<1>2. r.expires # 0 => r.expires > now
  BY DEF StillFresh
<1>3. /\ m \in Nat /\ now < m /\ m <= now + TTL
      /\ r.expires # 0 => m <= r.expires
  <2>1. x \in Nat /\ x > now
    BY <1>1
  <2> HIDE DEF x
  <2>2. CASE r.expires = 0
    <3>1. {x} \cup ({r.expires} \ {0}) = {x}
      BY <2>2
    <3> QED
      BY <2>1, <2>2, <3>1, ExtremaOfOne DEF x
  <2>3. CASE r.expires # 0
    <3>1. {x} \cup ({r.expires} \ {0}) = {x, r.expires}
      BY <2>3
    <3>2. /\ Min({x, r.expires}) \in {x, r.expires}
          /\ Min({x, r.expires}) <= x /\ Min({x, r.expires}) <= r.expires
      BY <1>1, <2>1, MinPair
    <3> QED
      BY <1>1, <1>2, <2>1, <2>3, <3>1, <3>2 DEF x
  <2> QED
    BY <2>2, <2>3
<1>4. /\ a \in Nat
      /\ rt = "npm" /\ ~r.head.dated =>
           now - r.head.born <= a * Second + 3 * (Second - 1)
      /\ a * Second <= now - r.head.born + Overstated(r.head.dated, r.trip)
  BY StoredAgeOK
<1>5. /\ d \in Nat /\ (r.head.dated => d <= r.head.born)
      /\ (IF r.head.dated THEN r.head.born ELSE now) <= d + (Second - 1)
  BY <1>1, TruncatedFacts DEF Date
<1>6. rt = "npm" => m <= r.head.born + life + Slack(r.head.dated)
  <2> SUFFICES ASSUME rt = "npm"
               PROVE  m <= r.head.born + life + Slack(r.head.dated)
    OBVIOUS
  <2> DEFINE bound == r.head.born + life + Slack(r.head.dated)
  <2>1. r.expires # 0 /\ r.expires <= bound
    BY <1>1 DEF RespOK
  <2>2. bound \in Int
    <3>1. Second \in Nat /\ r.head.life \in Nat
      BY <1>1, EntryAssumption
    <3>2. life \in Nat
      BY <3>1, TimesComm
    <3> HIDE DEF life
    <3> QED
      BY <1>1, <3>1, <3>2 DEF Slack
  <2> HIDE DEF bound, m
  <2>3. m <= bound
    BY <1>1, <1>3, <2>1, <2>2
  <2> QED
    BY <2>3 DEF bound
<1> HIDE DEF m, a, d
<1>7. e \in Entry
  BY <1>1, <1>3, <1>4, <1>5 DEF Entry, Content
<1>8. EntryYoung(e)
  <2>1. r.head.born <= now
    BY <1>1
  <2> QED
    BY <1>4, <1>5, <2>1 DEF EntryYoung
<1>9. EntryOK(e, k, rt, now)
  BY <1>1, <1>3, <1>4, <1>5, <1>6, <1>7, <1>8 DEF EntryOK
<1> QED
  BY <1>9 DEF m, a, d

-----------------------------------------------------------------------------
(* The steps of a fill.                                                    *)

WritePhase == {"idle", "asked", "body", "put", "written", "synced", "done"}

WriteTypes ==
  /\ wpc \in [Writer -> WritePhase]
  /\ asked \in [Writer -> Nat] /\ chase \in [Writer -> Chase]
  /\ resp \in [Writer -> Response \cup {NoResponse}]
  /\ temp \in [Writer -> Entry \cup {NoEntry}]

FillTypes(w) ==
  /\ wpc[w] \in WritePhase /\ asked[w] \in Nat /\ chase[w] \in Chase
  /\ resp[w] \in Response \cup {NoResponse} /\ temp[w] \in Entry \cup {NoEntry}

\* Only the fill w takes a step.
Only(w) ==
  /\ wpc' = [wpc EXCEPT ![w] = wpc'[w]]
  /\ asked' = [asked EXCEPT ![w] = asked'[w]]
  /\ chase' = [chase EXCEPT ![w] = chase'[w]]
  /\ resp' = [resp EXCEPT ![w] = resp'[w]]
  /\ temp' = [temp EXCEPT ![w] = temp'[w]]
  /\ UNCHANGED <<now, config>>

\* The step of one fill keeps all of them when it keeps this one.
LEMMA FillKept ==
  ASSUME TypeOK, FillInv, NEW w \in Writer, Only(w), FillTypes(w)', FillOK(w)'
  PROVE  WriteTypes' /\ FillInv'
<1>1. WriteTypes'
  BY DEF TypeOK, WriteTypes, WritePhase, FillTypes, Only
<1>2. CacheKey' = CacheKey /\ now' = now /\ route' = route /\ policy' = policy
  BY DEF CacheKey, config, Only
<1>3. ASSUME NEW p \in Writer, p # w
      PROVE  /\ wpc'[p] = wpc[p] /\ asked'[p] = asked[p]
             /\ chase'[p] = chase[p] /\ resp'[p] = resp[p]
             /\ temp'[p] = temp[p]
  BY <1>3 DEF TypeOK, Only
<1>4. ASSUME NEW p \in Writer, p # w PROVE FillOK(p)'
  <2>1. FillOK(p)
    BY DEF FillInv
  <2> QED
    BY <1>2, <1>3, <1>4, <2>1 DEF FillOK
<1> QED
  BY <1>1, <1>4 DEF FillInv

\* A fill that ends leaves nothing behind.
LEMMA EndKept ==
  ASSUME TypeOK, FillInv, UNCHANGED <<now, config>>, NEW w \in Writer,
         NEW from, End(w, from)
  PROVE  WriteTypes' /\ FillInv'
<1>1. NewChase \in Chase /\ ChaseOK(NewChase, policy)
  BY OriginAssumption DEF NewChase, Chase, ChaseOK
<1>2. /\ Only(w) /\ wpc'[w] = "done" /\ asked'[w] = 0 /\ chase'[w] = NewChase
      /\ resp'[w] = NoResponse /\ temp'[w] = NoEntry
  BY DEF End, Go, Only, TypeOK
<1>3. now \in Nat /\ now' = now /\ policy' = policy
  BY DEF TypeOK, config
<1> QED
  BY <1>1, <1>2, <1>3, FillKept DEF FillTypes, WritePhase, FillOK

\* f is the entry e, but for its bytes on the medium.
SameEntry(f, e) ==
  /\ f \in Entry /\ f.private = e.private /\ f.seen = e.seen
  /\ f.stored = e.stored /\ f.expires = e.expires /\ f.date = e.date
  /\ f.dated = e.dated /\ f.born = e.born /\ f.life = e.life /\ f.age = e.age
  /\ f.trip = e.trip

\* Storing the body changes neither what the entry is nor for whom.
LEMMA SameEntryOK ==
  ASSUME NEW e, NEW f, NEW k, NEW rt, NEW t, EntryOK(e, k, rt, t),
         SameEntry(f, e)
  PROVE  EntryOK(f, k, rt, t)
  BY DEF EntryOK, EntryYoung, SameEntry

\* The steps of a fill up to the PutRequest.
LEMMA ResponseStep ==
  ASSUME Inv, NEW w \in Writer,
         Ask(w) \/ FollowRedirect(w) \/ Receive(w) \/ Capture(w)
  PROVE  WriteTypes' /\ FillInv'
<1>1. FillTypes(w) /\ FillOK(w) /\ now \in Nat /\ policy \in Policy
  BY DEF Inv, TypeOK, FillInv, FillTypes, WritePhase
<1>2. UNCHANGED <<now, config>> => CacheKey' = CacheKey
  BY DEF CacheKey, config
<1>3. CASE Ask(w)
  <2>1. /\ Only(w) /\ wpc'[w] = "asked" /\ asked'[w] = now
        /\ chase'[w] = chase[w] /\ resp'[w] = resp[w] /\ temp'[w] = temp[w]
    BY <1>3 DEF Ask, Go, Only, Inv, TypeOK
  <2>2. FillTypes(w)' /\ FillOK(w)'
    BY <1>1, <2>1 DEF FillTypes, WritePhase, FillOK, Only, config
  <2> QED
    BY <2>1, <2>2, FillKept DEF Inv
<1>4. CASE FollowRedirect(w)
  <2>1. PICK origin \in Origin \cup {Upstream}, hop \in Hop :
          /\ upstreamRedirectPolicy(policy, chase[w], origin)
          /\ chase' = [chase EXCEPT ![w] = observe(chase[w], origin, hop)]
    BY <1>4 DEF FollowRedirect
  <2> DEFINE c == observe(chase[w], origin, hop)
  <2>2. c \in Chase
    BY <1>1, <2>1, OriginAssumption
       DEF observe, Chase, upstreamRedirectPolicy, FillTypes
  <2>3. ChaseOK(c, policy)
    <3>1. "selective" \in c.picked => c.uncacheable
      BY <1>1 DEF observe, Hop, ChaseOK, FillTypes, FillOK, Chase
    <3>2. c.via # 0 /\ (policy.enforce => c.seen \subseteq policy.allowed)
      BY <1>1, <2>1
         DEF observe, Chase, upstreamRedirectPolicy, ChaseOK, FillTypes, FillOK
    <3> QED
      BY <3>1, <3>2 DEF ChaseOK
  <2>4. wpc[w] = "asked" /\ UNCHANGED <<now, config, wpc, asked, resp, temp>>
    BY <1>4 DEF FollowRedirect
  <2> HIDE DEF c
  <2>5. chase' = [chase EXCEPT ![w] = c]
    BY <2>1 DEF c
  <2>6. Only(w) /\ chase'[w] = c
    BY <2>4, <2>5 DEF Only, Inv, TypeOK
  <2>7. FillTypes(w)' /\ FillOK(w)'
    BY <1>1, <2>2, <2>3, <2>4, <2>6 DEF FillTypes, WritePhase, FillOK, config
  <2> QED
    BY <2>6, <2>7, FillKept DEF Inv
<1>5. CASE Receive(w)
  <2>1. /\ RespOK(resp'[w], route, now)
        /\ resp' = [resp EXCEPT ![w] = resp'[w]]
        /\ chase[w].seen \subseteq UNION CacheKey
    BY <1>5, ReceiveOK DEF Inv
  <2>2. /\ wpc' = [wpc EXCEPT ![w] = "body"]
        /\ UNCHANGED <<now, config, asked, chase, temp>>
    BY <1>5 DEF Receive, Go
  <2>3. Only(w) /\ wpc'[w] = "body" /\ resp'[w] \in Response
    BY <2>1, <2>2 DEF Only, Inv, TypeOK, RespOK
  <2>4. FillTypes(w)' /\ FillOK(w)'
    BY <1>1, <1>2, <2>1, <2>2, <2>3 DEF FillTypes, WritePhase, FillOK, config
  <2> QED
    BY <2>3, <2>4, FillKept DEF Inv
<1>6. CASE Capture(w)
  <2> DEFINE r == resp[w]
             e == [content |-> "partial", synced |-> FALSE, stored |-> now,
                   expires |-> Min({now + TTL} \cup ({r.expires} \ {0})),
                   age |-> StoredAge(r), date |-> Date(r.head, now),
                   born |-> r.head.born, dated |-> r.head.dated,
                   life |-> r.head.life, trip |-> r.trip,
                   private |-> r.private, seen |-> chase[w].seen]
  <2>1. /\ wpc[w] = "body" /\ wpc' = [wpc EXCEPT ![w] = "put"]
        /\ StillFresh(r) /\ temp' = [temp EXCEPT ![w] = e]
        /\ asked' = [asked EXCEPT ![w] = 0]
        /\ chase' = [chase EXCEPT ![w] = NewChase]
        /\ resp' = [resp EXCEPT ![w] = NoResponse]
        /\ UNCHANGED <<now, config>>
    BY <1>6 DEF Capture, Go
  <2>2. RespOK(r, route, now) /\ chase[w].seen \subseteq UNION CacheKey
    BY <1>1, <2>1 DEF FillOK
  <2>3. chase[w].seen \in SUBSET Origin
    BY <1>1 DEF Chase, FillTypes
  <2> HIDE DEF r
  <2>4. EntryOK(e, CacheKey, route, now)
    BY <1>1, <2>1, <2>2, <2>3, CaptureOK
  <2> HIDE DEF e
  <2>5. /\ Only(w) /\ wpc'[w] = "put" /\ asked'[w] = 0 /\ chase'[w] = NewChase
        /\ resp'[w] = NoResponse /\ temp'[w] = e
    BY <2>1 DEF Only, Inv, TypeOK
  <2>6. NewChase \in Chase /\ ChaseOK(NewChase, policy)
    BY OriginAssumption DEF NewChase, Chase, ChaseOK
  <2>7. FillTypes(w)' /\ FillOK(w)'
    <3>1. e \in Entry
      BY <2>4 DEF EntryOK
    <3> QED
      BY <1>1, <1>2, <2>1, <2>4, <2>5, <2>6, <3>1
         DEF FillTypes, WritePhase, FillOK, config
  <2> QED
    BY <2>5, <2>7, FillKept DEF Inv
<1> QED
  BY <1>3, <1>4, <1>5, <1>6

\* The temporary file is written and synced.
LEMMA WriteStep ==
  ASSUME Inv, NEW w \in Writer, WriteBody(w) \/ Sync(w)
  PROVE  WriteTypes' /\ FillInv'
<1>1. FillTypes(w) /\ FillOK(w)
  BY DEF Inv, TypeOK, FillInv, FillTypes, WritePhase
<1>2. PICK to \in {"written", "synced"}, s \in BOOLEAN :
        /\ wpc[w] \in {"put", "written"} /\ wpc' = [wpc EXCEPT ![w] = to]
        /\ temp' = [temp EXCEPT ![w].content = "whole", ![w].synced = s]
        /\ to = "synced" => s
        /\ UNCHANGED <<now, config, asked, chase, resp>>
  BY DEF WriteBody, Sync, Go, SetContent
<1> DEFINE e == [temp[w] EXCEPT !.content = "whole", !.synced = s]
<1>3. temp' = [temp EXCEPT ![w] = e]
  BY <1>2 DEF Inv, TypeOK
<1>4. EntryOK(temp[w], CacheKey, route, now)
  BY <1>1, <1>2 DEF FillOK
<1>5. SameEntry(e, temp[w]) /\ e.content = "whole" /\ e.synced = s
  BY <1>4 DEF EntryOK, SameEntry, Entry, Content
<1> HIDE DEF e
<1>6. EntryOK(e, CacheKey, route, now)
  BY <1>4, <1>5, SameEntryOK
<1>7. e \in Entry
  BY <1>6 DEF EntryOK
<1>8. Only(w) /\ wpc'[w] = to /\ temp'[w] = e
  BY <1>2, <1>3 DEF Only, Inv, TypeOK
<1>9. FillTypes(w)' /\ FillOK(w)'
  <2>1. CacheKey' = CacheKey
    BY <1>2 DEF CacheKey, config
  <2> QED
    BY <1>1, <1>2, <1>5, <1>6, <1>7, <1>8, <2>1
       DEF FillTypes, WritePhase, FillOK, config
<1> QED
  BY <1>8, <1>9, FillKept DEF Inv

-----------------------------------------------------------------------------
(* The steps of the store and of the readers.                              *)

StoreTypes == file \in [Key -> Entry \cup {NoEntry}]
              /\ durable \in [Key -> Entry \cup {NoEntry}]

ReadTypes ==
  /\ rpc \in [Reader -> {"idle", "staging", "staged", "served"}]
  /\ staged \in [Reader -> Entry \cup {NoEntry}] /\ shown \in [Reader -> Nat]

RestTypes ==
  /\ now \in Nat /\ route \in Route /\ store \in StoreKind
  /\ faults \in 0 .. MaxFaults /\ policy \in Policy

\* TypeOK in parts.
LEMMA TypeParts ==
  /\ TypeOK => WriteTypes /\ StoreTypes /\ ReadTypes /\ RestTypes
  /\ WriteTypes /\ StoreTypes /\ ReadTypes /\ RestTypes /\ StoreInv => TypeOK
<1>1. TypeOK => WriteTypes /\ StoreTypes /\ ReadTypes /\ RestTypes
  BY DEF TypeOK, WriteTypes, WritePhase, StoreTypes, ReadTypes, RestTypes
<1>2. ASSUME WriteTypes, StoreTypes, ReadTypes, RestTypes, StoreInv
      PROVE  TypeOK
  <2>1. \A k \in Key : file[k] # NoEntry => file[k].expires > file[k].stored
    BY <1>2 DEF StoreInv, HasOK, EntryOK, Entry
  <2> QED
    BY <1>2, <2>1
       DEF TypeOK, WriteTypes, WritePhase, StoreTypes, ReadTypes, RestTypes
<1> QED
  BY <1>1, <1>2

\* The same in the next state.
LEMMA PartsNext ==
  WriteTypes' /\ StoreTypes' /\ ReadTypes' /\ RestTypes' /\ StoreInv' => TypeOK'
<1>1. WriteTypes /\ StoreTypes /\ ReadTypes /\ RestTypes /\ StoreInv => TypeOK
  BY TypeParts
<1> QED
  BY <1>1, PTL

\* The entry put under the key of the policy in force is as StoreInv says.
LEMMA PutKept ==
  ASSUME Inv, NEW w \in Writer, Rename(w) \/ PutObject(w)
  PROVE  StoreTypes' /\ StoreInv'
<1>1. StoreTypes /\ policy \in Policy /\ FillOK(w) /\ CacheKey \in Key
  BY KeyTrusts, TypeParts DEF Inv, FillInv, TypeOK
<1>2. PICK e : /\ file' = [file EXCEPT ![CacheKey] = e]
               /\ durable' \in {durable, file'}
               /\ EntryOK(e, CacheKey, route, now)
               /\ e.synced /\ e.content = "whole"
  <2>1. CASE Rename(w)
    <3>1. EntryOK(temp[w], CacheKey, route, now)
          /\ temp[w].synced /\ temp[w].content = "whole"
      BY <1>1, <2>1 DEF Rename, End, Go, FillOK
    <3> QED
      BY <2>1, <3>1 DEF Rename
  <2>2. CASE PutObject(w)
    <3> DEFINE e == [temp[w] EXCEPT !.content = "whole", !.synced = TRUE]
    <3>1. EntryOK(temp[w], CacheKey, route, now)
      BY <1>1, <2>2 DEF PutObject, End, Go, FillOK
    <3>2. SameEntry(e, temp[w]) /\ e.content = "whole" /\ e.synced
      BY <3>1 DEF EntryOK, SameEntry, Entry, Content
    <3>3. /\ file' = [file EXCEPT ![CacheKey] = e]
          /\ durable' = file'
      BY <2>2 DEF PutObject
    <3> HIDE DEF e
    <3>4. EntryOK(e, CacheKey, route, now)
      BY <3>1, <3>2, SameEntryOK
    <3> QED
      BY <3>2, <3>3, <3>4
  <2> QED
    BY <2>1, <2>2
<1>3. UNCHANGED <<now, route>>
  BY DEF Rename, PutObject, config
<1>4. HasOK(e, CacheKey, route, now) /\ e \in Entry
  BY <1>2 DEF HasOK, EntryOK
<1>5. StoreTypes'
  BY <1>1, <1>2, <1>4 DEF StoreTypes
<1>6. \A k \in Key : HasOK(file'[k], k, route, now)
  BY <1>1, <1>2, <1>4 DEF StoreTypes, StoreInv, Inv
<1>7. \A k \in Key : HasOK(durable'[k], k, route, now)
  BY <1>2, <1>6 DEF StoreInv, Inv
<1> QED
  BY <1>3, <1>5, <1>6, <1>7 DEF StoreInv

\* A reader has what the store had under the key of the policy in force, and
\* checks it.
LEMMA HitStep ==
  ASSUME Inv, NEW r \in Reader, Hit(r)
  PROVE  ReadTypes' /\ ReadInv'
<1>1. ReadTypes /\ StoreTypes /\ RestTypes /\ ReadInv
  BY TypeParts DEF Inv
<1>2. UNCHANGED <<now, route, policy>> /\ CacheKey' = CacheKey
  BY DEF Hit, Get, Stage, StageFails, serveCached, HitEnds, config, CacheKey
<1>3. CASE Get(r)
  <2> DEFINE e == file[CacheKey]
  <2>1. e \in Entry /\ EntryOK(e, CacheKey, route, now)
    <3>1. CacheKey \in Key
      BY <1>1, KeyTrusts DEF RestTypes
    <3>2. e.content # "none"
      BY <1>3 DEF Get, FileReadable, ObjectReadable
    <3>3. e \in Entry \cup {NoEntry} /\ e # NoEntry
      BY <1>1, <3>1, <3>2 DEF StoreTypes, NoEntry
    <3> QED
      BY <3>1, <3>3 DEF Inv, StoreInv, HasOK
  <2>2. /\ rpc' = [rpc EXCEPT ![r] = "staging"] /\ shown' = shown
        /\ staged' = [staged EXCEPT ![r] = e]
    BY <1>3 DEF Get
  <2> HIDE DEF e
  <2> QED
    BY <1>1, <1>2, <2>1, <2>2 DEF ReadTypes, ReadInv
<1>4. CASE Stage(r)
  BY <1>1, <1>2, <1>4 DEF Stage, Usable, ReadTypes, ReadInv
<1>5. CASE StageFails(r) \/ HitEnds(r)
  BY <1>1, <1>2, <1>5 DEF StageFails, HitEnds, ReadTypes, ReadInv
<1>6. CASE serveCached(r)
  <2> DEFINE e == staged[r]
             a == aged(e.age, e.date, e.stored, now)
  <2>1. EntryOK(e, CacheKey, route, now) /\ now \in Nat
    BY <1>1, <1>6 DEF serveCached, ReadInv, RestTypes
  <2>2. e.age \in Nat /\ e.date \in Nat /\ e.stored \in Nat
    BY <2>1 DEF EntryOK, Entry
  <2>3. a \in Nat
    BY <2>1, <2>2, AgedFacts
  <2>4. /\ rpc[r] = "staged" /\ rpc' = [rpc EXCEPT ![r] = "served"]
        /\ staged' = staged /\ shown' = [shown EXCEPT ![r] = a]
    BY <1>6 DEF serveCached
  <2> HIDE DEF a
  <2> QED
    BY <1>1, <1>2, <2>3, <2>4 DEF ReadTypes, ReadInv
<1> QED
  BY <1>3, <1>4, <1>5, <1>6 DEF Hit

\* A crash, with or without loss of power, leaves synced entries alone.
LEMMA RestartStep ==
  ASSUME Inv, Restart
  PROVE  Inv'
<1>1. RestTypes /\ StoreTypes /\ WriteTypes /\ ReadTypes /\ StoreInv
  BY TypeParts DEF Inv
<1>2. RestTypes' /\ UNCHANGED <<now, route>>
  <2>1. MaxFaults \in Nat
    BY EntryAssumption
  <2> QED
    BY <1>1, <2>1 DEF Restart, RestTypes
<1>3. ASSUME NEW k \in Key
      PROVE  file'[k] \in {file[k], durable[k]}
             /\ durable'[k] \in {file[k], durable[k]}
  <2>1. CASE UNCHANGED <<file, durable>>
    BY <2>1
  <2>2. CASE PowerLoss
    <3>1. /\ AfterLoss(file[k]) = {file[k]}
          /\ AfterLoss(durable[k]) = {durable[k]}
      BY <1>1 DEF StoreInv, HasOK, AfterLoss, NoEntry
    <3>2. /\ file'[k] \in AfterLoss(file[k]) \cup AfterLoss(durable[k])
          /\ durable' = file'
      BY <2>2 DEF PowerLoss
    <3> QED
      BY <3>1, <3>2
  <2> QED
    BY <2>1, <2>2 DEF Restart
<1>4. StoreTypes'
  <2>1. DOMAIN file' = Key /\ file' = [k \in Key |-> file'[k]]
        /\ durable' = [k \in Key |-> durable'[k]]
    BY <1>1 DEF Restart, PowerLoss, StoreTypes
  <2> QED
    BY <1>1, <1>3, <2>1 DEF StoreTypes
<1>5. StoreInv'
  BY <1>1, <1>2, <1>3 DEF StoreInv
<1>6. WriteTypes' /\ FillInv'
  <2>1. /\ NewChase \in Chase /\ \A pol \in Policy : ChaseOK(NewChase, pol)
        /\ policy' \in Policy /\ now \in Nat /\ now' = now
    BY <1>1, <1>2, OriginAssumption
       DEF NewChase, Chase, ChaseOK, RestTypes
  <2>2. \A w \in Writer : wpc'[w] \in {"idle", "done"}
    BY DEF Restart
  <2>3. WriteTypes'
    BY <2>1 DEF Restart, WriteTypes, WritePhase
  <2>4. \A w \in Writer : asked'[w] = 0 /\ chase'[w] = NewChase
    BY DEF Restart
  <2> QED
    BY <2>1, <2>2, <2>3, <2>4 DEF FillInv, FillOK
<1>7. ReadTypes' /\ ReadInv'
  BY DEF Restart, ReadTypes, ReadInv
<1> QED
  BY <1>2, <1>4, <1>5, <1>6, <1>7, PartsNext DEF Inv

-----------------------------------------------------------------------------
(* The invariant.                                                          *)

\* Every step keeps the invariant.
LEMMA InvStep == Inv /\ [Next]_vars => Inv'
<1> SUFFICES ASSUME Inv, [Next]_vars PROVE Inv'
  OBVIOUS
<1>1. /\ WriteTypes /\ StoreTypes /\ ReadTypes /\ RestTypes
      /\ FillInv /\ StoreInv /\ ReadInv
  BY TypeParts DEF Inv
<1>2. ASSUME UNCHANGED <<now, config, faults>>
      PROVE  /\ RestTypes' /\ CacheKey' = CacheKey
             /\ UNCHANGED <<now, route, policy>>
  BY <1>1, <1>2 DEF config, RestTypes, CacheKey
<1>3. ASSUME UNCHANGED <<now, config, readVars, faults>>
      PROVE  ReadTypes' /\ ReadInv'
  <2>1. CacheKey' = CacheKey /\ UNCHANGED <<now, route, rpc, staged, shown>>
    BY <1>2, <1>3 DEF readVars
  <2> QED
    BY <1>1, <2>1 DEF ReadTypes, ReadInv
<1>4. ASSUME UNCHANGED <<now, config, writeVars, faults>>
      PROVE  WriteTypes' /\ FillInv'
  <2>1. /\ CacheKey' = CacheKey
        /\ UNCHANGED <<now, route, policy, wpc, asked, chase, resp, temp>>
    BY <1>2, <1>4 DEF writeVars
  <2> QED
    BY <1>1, <2>1 DEF WriteTypes, FillInv, FillOK
<1>5. ASSUME UNCHANGED <<now, config, file, durable, faults>>
      PROVE  StoreTypes' /\ StoreInv'
  BY <1>1, <1>2, <1>5 DEF StoreTypes, StoreInv
<1>6. ASSUME NEW w \in Writer, Fill(w) PROVE Inv'
  <2>1. UNCHANGED <<now, config, readVars, faults>>
    BY <1>6 DEF Fill, Ask, FollowRedirect, Receive, NotStored, Capture,
                CaptureFails, WriteBody, Sync, Rename, PutObject, PutFails
  <2>2. WriteTypes' /\ FillInv'
    <3>1. CASE Ask(w) \/ FollowRedirect(w) \/ Receive(w) \/ Capture(w)
      BY <3>1, ResponseStep
    <3>2. CASE WriteBody(w) \/ Sync(w)
      BY <3>2, WriteStep
    <3>3. CASE NotStored(w) \/ CaptureFails(w) \/ Rename(w) \/ PutObject(w)
               \/ PutFails(w)
      <4>1. PICK from : End(w, from)
        BY <3>3 DEF NotStored, CaptureFails, Rename, PutObject, PutFails
      <4> QED
        BY <2>1, <4>1, EndKept DEF Inv
    <3> QED
      BY <1>6, <3>1, <3>2, <3>3 DEF Fill
  <2>3. StoreTypes' /\ StoreInv'
    <3>1. CASE Rename(w) \/ PutObject(w)
      BY <3>1, PutKept
    <3>2. CASE ~(Rename(w) \/ PutObject(w))
      <4>1. UNCHANGED <<file, durable>>
        BY <1>6, <3>2
           DEF Fill, Ask, FollowRedirect, Receive, NotStored, Capture,
               CaptureFails, WriteBody, Sync, PutFails
      <4> QED
        BY <1>5, <2>1, <4>1
    <3> QED
      BY <3>1, <3>2
  <2> QED
    BY <1>2, <1>3, <2>1, <2>2, <2>3, PartsNext DEF Inv
<1>7. ASSUME NEW r \in Reader, Hit(r) PROVE Inv'
  <2>1. UNCHANGED <<now, config, writeVars, file, durable, faults>>
    BY <1>7 DEF Hit, Get, Stage, StageFails, serveCached, HitEnds
  <2>2. ReadTypes' /\ ReadInv'
    BY <1>7, HitStep
  <2> QED
    BY <1>2, <1>4, <1>5, <2>1, <2>2, PartsNext DEF Inv
<1>8. CASE Flush
  <2>1. UNCHANGED <<now, config, writeVars, readVars, faults>>
    BY <1>8 DEF Flush
  <2>2. StoreTypes' /\ StoreInv'
    BY <1>1, <1>2, <1>8, <2>1 DEF Flush, StoreTypes, StoreInv
  <2> QED
    BY <1>2, <1>3, <1>4, <2>1, <2>2, PartsNext DEF Inv
<1>9. ASSUME NEW k \in Key, Corrupt(k) PROVE Inv'
  <2> DEFINE e == [file[k] EXCEPT !.content = "corrupt"]
  <2>1. /\ UNCHANGED <<now, config, writeVars, readVars, durable>>
        /\ file[k].content = "whole" /\ faults' = faults + 1
        /\ faults < MaxFaults /\ file' = [file EXCEPT ![k].content = "corrupt"]
    BY <1>9 DEF Corrupt
  <2>2. RestTypes' /\ CacheKey' = CacheKey /\ UNCHANGED <<now, route, policy>>
    BY <1>1, <2>1, EntryAssumption DEF RestTypes, config, CacheKey
  <2>3. EntryOK(file[k], k, route, now) /\ file[k].synced
    BY <1>1, <2>1 DEF StoreInv, HasOK, NoEntry
  <2>4. SameEntry(e, file[k]) /\ e.content = "corrupt" /\ e.synced
    BY <2>3 DEF EntryOK, SameEntry, Entry, Content
  <2>5. file' = [file EXCEPT ![k] = e]
    BY <1>1, <2>1 DEF StoreTypes
  <2> HIDE DEF e
  <2>6. HasOK(e, k, route, now) /\ e \in Entry
    BY <2>3, <2>4, SameEntryOK DEF HasOK, SameEntry
  <2>7. StoreTypes' /\ StoreInv'
    BY <1>1, <2>1, <2>2, <2>5, <2>6 DEF StoreTypes, StoreInv
  <2>8. ReadTypes' /\ ReadInv' /\ WriteTypes' /\ FillInv'
    BY <1>1, <2>1, <2>2
       DEF ReadTypes, ReadInv, WriteTypes, FillInv, FillOK, readVars, writeVars
  <2> QED
    BY <2>2, <2>7, <2>8, PartsNext DEF Inv
<1>10. CASE Tick
  <2>1. /\ now' = now + 1
        /\ UNCHANGED <<config, writeVars, file, durable, readVars, faults>>
    BY <1>10 DEF Tick
  <2>2. /\ now \in Nat /\ now' \in Nat /\ now <= now' /\ RestTypes'
        /\ CacheKey' = CacheKey /\ UNCHANGED <<route, policy>>
    BY <1>1, <2>1 DEF RestTypes, config, CacheKey
  <2>3. StoreTypes' /\ StoreInv'
    <3>1. ASSUME NEW k \in Key
          PROVE  /\ HasOK(file[k], k, route, now')
                 /\ HasOK(durable[k], k, route, now')
      BY <1>1, <2>2, Later DEF StoreInv
    <3> QED
      BY <1>1, <2>1, <2>2, <3>1 DEF StoreTypes, StoreInv
  <2>4. ReadTypes' /\ ReadInv'
    <3>1. ASSUME NEW r \in Reader, rpc[r] # "idle"
          PROVE  EntryOK(staged[r], CacheKey, route, now')
      BY <1>1, <2>2, <3>1, Later DEF ReadInv
    <3> QED
      BY <1>1, <2>1, <2>2, <3>1 DEF ReadTypes, ReadInv, readVars
  <2>5. WriteTypes' /\ FillInv'
    <3>1. ASSUME NEW w \in Writer
          PROVE  /\ wpc[w] \in {"put", "written", "synced"} =>
                      EntryOK(temp[w], CacheKey, route, now')
                 /\ wpc[w] = "body" => RespOK(resp[w], route, now')
                 /\ asked[w] <= now'
      <4>1. FillOK(w) /\ asked[w] \in Nat
        BY <1>1 DEF FillInv, WriteTypes
      <4> QED
        BY <2>2, <4>1, Later DEF FillOK
    <3> QED
      BY <1>1, <2>1, <2>2, <3>1 DEF WriteTypes, FillInv, FillOK, writeVars
  <2> QED
    BY <2>2, <2>3, <2>4, <2>5, PartsNext DEF Inv
<1>11. CASE Restart
  BY <1>11, RestartStep
<1>12. CASE UNCHANGED vars
  <2>1. UNCHANGED <<now, config, writeVars, file, durable, readVars, faults>>
    BY <1>12 DEF vars, config, writeVars, readVars
  <2> QED
    BY <1>2, <1>3, <1>4, <1>5, <2>1, PartsNext DEF Inv
<1> QED
  BY <1>6, <1>7, <1>8, <1>9, <1>10, <1>11, <1>12 DEF Next

\* The invariant holds when the program starts with an empty store.
LEMMA InvInit == Init => Inv
<1> SUFFICES ASSUME Init PROVE Inv
  OBVIOUS
<1>1. RestTypes /\ ReadTypes /\ ReadInv /\ StoreTypes /\ StoreInv
  BY EntryAssumption
     DEF Init, RestTypes, ReadTypes, ReadInv, StoreTypes, StoreInv, HasOK
<1>2. NewChase \in Chase /\ ChaseOK(NewChase, policy)
  BY OriginAssumption DEF NewChase, Chase, ChaseOK
<1>3. WriteTypes /\ FillInv
  BY <1>2 DEF Init, WriteTypes, WritePhase, FillInv, FillOK
<1> QED
  BY <1>1, <1>3, TypeParts DEF Inv

\* Inv is an invariant of the specification.
LEMMA InvHolds == Spec => []Inv
  BY InvInit, InvStep, PTL DEF Spec

-----------------------------------------------------------------------------
(* The theorems.                                                           *)

\* TypeOK: entries have their shape and expire after they were stored.
THEOREM EntriesWellFormed == Spec => []TypeOK
<1>1. Inv => TypeOK
  BY DEF Inv
<1> QED
  BY <1>1, InvHolds, PTL

\* ServedIntact: whatever crashes, power losses and corruptions happen, a hit
\* has the bytes that were stored, and no part of an entry is under a key.
THEOREM HitsIntact == Spec => []ServedIntact
<1>1. Inv => ServedIntact
  BY DEF Inv, ReadInv, StoreInv, HasOK, ServedIntact, NoEntry
<1> QED
  BY <1>1, InvHolds, PTL

\* OnlyReplayable: no hit is another client's own response, where that can be
\* seen, or came by way of an origin that the policy in force does not trust.
THEOREM HitsReplayable == Spec => []OnlyReplayable
<1>1. ASSUME Inv PROVE OnlyReplayable
  <2>1. UNION CacheKey = IF policy.enforce THEN policy.allowed ELSE {}
    BY <1>1, KeyTrusts DEF Inv, TypeOK
  <2> QED
    BY <1>1, <2>1 DEF Inv, ReadInv, EntryOK, OnlyReplayable
<1> QED
  BY <1>1, InvHolds, PTL

\* HitFresh: what loadCached accepts is within the artifact TTL and, for npm,
\* within the s-maxage that the registry gave it.
THEOREM HitsFresh == Spec => HitFresh
<1> DEFINE Fresh ==
      \A r \in Reader : rpc[r] = "staging" /\ rpc'[r] = "staged" =>
        LET e == staged[r]
        IN /\ now < e.stored + TTL
           /\ route = "npm" =>
                now < e.born + e.life * Second + (IF e.dated THEN 0 ELSE Second)
<1>1. ASSUME Inv, [Next]_vars PROVE Fresh \/ UNCHANGED vars
  <2> SUFFICES ASSUME NEW r \in Reader, rpc[r] = "staging", rpc'[r] = "staged"
               PROVE  LET e == staged[r]
                      IN /\ now < e.stored + TTL
                         /\ route = "npm" =>
                              now < e.born + e.life * Second
                                      + (IF e.dated THEN 0 ELSE Second)
    OBVIOUS
  <2> DEFINE e == staged[r]
             bound == e.born + e.life * Second + Slack(e.dated)
  <2>1. EntryOK(e, CacheKey, route, now) /\ now \in Nat
    BY <1>1 DEF Inv, ReadInv, TypeOK
  <2>2. Stage(r)
    <3>1. rpc' # rpc
      BY <1>1
    <3>2. PICK p \in Reader : Hit(p)
      BY <1>1, <3>1, ZenonT(60)
         DEF Next, vars, readVars, Fill, Ask, FollowRedirect, Receive,
             NotStored, Capture, CaptureFails, WriteBody, Sync, Rename,
             PutObject, PutFails, Corrupt, Tick, Flush, Restart
    <3> QED
      BY <1>1, <3>2
         DEF Hit, Get, Stage, StageFails, serveCached, HitEnds, Inv, TypeOK
  <2>3. ~(e.expires <= now)
    BY <2>2 DEF Stage, Usable, Expired
  <2>4. /\ e.expires \in Nat /\ e.stored \in Nat /\ e.born \in Nat
        /\ e.life \in Lifetime /\ e.dated \in BOOLEAN
        /\ e.expires <= e.stored + TTL
        /\ route = "npm" => e.expires <= bound
    BY <2>1 DEF EntryOK, Entry
  <2>5. TTL \in Nat /\ Second \in Nat /\ e.life \in Nat
    BY <2>4, EntryAssumption
  <2>6. e.life * Second \in Nat
    BY <2>5, TimesComm
  <2>7. bound \in Nat
    BY <2>4, <2>5, <2>6 DEF Slack
  <2>8. now < e.stored + TTL /\ (route = "npm" => now < bound)
    <3> HIDE DEF bound, e
    <3> QED
      BY <2>1, <2>3, <2>4, <2>5, <2>7
  <2> QED
    BY <2>8 DEF Slack
<1>2. Inv /\ [Next]_vars => [Fresh]_vars
  BY <1>1
<1> QED
  BY <1>2, InvHolds, PTL DEF Spec, HitFresh

\* AgeHonest: the Age of a hit is its age, less at most the fractions of a
\* second that the conversions cut off, and more at most by what its Date was
\* cut by or, for npm, the time the request took.
THEOREM AgesHonest == Spec => AgeHonest
<1> DEFINE Honest ==
      \A r \in Reader : rpc[r] = "staged" /\ rpc'[r] = "served" =>
        LET e == staged[r]
            age == now - e.born
            Cut(n) == age <= shown'[r] * Second + n * (Second - 1)
        IN /\ e.dated => Cut(2)
           /\ route = "npm" => Cut(4)
           /\ shown'[r] * Second <= age + Overstated(e.dated, e.trip)
<1>1. ASSUME Inv, [Next]_vars, NEW r \in Reader, rpc[r] = "staged",
             rpc'[r] = "served"
      PROVE  /\ staged[r].dated =>
                  now - staged[r].born <= shown'[r] * Second + 2 * (Second - 1)
             /\ route = "npm" =>
                  now - staged[r].born <= shown'[r] * Second + 4 * (Second - 1)
             /\ shown'[r] * Second <=
                  now - staged[r].born
                    + Overstated(staged[r].dated, staged[r].trip)
  <2> DEFINE e == staged[r]
             o == Overstated(e.dated, e.trip)
             b == e.stored - e.born + o
             a == aged(e.age, e.date, e.stored, now)
             aS == a * Second
             gS == e.age * Second
  <2>1. EntryOK(e, CacheKey, route, now) /\ now \in Nat
    BY <1>1 DEF Inv, ReadInv, TypeOK
  <2>2. serveCached(r)
    <3>1. rpc' # rpc
      BY <1>1
    <3>2. PICK p \in Reader : Hit(p)
      BY <1>1, <3>1, ZenonT(60)
         DEF Next, vars, readVars, Fill, Ask, FollowRedirect, Receive,
             NotStored, Capture, CaptureFails, WriteBody, Sync, Rename,
             PutObject, PutFails, Corrupt, Tick, Flush, Restart
    <3> QED
      BY <1>1, <3>2
         DEF Hit, Get, Stage, StageFails, serveCached, HitEnds, Inv, TypeOK
  <2>3. shown'[r] = a
    BY <1>1, <2>2 DEF serveCached, Inv, TypeOK
  <2>4. /\ e.age \in Nat /\ e.date \in Nat /\ e.stored \in Nat
        /\ e.born \in Nat /\ e.dated \in BOOLEAN
        /\ e.dated => e.date <= e.born
        /\ route = "npm" /\ ~e.dated =>
             e.stored - e.born <= gS + 3 * (Second - 1)
        /\ e.trip \in Nat /\ e.stored <= now /\ e.born <= e.stored /\ gS <= b
        /\ (IF e.dated THEN e.born ELSE e.stored) <= e.date + (Second - 1)
    BY <2>1 DEF EntryOK, EntryYoung, Entry
  <2>5. Second \in Nat \ {0}
    BY EntryAssumption
  <2> HIDE DEF e
  <2>6. /\ a \in Nat /\ gS + (now - e.stored) <= aS + (Second - 1)
        /\ now - e.date <= aS + 2 * (Second - 1)
    BY <2>1, <2>4, AgedFacts
  <2>7. o \in Nat /\ (e.dated => Second - 1 <= o)
    BY <2>4, OverstatedFacts
  <2> HIDE DEF o
  <2>8. e.stored > e.date => Seconds(e.stored - e.date) * Second <= b
    <3> SUFFICES ASSUME e.stored > e.date
                 PROVE  Seconds(e.stored - e.date) * Second <= b
      OBVIOUS
    <3> DEFINE x == e.stored - e.date
               n == Seconds(x)
               xS == n * Second
    <3>1. x \in Nat /\ (e.dated => x <= b) /\ (~e.dated => x < Second)
      BY <2>4, <2>5, <2>7
    <3> HIDE DEF x
    <3>2. n \in Nat /\ xS \in Nat /\ xS <= x
      BY <3>1, SecondsFacts
    <3> HIDE DEF n
    <3>3. ~e.dated => xS = 0
      <4> SUFFICES ASSUME ~e.dated PROVE n = 0
        BY <2>5
      <4>1. n >= 1 => 1 * Second <= xS
        BY <2>5, <3>2, TimesMono, TimesComm
      <4> HIDE DEF xS
      <4> QED
        BY <2>5, <3>1, <3>2, <4>1
    <3> HIDE DEF xS
    <3>4. xS <= b
      BY <2>4, <2>7, <3>1, <3>2, <3>3
    <3> QED
      BY <3>4 DEF xS, n, x
  <2>9. aS <= b + (now - e.stored)
    <3>1. b \in Int
      BY <2>4, <2>7
    <3> HIDE DEF b
    <3> QED
      BY <2>1, <2>4, <2>8, <3>1, AgedAtMost
  <2> HIDE DEF a
  <2>10. aS \in Nat /\ gS \in Nat
    BY <2>4, <2>5, <2>6, TimesComm
  <2> HIDE DEF aS, gS
  <2>11. /\ e.dated => now - e.born <= aS + 2 * (Second - 1)
         /\ route = "npm" => now - e.born <= aS + 4 * (Second - 1)
    BY <2>1, <2>4, <2>5, <2>6, <2>10
  <2>12. aS <= now - e.born + o
    <3>1. /\ now \in Nat /\ e.stored \in Nat /\ e.born \in Nat /\ o \in Nat
          /\ aS \in Nat /\ aS <= (e.stored - e.born + o) + (now - e.stored)
      BY <2>1, <2>4, <2>7, <2>9, <2>10
    <3> QED
      BY <3>1
  <2> QED
    BY <2>3, <2>11, <2>12 DEF aS, e, o
<1>2. Inv /\ [Next]_vars => [Honest]_vars
  BY <1>1
<1> QED
  BY <1>2, InvHolds, PTL DEF Spec, AgeHonest
=============================================================================
