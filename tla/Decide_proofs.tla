---------------------------- MODULE Decide_proofs ----------------------------
(***************************************************************************)
(* What decide and its caches promise for any workers, packages, rules,    *)
(* retention times and cache sizes.                                        *)
(***************************************************************************)
EXTENDS Decide, Arithmetic_proofs, FiniteSetTheorems

-----------------------------------------------------------------------------
(* What the operations of cache.Cache do to a well-formed cache.           *)

\* The keys in a list.
Keys(order) == {order[i] : i \in 1 .. Len(order)}

\* The n-th step of delete's loop, from what the steps before have left.
Left(order, key, left, n) ==
  IF n = 0 THEN <<>>
  ELSE IF order[n] = key THEN left[n - 1]
  ELSE Append(left[n - 1], order[n])

\* left holds what delete's loop leaves of the first n keys.
IsLeft(order, key, left, n) ==
  left = [i \in 0 .. n |-> Left(order, key, left, i)]

\* The loop can be followed to any length.
LEMMA LeftExists ==
  ASSUME NEW order, NEW key, NEW n \in Nat
  PROVE  \E left : IsLeft(order, key, left, n)
<1> DEFINE Bad == {m \in Nat : ~\E left : IsLeft(order, key, left, m)}
<1> SUFFICES ASSUME Bad # {} PROVE FALSE
  OBVIOUS
<1>1. PICK m \in Bad : \A x \in Bad : m <= x
  <2>1. Bad \in SUBSET Nat
    OBVIOUS
  <2> HIDE DEF Bad
  <2> QED
    BY <2>1, LeastElement
<1>2. CASE m = 0
  <2> DEFINE left == [i \in 0 .. 0 |-> <<>>]
  <2>1. IsLeft(order, key, left, 0)
    BY DEF IsLeft, Left
  <2> QED
    BY <1>2, <2>1
<1>3. CASE m # 0
  <2>1. m - 1 \in Nat /\ m - 1 \notin Bad
    BY <1>1, <1>3
  <2>2. PICK old : IsLeft(order, key, old, m - 1)
    BY <2>1
  <2> DEFINE left == [i \in 0 .. m |-> IF i < m THEN old[i]
                                       ELSE Left(order, key, old, m)]
  <2>3. ASSUME NEW i \in 0 .. m PROVE left[i] = Left(order, key, left, i)
    <3>1. CASE i < m
      <4>1. left[i] = old[i] /\ i \in 0 .. m - 1
        BY <3>1
      <4>2. old[i] = Left(order, key, old, i)
        BY <2>2, <4>1 DEF IsLeft
      <4>3. i # 0 => left[i - 1] = old[i - 1]
        BY <3>1
      <4> QED
        BY <4>1, <4>2, <4>3 DEF Left
    <3>2. CASE i = m
      <4>1. left[i] = Left(order, key, old, m) /\ left[m - 1] = old[m - 1]
        BY <1>3, <3>2
      <4> QED
        BY <3>2, <4>1 DEF Left
    <3> QED
      BY <3>1, <3>2
  <2>4. IsLeft(order, key, left, m)
    BY <2>3 DEF IsLeft
  <2> QED
    BY <2>4
<1> QED
  BY <1>2, <1>3

\* Without is the last step of the loop.
LEMMA WithoutIsLeft ==
  ASSUME NEW order, NEW key, Len(order) \in Nat
  PROVE  \E left : /\ IsLeft(order, key, left, Len(order))
                   /\ Without(order, key) = left[Len(order)]
<1> DEFINE left == CHOOSE left : IsLeft(order, key, left, Len(order))
<1>1. IsLeft(order, key, left, Len(order))
  BY LeftExists
<1>2. Without(order, key) = left[Len(order)]
  BY DEF Without, IsLeft, Left
<1> QED
  BY <1>1, <1>2

\* A new key at the end of a list.
LEMMA AppendKey ==
  ASSUME NEW S, NEW list \in Seq(S), NEW k \in S,
         IsInjective(list), k \notin Keys(list)
  PROVE  /\ Append(list, k) \in Seq(S) /\ IsInjective(Append(list, k))
         /\ Keys(Append(list, k)) = Keys(list) \cup {k}
<1> DEFINE l == Len(list)
           long == Append(list, k)
<1>1. /\ l \in Nat /\ long \in Seq(S) /\ Len(long) = l + 1
      /\ DOMAIN long = 1 .. l + 1 /\ long[l + 1] = k /\ DOMAIN list = 1 .. l
      /\ \A i \in 1 .. l : long[i] = list[i]
  OBVIOUS
<1> HIDE DEF long, l
<1>2. \A i \in 1 .. l : list[i] \in Keys(list)
  BY DEF Keys, l
<1>3. IsInjective(long)
  BY <1>1, <1>2 DEF IsInjective
<1>4. Keys(long) = Keys(list) \cup {k}
  <2>1. 1 .. Len(long) = (1 .. l) \cup {l + 1}
    BY <1>1
  <2>2. Keys(list) = {long[i] : i \in 1 .. l}
    BY <1>1 DEF Keys, l
  <2> QED
    BY <1>1, <2>1, <2>2 DEF Keys
<1> QED
  BY <1>1, <1>3, <1>4 DEF long

\* delete takes the key out of a list and leaves the rest of it.
LEMMA WithoutFacts ==
  ASSUME NEW S, NEW order \in Seq(S), NEW key, IsInjective(order)
  PROVE  /\ Without(order, key) \in Seq(S)
         /\ IsInjective(Without(order, key))
         /\ Keys(Without(order, key)) = Keys(order) \ {key}
<1> DEFINE l == Len(order)
<1>0. l \in Nat /\ DOMAIN order = 1 .. l
  OBVIOUS
<1>1. PICK left : /\ IsLeft(order, key, left, l)
                  /\ Without(order, key) = left[l]
  BY WithoutIsLeft
<1> DEFINE First(n) == {order[i] : i \in 1 .. n}
           Good(n) == /\ left[n] \in Seq(S) /\ IsInjective(left[n])
                      /\ Keys(left[n]) = First(n) \ {key}
           Bad == {n \in 0 .. l : ~Good(n)}
<1>2. \A n \in 0 .. l : left[n] = Left(order, key, left, n)
  BY <1>1, Zenon DEF IsLeft
<1> HIDE DEF l
<1>3. Bad = {}
  <2> SUFFICES ASSUME Bad # {} PROVE FALSE
    OBVIOUS
  <2>1. Bad \in SUBSET Nat
    BY <1>0
  <2>2. PICK n \in Bad : \A x \in Bad : n <= x
    <3> HIDE DEF Bad
    <3> QED
      BY <2>1, LeastElement
  <2>3. CASE n = 0
    <3>1. left[n] = <<>>
      BY <1>0, <1>2, <2>3 DEF Left
    <3>2. Good(n)
      BY <2>3, <3>1 DEF IsInjective, Keys
    <3> QED
      BY <3>2
  <2>4. CASE n # 0
    <3>1. n \in 1 .. l /\ n - 1 \in 0 .. l /\ n - 1 \in Nat /\ n \in Nat
      BY <1>0, <2>4
    <3>2. n - 1 \notin Bad
      <4> HIDE DEF Bad
      <4> QED
        BY <2>2, <3>1
    <3>3. Good(n - 1)
      BY <3>1, <3>2
    <3> DEFINE prev == left[n - 1]
    <3>4. First(n) = First(n - 1) \cup {order[n]}
      <4>1. 1 .. n = (1 .. n - 1) \cup {n}
        BY <3>1
      <4> QED
        BY <4>1
    <3>5. order[n] \in S /\ order[n] \notin First(n - 1)
      BY <1>0, <3>1 DEF IsInjective
    <3>6. left[n] = IF order[n] = key THEN prev ELSE Append(prev, order[n])
      BY <1>2, <2>4, <3>1 DEF Left
    <3>7. /\ prev \in Seq(S) /\ IsInjective(prev)
          /\ Keys(prev) = First(n - 1) \ {key}
      BY <3>3
    <3> HIDE DEF First, prev
    <3>8. CASE order[n] = key
      <4>1. left[n] = prev /\ First(n) \ {key} = First(n - 1) \ {key}
        BY <3>4, <3>6, <3>8
      <4> QED
        BY <3>7, <4>1
    <3>9. CASE order[n] # key
      <4>1. order[n] \notin Keys(prev)
        BY <3>5, <3>7
      <4>2. /\ left[n] \in Seq(S) /\ IsInjective(left[n])
            /\ Keys(left[n]) = Keys(prev) \cup {order[n]}
        BY <3>5, <3>6, <3>7, <3>9, <4>1, AppendKey
      <4>3. Keys(left[n]) = First(n) \ {key}
        BY <3>4, <3>7, <3>9, <4>2
      <4> QED
        BY <4>2, <4>3
    <3> QED
      BY <3>8, <3>9
  <2> QED
    BY <2>3, <2>4
<1>4. Good(l)
  <2> HIDE DEF Good
  <2>1. l \in 0 .. l
    BY <1>0
  <2> QED
    BY <1>3, <2>1
<1>5. First(l) = Keys(order)
  BY DEF l, Keys
<1> HIDE DEF First
<1> QED
  BY <1>1, <1>4, <1>5

\* A well-formed cache of packages.
CacheOK(c) ==
  /\ c.order \in Seq(Package) /\ IsInjective(c.order)
  /\ Keys(c.order) = DOMAIN c.items
  /\ IsFiniteSet(DOMAIN c.items)
  /\ Cardinality(DOMAIN c.items) <= MaxEntries

\* delete takes one entry out and keeps a cache well-formed.
LEMMA DeleteFacts ==
  ASSUME NEW c, NEW key, CacheOK(c)
  PROVE  /\ CacheOK(delete(c, key))
         /\ DOMAIN delete(c, key).items = DOMAIN c.items \ {key}
         /\ \A k \in DOMAIN c.items \ {key} :
              delete(c, key).items[k] = c.items[k]
<1> DEFINE d == delete(c, key)
<1>1. /\ d.order = Without(c.order, key)
      /\ DOMAIN d.items = DOMAIN c.items \ {key}
      /\ \A k \in DOMAIN c.items \ {key} : d.items[k] = c.items[k]
  BY DEF delete, Restrict
<1>2. /\ d.order \in Seq(Package) /\ IsInjective(d.order)
      /\ Keys(d.order) = DOMAIN d.items
  BY <1>1, WithoutFacts DEF CacheOK
<1>3. IsFiniteSet(DOMAIN d.items) /\ Cardinality(DOMAIN d.items) <= MaxEntries
  <2> DEFINE old == DOMAIN c.items
             new == DOMAIN d.items
  <2>1. new \subseteq old /\ IsFiniteSet(old) /\ Cardinality(old) <= MaxEntries
    BY <1>1 DEF CacheOK
  <2> HIDE DEF old, new
  <2>2. IsFiniteSet(new) /\ Cardinality(new) <= Cardinality(old)
    BY <2>1, FS_Subset
  <2>3. Cardinality(new) \in Nat /\ Cardinality(old) \in Nat
    BY <2>1, <2>2, FS_CardinalityType
  <2>4. MaxEntries \in Nat
    BY DecideAssumption, SMTT(60)
  <2> QED
    BY <2>1, <2>2, <2>3, <2>4 DEF new
<1> HIDE DEF d
<1> QED
  BY <1>1, <1>2, <1>3 DEF CacheOK, d

\* Dropping from the front of a list leaves the keys that are kept.
LEMMA DropFront ==
  ASSUME NEW S, NEW order \in Seq(S), IsInjective(order),
         NEW n \in 0 .. Len(order)
  PROVE  LET rest == SubSeq(order, n + 1, Len(order))
         IN /\ rest \in Seq(S) /\ IsInjective(rest)
            /\ Keys(rest) = Keys(order) \ {order[i] : i \in 1 .. n}
<1> DEFINE l == Len(order)
           rest == SubSeq(order, n + 1, l)
<1>1. /\ l \in Nat /\ DOMAIN order = 1 .. l /\ rest \in Seq(S)
      /\ Len(rest) = l - n /\ DOMAIN rest = 1 .. l - n
      /\ \A i \in 1 .. l - n : rest[i] = order[i + n]
  OBVIOUS
<1>0. n \in Nat /\ n <= l
  OBVIOUS
<1> HIDE DEF l, rest
<1>2. \A i \in 1 .. l - n : i + n \in 1 .. l
  BY <1>0, <1>1
<1>3. ASSUME NEW a \in 1 .. l - n, NEW b \in 1 .. l - n, rest[a] = rest[b]
      PROVE  a = b
  <2>1. a + n = b + n
    BY <1>1, <1>2, <1>3 DEF IsInjective
  <2> QED
    BY <1>0, <2>1
<1>4. ASSUME NEW k \in Keys(rest)
      PROVE  k \in Keys(order) /\ k \notin {order[i] : i \in 1 .. n}
  <2>1. PICK i \in 1 .. l - n : k = order[i + n]
    BY <1>1 DEF Keys
  <2>2. i + n \in 1 .. l /\ \A j \in 1 .. n : j \in 1 .. l /\ j # i + n
    BY <1>0, <1>1, <1>2, <2>1
  <2> QED
    BY <1>1, <2>1, <2>2 DEF Keys, IsInjective, l
<1>5. ASSUME NEW k \in Keys(order), k \notin {order[i] : i \in 1 .. n}
      PROVE  k \in Keys(rest)
  <2>1. PICK j \in 1 .. l : k = order[j]
    BY DEF Keys, l
  <2>2. j \notin 1 .. n
    BY <1>5, <2>1
  <2>3. j - n \in 1 .. l - n /\ rest[j - n] = order[j]
    BY <1>0, <1>1, <2>1, <2>2
  <2> QED
    BY <1>1, <2>1, <2>3 DEF Keys
<1>6. IsInjective(rest)
  BY <1>1, <1>3 DEF IsInjective
<1> QED
  BY <1>1, <1>4, <1>5, <1>6 DEF rest, l

\* enforceMaxEntries drops entries until the bound is kept, none if it is,
\* and no list key is left without its entry.
LEMMA EnforceFacts ==
  ASSUME NEW c, c.order \in Seq(Package), IsInjective(c.order),
         Keys(c.order) = DOMAIN c.items, IsFiniteSet(DOMAIN c.items)
  PROVE  LET d == enforceMaxEntries(c, MaxEntries)
         IN /\ CacheOK(d) /\ DOMAIN d.items \subseteq DOMAIN c.items
            /\ \A k \in DOMAIN d.items : d.items[k] = c.items[k]
            /\ Cardinality(DOMAIN c.items) <= MaxEntries =>
                 DOMAIN d.items = DOMAIN c.items
<1> DEFINE d == enforceMaxEntries(c, MaxEntries)
           l == Len(c.order)
           fits(n) == n = l \/ Cardinality(Kept(c, n)) <= MaxEntries
           is(n) == fits(n) /\ \A m \in 0 .. n - 1 : ~fits(m)
           n == CHOOSE n \in 0 .. l : is(n)
<1>1. MaxEntries \in Nat /\ MaxEntries # 0 /\ l \in Nat
  BY DecideAssumption
<1>2. n \in 0 .. l /\ fits(n) /\ (fits(0) => n = 0)
  <2> DEFINE T == {m \in 0 .. l : fits(m)}
  <2>1. l \in T /\ T \in SUBSET Nat
    BY <1>1
  <2>2. PICK m \in T : \A x \in T : m <= x
    <3> HIDE DEF T
    <3> QED
      BY <2>1, LeastElement
  <2> HIDE DEF fits, l
  <2>3. ASSUME NEW x \in 0 .. m - 1 PROVE ~fits(x)
    <3>1. x \in 0 .. l /\ ~(m <= x)
      BY <1>1
    <3> QED
      BY <2>2, <3>1
  <2>4. m \in 0 .. l /\ is(m)
    BY <2>3
  <2> HIDE DEF is
  <2>5. n \in 0 .. l /\ is(n)
    BY <2>4
  <2> HIDE DEF n
  <2>6. n # 0 => 0 \in 0 .. n - 1
    BY <1>1, <2>5
  <2> QED
    BY <2>5, <2>6 DEF is
<1>3. /\ d.items = Restrict(c.items, Kept(c, n))
      /\ d.order = SubSeq(c.order, n + 1, l)
  BY <1>1 DEF enforceMaxEntries
<1> HIDE DEF n
<1>4. /\ DOMAIN d.items = Kept(c, n)
      /\ Kept(c, n) = DOMAIN c.items \ {c.order[i] : i \in 1 .. n}
      /\ \A k \in Kept(c, n) : d.items[k] = c.items[k]
  BY <1>3 DEF Restrict, Kept
<1>5. /\ d.order \in Seq(Package) /\ IsInjective(d.order)
      /\ Keys(d.order) = DOMAIN d.items
  <2>1. n \in 0 .. l
    BY <1>2
  <2> QED
    BY <1>3, <1>4, <2>1, DropFront
<1>6. IsFiniteSet(Kept(c, n))
  BY <1>4, FS_Subset
<1>7. Cardinality(Kept(c, n)) <= MaxEntries
  <2>1. CASE n = l
    <3>1. Kept(c, n) = {}
      BY <1>4, <2>1 DEF Keys
    <3> QED
      BY <1>1, <3>1, FS_EmptySet
  <2> QED
    BY <1>2, <2>1
<1>8. Cardinality(DOMAIN c.items) <= MaxEntries =>
        DOMAIN d.items = DOMAIN c.items
  <2>1. Kept(c, 0) = DOMAIN c.items
    BY DEF Kept
  <2> QED
    BY <1>2, <1>4, <2>1
<1> HIDE DEF d
<1> QED
  BY <1>4, <1>5, <1>6, <1>7, <1>8 DEF CacheOK, d

\* d is c with an entry added or overwritten, and others dropped if it does
\* not fit.
IsSet(d, c, key, value, expires) ==
  /\ CacheOK(d) /\ DOMAIN d.items \subseteq DOMAIN c.items \cup {key}
  /\ \A k \in DOMAIN d.items :
       IF k = key
         THEN d.items[k].value = value /\ d.items[k].expiresAt = expires
         ELSE d.items[k] = c.items[k]
  /\ Cardinality(DOMAIN c.items \cup {key}) <= MaxEntries =>
       DOMAIN d.items = DOMAIN c.items \cup {key}

\* That is what Set makes of a well-formed cache.
LEMMA SetFacts ==
  ASSUME NEW c, CacheOK(c), NEW key \in Package, NEW value,
         NEW ttl \in Nat \ {0}, NEW t
  PROVE  IsSet(Set(c, key, value, ttl, t, MaxEntries), c, key, value, t + ttl)
<1> DEFINE item == [value |-> value, expiresAt |-> t + ttl]
           items == [k \in DOMAIN c.items \cup {key} |->
                       IF k = key THEN item ELSE c.items[k]]
           order == IF key \in DOMAIN c.items THEN c.order
                    ELSE Append(c.order, key)
           e == [items |-> items, order |-> order]
           d == Set(c, key, value, ttl, t, MaxEntries)
<1>1. d = enforceMaxEntries(e, MaxEntries)
  BY SMTT(60) DEF Set
<1>2. /\ DOMAIN items = DOMAIN c.items \cup {key}
      /\ order \in Seq(Package) /\ IsInjective(order)
      /\ Keys(order) = DOMAIN c.items \cup {key}
  <2>1. CASE key \in DOMAIN c.items
    BY <2>1 DEF CacheOK
  <2>2. CASE key \notin DOMAIN c.items
    BY <2>2, AppendKey DEF CacheOK
  <2> QED
    BY <2>1, <2>2
<1>3. IsFiniteSet(DOMAIN items)
  BY <1>2, FS_AddElement DEF CacheOK
<1>4. /\ items[key].value = value /\ items[key].expiresAt = t + ttl
      /\ \A k \in DOMAIN c.items \ {key} : items[k] = c.items[k]
  OBVIOUS
<1> HIDE DEF items, order
<1>5. e.items = items /\ e.order = order
  OBVIOUS
<1> HIDE DEF e
<1>6. /\ CacheOK(d) /\ DOMAIN d.items \subseteq DOMAIN items
      /\ \A k \in DOMAIN d.items : d.items[k] = items[k]
      /\ Cardinality(DOMAIN items) <= MaxEntries =>
           DOMAIN d.items = DOMAIN items
  BY <1>1, <1>2, <1>3, <1>5, EnforceFacts
<1> HIDE DEF d
<1>7. IsSet(d, c, key, value, t + ttl)
  BY <1>2, <1>4, <1>6 DEF IsSet
<1> QED
  BY <1>7 DEF d

-----------------------------------------------------------------------------
(* The inductive invariant.                                                *)

Verdict == Verdicts \cup {"clean"}
Action == {"none", "allow", "monitor", "warn", "block"}
Reason == {"none", "policy", "metadata", "unknown", "rule", "intel",
           "intel_error", "release_error"}
Fetching == {"fetch", "answered", "keep"}
Phases == {"idle", "release", "query"} \cup Fetching

Types ==
  /\ now \in 1 .. MaxTime
  /\ feed \in [Package -> [verdict : Verdict, version : Nat, since : Nat]]
  /\ pc \in [Worker -> Phases] /\ pkg \in [Worker -> Package]
  /\ deadline \in [Worker -> Nat]
  /\ answer \in [Worker -> [verdict : Verdict, version : Nat]]
  /\ decision \in [Worker -> [action : Action, why : Reason]]

Caches ==
  /\ CacheOK(cache) /\ CacheOK(malicious) /\ CacheOK(release)
  /\ \A k \in DOMAIN malicious.items : malicious.items[k].value = "malicious"
  /\ \A k \in DOMAIN release.items : release.items[k].value = Published[k]

\* A fetch is within its timeout, and an answer that OSV has replaced by a
\* malicious one since was asked for before that.
FetchOK(w) ==
  /\ pc[w] \in Fetching =>
       now <= deadline[w] /\ deadline[w] <= now + Timeout
  /\ /\ pc[w] \in {"answered", "keep"} /\ answer[w].verdict # "malicious"
     /\ feed[pkg[w]].verdict = "malicious"
     => deadline[w] <= feed[pkg[w]].since + Timeout

\* A cached result expires, one that has been replaced in time.
EntryOK(k) ==
  k \in DOMAIN cache.items =>
    /\ cache.items[k].value \in Verdict
    /\ cache.items[k].expiresAt \in Nat \ {0}
    /\ cache.items[k].expiresAt <= now + TTL
    /\ feed[k].verdict = "malicious" /\ cache.items[k].value # "malicious" =>
         cache.items[k].expiresAt <= feed[k].since + Timeout + TTL

\* What the cooldown is about.
Cooling(p) ==
  CooldownEnabled /\ Rule[p] = "none" /\ Kind[p] \in {"artifact", "gomod"}
OldEnough(p) == now - Published[p] >= MinAge

\* A worker that queries OSV has the cooldown behind it.
CoolOK(w) ==
  pc[w] \in {"query"} \cup Fetching /\ Cooling(pkg[w]) => OldEnough(pkg[w])

IInv ==
  /\ Types /\ Caches
  /\ \A w \in Worker : FetchOK(w) /\ CoolOK(w)
  /\ \A k \in Package : EntryOK(k)

-----------------------------------------------------------------------------
(* Decisions.                                                              *)

\* What Decided leaves: the worker's decision, and everybody else's.
DecidedOK(w) ==
  /\ decision' \in [Worker -> [action : Action, why : Reason]]
  /\ \A v \in Worker \ {w} : decision'[v] = decision[v]

\* One decision is replaced.
LEMMA DecidedFacts ==
  ASSUME Types, NEW w \in Worker, NEW action \in Action, NEW why \in Reason,
         Decided(w, action, why)
  PROVE  /\ DecidedOK(w)
         /\ decision'[w].action = action /\ decision'[w].why = why
<1> DEFINE d == [action |-> action, why |-> why]
<1>1. d \in [action : Action, why : Reason] /\ d.action = action /\ d.why = why
  OBVIOUS
<1>2. decision' = [decision EXCEPT ![w] = d]
  BY DEF Decided
<1> HIDE DEF d
<1> QED
  BY <1>1, <1>2 DEF Types, DecidedOK

\* What Evaluate returns; under a rule, and under the cooldown.
LEMMA EvaluateFacts ==
  ASSUME NEW p \in Package, NEW published
  PROVE  /\ Evaluate(p, published) \in {"unknown", "block", "allow", "warn"}
         /\ Ruled(p) => Evaluate(p, published) \in {"allow", "warn"}
         /\ Kind[p] # "unidentified" /\ Rule[p] = "none" =>
              Evaluate(p, published) =
                IF CooldownEnabled /\ published # 0 /\ now - published < MinAge
                  THEN "block" ELSE "allow"
<1>1. Rule[p] \in {"none", "deny", "allow_exact", "allow_glob", "warn"}
  BY DecideAssumption
<1>2. CASE Kind[p] = "unidentified"
  BY <1>2 DEF Evaluate, Ruled
<1>3. CASE Kind[p] # "unidentified" /\ Rule[p] = "none"
  BY <1>3 DEF Evaluate, Ruled
<1>4. CASE Kind[p] # "unidentified" /\ Rule[p] # "none"
  BY <1>1, <1>4 DEF Evaluate, Ruled
<1> QED
  BY <1>2, <1>3, <1>4

\* What the switch on the policy's decision may do.
LEMMA SwitchFacts ==
  ASSUME Types, NEW w \in Worker, NEW from, NEW p \in Package, NEW published,
         Switch(w, from, p, published)
  PROVE  /\ DecidedOK(w) /\ pc[w] = from
         /\ \E to \in {"idle", "query"} : Go(w, from, to)
         /\ decision'[w].why \in {"none", "policy", "unknown", "rule"}
         /\ decision'[w].why = "rule" => Exempt(p)
         /\ Cooling(p) /\ published = Published[p] =>
              (Served(w)' \/ pc'[w] = "query" => OldEnough(p))
<1> DEFINE action == Evaluate(p, published)
<1>1. /\ {"policy", "unknown", "rule", "none"} \subseteq Reason
      /\ Ruled(p) => action \in {"allow", "warn"}
  BY EvaluateFacts DEF Reason
<1> DEFINE Does(to, a, why) ==
             /\ Go(w, from, to) /\ Decided(w, a, why)
             /\ why = "rule" => ExemptsMalware(p) \/ SkipVulnerabilityCheck(p)
             /\ action = "block" => to = "idle" /\ a = "block"
<1>2. PICK to \in {"idle", "query"}, a \in Action,
           why \in {"policy", "unknown", "rule", "none"} : Does(to, a, why)
  <2> DEFINE unknown == IF FailOpenUnknownPackage THEN "warn" ELSE "block"
  <2>1. \/ Does("idle", "block", "policy")
        \/ Does("idle", unknown, "unknown")
        \/ Does("idle", action, "rule") /\ action \in {"allow", "warn"}
        \/ Does("idle", "allow", "policy")
        \/ Does("query", "none", "none")
    BY <1>1 DEF Switch
  <2>2. /\ unknown \in Action
        /\ {"block", "allow", "warn", "none"} \subseteq Action
    BY DEF Action
  <2> HIDE DEF Does, unknown, action
  <2> QED
    BY <2>1, <2>2
<1>3. DecidedOK(w) /\ decision'[w].action = a /\ decision'[w].why = why
  BY <1>1, <1>2, DecidedFacts
<1>4. ASSUME Cooling(p), published = Published[p], ~OldEnough(p)
      PROVE  action = "block"
  <2>1. published \in Nat \ {0} /\ MinAge \in Nat /\ now \in Int
    BY <1>4, DecideAssumption DEF Types
  <2>2. now - published < MinAge
    BY <1>4, <2>1 DEF OldEnough
  <2> QED
    BY <1>4, <2>1, <2>2, EvaluateFacts DEF Cooling
<1>5. pc'[w] = to
  BY <1>2 DEF Go, Types
<1> HIDE DEF action
<1> QED
  BY <1>2, <1>3, <1>4, <1>5 DEF Go, Exempt, ExemptsMalware, Served

\* What is made of OSV's result: a malicious one is never served.
LEMMA ConcludeFacts ==
  ASSUME Types, NEW w \in Worker, NEW verdict \in Verdict \cup {"malicious"},
         Conclude(w, verdict)
  PROVE  /\ DecidedOK(w) /\ decision'[w].why \in {"intel", "rule"}
         /\ verdict = "malicious" => ~Served(w)'
<1>1. pkg[w] \in Package
  BY DEF Types
<1>2. Ruled(pkg[w]) => Evaluate(pkg[w], 0) \in {"allow", "warn"}
  BY <1>1, EvaluateFacts
<1>3. verdict \in {"clean", "minor", "severe", "malicious"}
  BY DecideAssumption DEF Verdict
<1>4. /\ IntelDecide(verdict) \in {"allow", "monitor", "warn", "block"}
      /\ verdict = "malicious" => IntelDecide(verdict) = "block"
  BY <1>3, DecideAssumption DEF IntelDecide
<1>5. PICK a \in Action, why \in {"intel", "rule"} :
        Decided(w, a, why) /\ (verdict = "malicious" => a = "block")
  BY <1>2, <1>4 DEF Conclude, Action
<1>6. why \in Reason
  BY DEF Reason
<1> QED
  BY <1>5, <1>6, DecidedFacts DEF Served

\* A lookup fails.
LEMMA FailedFacts ==
  ASSUME Types, NEW w \in Worker, NEW from, NEW why \in Reason,
         lookupFailed(w, from, why)
  PROVE  DecidedOK(w) /\ Go(w, from, "idle") /\ decision'[w].why = why
<1>1. PICK a \in Action : Decided(w, a, why) /\ Go(w, from, "idle")
  BY DEF lookupFailed, Action
<1> QED
  BY <1>1, DecidedFacts

\* A read leaves a cache as it is or without the expired entry.
LEMMA GetFacts ==
  ASSUME NEW c, NEW key, CacheOK(c)
  PROVE  LET d == AfterGet(c, key, now)
         IN /\ CacheOK(d) /\ DOMAIN d.items \subseteq DOMAIN c.items
            /\ \A k \in DOMAIN d.items : d.items[k] = c.items[k]
<1>1. CASE Live(c, key, now)
  BY <1>1 DEF AfterGet
<1>2. CASE ~Live(c, key, now)
  BY <1>2, DeleteFacts DEF AfterGet
<1> QED
  BY <1>1, <1>2

-----------------------------------------------------------------------------
(* Every step preserves the invariant.                                     *)

\* A step of one worker that leaves the others alone.
Only(w) ==
  /\ UNCHANGED feedVars /\ DecidedOK(w)
  /\ \E to \in Phases : pc' = [pc EXCEPT ![w] = to]
  /\ \E p \in Package : pkg' = [pkg EXCEPT ![w] = p]
  /\ \E d \in Nat : deadline' = [deadline EXCEPT ![w] = d]
  /\ \E a \in [verdict : Verdict, version : Nat] :
       answer' = [answer EXCEPT ![w] = a]

\* Nothing changes in a function that is given the value it has.
LEMMA Same ==
  ASSUME NEW S, NEW f \in [Worker -> S], NEW w \in Worker
  PROVE  \E x \in S : x = f[w] /\ f = [f EXCEPT ![w] = x]
  BY f[w] \in S

\* Of the workers only the one that moved needs a look.
LEMMA OnlyOne ==
  ASSUME IInv, NEW w \in Worker, Only(w), FetchOK(w)', CoolOK(w)'
  PROVE  Types' /\ \A v \in Worker : FetchOK(v)' /\ CoolOK(v)'
<1>1. Types'
  BY DEF Only, DecidedOK, IInv, Types, feedVars
<1>2. ASSUME NEW v \in Worker, v # w PROVE FetchOK(v)' /\ CoolOK(v)'
  <2>1. /\ pc'[v] = pc[v] /\ pkg'[v] = pkg[v] /\ deadline'[v] = deadline[v]
        /\ answer'[v] = answer[v] /\ feed' = feed /\ now' = now
    BY <1>2 DEF Only, IInv, Types, feedVars
  <2>2. FetchOK(v) /\ CoolOK(v)
    BY DEF IInv
  <2> QED
    BY <2>1, <2>2 DEF FetchOK, CoolOK, OldEnough
<1> QED
  BY <1>1, <1>2

\* The entries that stay in the cache stay in order.
LEMMA EntriesStay ==
  ASSUME IInv, UNCHANGED feedVars,
         DOMAIN cache'.items \subseteq DOMAIN cache.items,
         \A k \in DOMAIN cache'.items : cache'.items[k] = cache.items[k]
  PROVE  \A k \in Package : EntryOK(k)'
  BY DEF IInv, EntryOK, feedVars

\* Steps that touch no cache and lead to no fetch.
LEMMA BeginStep ==
  ASSUME IInv, NEW w \in Worker, NEW p \in Package, Begin(w, p)
  PROVE  IInv'
<1>0. Types /\ Caches
  BY DEF IInv
<1>1. /\ UNCHANGED <<feedVars, cacheVars, deadline, answer>>
      /\ pkg' = [pkg EXCEPT ![w] = p] /\ pkg'[w] = p
  BY <1>0 DEF Begin, Types
<1>2. DecidedOK(w) /\ \E to \in {"idle", "release", "query"} : Go(w, "idle", to)
  <2>1. CASE Kind[p] = "metadata"
    BY <1>0, <2>1, DecidedFacts DEF Begin, Action, Reason
  <2>2. CASE Kind[p] # "metadata" /\ NeedsPublishTime(p)
    BY <1>0, <2>2, DecidedFacts DEF Begin, Action, Reason
  <2>3. CASE Kind[p] # "metadata" /\ ~NeedsPublishTime(p)
    BY <1>0, <2>3, SwitchFacts DEF Begin
  <2> QED
    BY <2>1, <2>2, <2>3
<1>3. pc'[w] = "query" => ~Cooling(p)
  <2> SUFFICES ASSUME Cooling(p), pc'[w] = "query" PROVE FALSE
    OBVIOUS
  <2>1. NeedsPublishTime(p)
    BY EvaluateFacts DEF Cooling, NeedsPublishTime, Ruled
  <2> QED
    BY <1>0, <2>1 DEF Begin, Go, Cooling, Types
<1>4. pc'[w] \in {"idle", "release", "query"}
  BY <1>0, <1>2 DEF Go, Types
<1>5. Only(w)
  <2>1. \E d \in Nat : deadline' = [deadline EXCEPT ![w] = d]
    BY <1>0, <1>1, Same DEF Types
  <2>2. \E a \in [verdict : Verdict, version : Nat] :
          answer' = [answer EXCEPT ![w] = a]
    BY <1>0, <1>1, Same DEF Types
  <2> QED
    BY <1>1, <1>2, <2>1, <2>2 DEF Only, Go, Phases
<1>6. FetchOK(w)' /\ CoolOK(w)'
  BY <1>1, <1>3, <1>4 DEF FetchOK, CoolOK, Fetching
<1>7. Caches' /\ \A k \in Package : EntryOK(k)'
  BY <1>0, <1>1, EntriesStay DEF Caches, CacheOK, cacheVars
<1> QED
  BY <1>5, <1>6, <1>7, OnlyOne DEF IInv

\* What a step leaves alone it leaves as Only wants it.
LEMMA OnlyMoves ==
  ASSUME Types, NEW w \in Worker, NEW from, NEW to \in Phases,
         Go(w, from, to), UNCHANGED <<feedVars, pkg>>, DecidedOK(w),
         \/ UNCHANGED deadline
         \/ \E d \in Nat : deadline' = [deadline EXCEPT ![w] = d],
         \/ UNCHANGED answer
         \/ \E a \in [verdict : Verdict, version : Nat] :
              answer' = [answer EXCEPT ![w] = a]
  PROVE  Only(w) /\ pc[w] = from /\ pc'[w] = to /\ pkg'[w] = pkg[w]
<1>1. \E d \in Nat : deadline' = [deadline EXCEPT ![w] = d]
  BY Same DEF Types
<1>2. \E a \in [verdict : Verdict, version : Nat] :
        answer' = [answer EXCEPT ![w] = a]
  BY Same DEF Types
<1>3. \E p \in Package : pkg' = [pkg EXCEPT ![w] = p]
  BY Same DEF Types
<1> QED
  BY <1>1, <1>2, <1>3 DEF Only, Go, Types

\* The publish time is found in the cache or asked for.
LEMMA ReleaseStep ==
  ASSUME IInv, NEW w \in Worker,
         ReleaseHit(w) \/ ReleaseAnswered(w) \/ ReleaseFailed(w)
  PROVE  IInv'
<1> DEFINE p == pkg[w]
<1>0. Types /\ Caches /\ p \in Package
  BY DEF IInv, Types
<1>1. UNCHANGED <<feedVars, cache, malicious, pkg, deadline, answer>>
  BY DEF ReleaseHit, ReleaseAnswered, ReleaseFailed, cacheVars
<1>2. PICK to \in {"idle", "query"} :
        /\ Go(w, "release", to) /\ DecidedOK(w)
        /\ Cooling(p) /\ to = "query" => OldEnough(p)
  <2>1. CASE ReleaseHit(w)
    <3>1. p \in DOMAIN release.items /\ release.items[p].value = Published[p]
      BY <1>0, <2>1 DEF ReleaseHit, Live, Caches
    <3> QED
      BY <1>0, <2>1, <3>1, SwitchFacts DEF ReleaseHit, Go, Types
  <2>2. CASE ReleaseAnswered(w)
    <3>1. PICK found : /\ Switch(w, "release", p, found)
                       /\ Kind[p] # "static" => found = Published[p]
      BY <2>2 DEF ReleaseAnswered
    <3> QED
      BY <1>0, <3>1, SwitchFacts DEF Go, Types, Cooling
  <2>3. CASE ReleaseFailed(w)
    BY <1>0, <2>3, FailedFacts DEF ReleaseFailed, Reason
  <2> QED
    BY <2>1, <2>2, <2>3
<1>3. Only(w) /\ pc'[w] = to /\ pkg'[w] = p
  BY <1>0, <1>1, <1>2, OnlyMoves DEF Phases
<1>4. FetchOK(w)' /\ CoolOK(w)'
  BY <1>1, <1>2, <1>3 DEF FetchOK, CoolOK, OldEnough, Fetching, feedVars
<1>5. /\ CacheOK(release')
      /\ \A k \in DOMAIN release'.items : release'.items[k].value = Published[k]
  <2> DEFINE after == AfterGet(release, p, now)
             set == Set(after, p, Published[p], ReleaseTTL, now, MaxEntries)
  <2>1. \/ release' = release \/ release' = after \/ release' = set
    BY DEF ReleaseHit, ReleaseAnswered, ReleaseFailed, cacheVars
  <2>2. /\ CacheOK(after)
        /\ \A k \in DOMAIN after.items : after.items[k].value = Published[k]
    <3>1. /\ CacheOK(after) /\ DOMAIN after.items \subseteq DOMAIN release.items
          /\ \A k \in DOMAIN after.items : after.items[k] = release.items[k]
      BY <1>0, GetFacts DEF Caches
    <3> HIDE DEF after
    <3> QED
      BY <1>0, <3>1 DEF Caches
  <2> HIDE DEF after
  <2>3. ReleaseTTL \in Nat \ {0}
    BY DecideAssumption
  <2>4. /\ CacheOK(set)
        /\ \A k \in DOMAIN set.items : set.items[k].value = Published[k]
    <3>1. IsSet(set, after, p, Published[p], now + ReleaseTTL)
      BY <1>0, <2>2, <2>3, SetFacts
    <3> HIDE DEF set
    <3> QED
      BY <2>2, <3>1 DEF IsSet
  <2> HIDE DEF set
  <2> QED
    BY <1>0, <2>1, <2>2, <2>4 DEF Caches
<1>6. Caches'
  BY <1>0, <1>1, <1>5 DEF Caches, CacheOK
<1>7. \A k \in Package : EntryOK(k)'
  BY <1>1, EntriesStay
<1> QED
  BY <1>3, <1>4, <1>6, <1>7, OnlyOne DEF IInv

\* A result is found in the cache, or a fetch begins.
LEMMA QueryStep ==
  ASSUME IInv, NEW w \in Worker,
         QueryUnlisted(w) \/ QueryHit(w) \/ QueryMiss(w)
  PROVE  IInv'
<1> DEFINE p == pkg[w]
<1>0. Types /\ Caches /\ p \in Package /\ FetchOK(w) /\ CoolOK(w) /\ EntryOK(p)
  BY DEF IInv, Types
<1>1. UNCHANGED <<feedVars, malicious, release, pkg, answer>> /\ pc[w] = "query"
  BY DEF QueryUnlisted, QueryHit, QueryMiss, cacheVars, Go
<1>2. CASE QueryUnlisted(w) \/ QueryHit(w)
  <2>1. Go(w, "query", "idle") /\ UNCHANGED <<cache, deadline>>
    BY <1>2 DEF QueryUnlisted, QueryHit, cacheVars
  <2>2. \E v \in Verdict \cup {"malicious"} : Conclude(w, v)
    BY <1>0, <1>2 DEF QueryUnlisted, QueryHit, Live, EntryOK, Verdict
  <2>3. DecidedOK(w)
    BY <1>0, <2>2, ConcludeFacts
  <2>4. Only(w) /\ pc'[w] = "idle"
    BY <1>0, <1>1, <2>1, <2>3, OnlyMoves DEF Phases
  <2>5. FetchOK(w)' /\ CoolOK(w)'
    BY <2>4 DEF FetchOK, CoolOK, Fetching
  <2>6. Caches' /\ \A k \in Package : EntryOK(k)'
    BY <1>0, <1>1, <2>1, EntriesStay DEF Caches, CacheOK
  <2> QED
    BY <2>4, <2>5, <2>6, OnlyOne DEF IInv
<1>3. CASE QueryMiss(w)
  <2>1. /\ Go(w, "query", "fetch") /\ cache' = AfterGet(cache, p, now)
        /\ deadline' = [deadline EXCEPT ![w] = now + Timeout]
        /\ decision' = decision
    BY <1>3 DEF QueryMiss
  <2>2. now + Timeout \in Nat /\ now \in Nat /\ Timeout \in Nat
    BY <1>0, DecideAssumption DEF Types
  <2>3. DecidedOK(w)
    BY <1>0, <2>1 DEF DecidedOK, Types
  <2>4. Only(w) /\ pc'[w] = "fetch" /\ pkg'[w] = p
    BY <1>0, <1>1, <2>1, <2>2, <2>3, OnlyMoves DEF Phases, Fetching
  <2>5. deadline'[w] = now + Timeout /\ now' = now
    BY <1>0, <1>1, <2>1 DEF Types, feedVars
  <2>6. FetchOK(w)'
    BY <2>2, <2>4, <2>5 DEF FetchOK
  <2>7. CoolOK(w)'
    BY <1>0, <1>1, <2>4, <2>5 DEF CoolOK, OldEnough
  <2>8. /\ CacheOK(cache') /\ DOMAIN cache'.items \subseteq DOMAIN cache.items
        /\ \A k \in DOMAIN cache'.items : cache'.items[k] = cache.items[k]
    BY <1>0, <2>1, GetFacts DEF Caches
  <2>9. Caches' /\ \A k \in Package : EntryOK(k)'
    BY <1>0, <1>1, <2>8, EntriesStay DEF Caches, CacheOK
  <2> QED
    BY <2>4, <2>6, <2>7, <2>9, OnlyOne DEF IInv
<1> QED
  BY <1>2, <1>3

\* OSV's answer is in, or the fetch failed.
LEMMA FetchStep ==
  ASSUME IInv, NEW w \in Worker, FetchAnswered(w) \/ FetchFailed(w)
  PROVE  IInv'
<1> DEFINE p == pkg[w]
<1>0. /\ Types /\ Caches /\ p \in Package /\ FetchOK(w) /\ CoolOK(w)
      /\ now \in Nat
  BY DEF IInv, Types
<1>1. UNCHANGED <<feedVars, cache, release, pkg>>
  BY DEF FetchAnswered, FetchFailed, cacheVars
<1>2. \A k \in Package : EntryOK(k)'
  BY <1>1, EntriesStay
<1>3. CASE FetchAnswered(w)
  <2> DEFINE a == [verdict |-> feed[p].verdict, version |-> feed[p].version]
  <2>1. /\ Go(w, "fetch", "answered") /\ answer' = [answer EXCEPT ![w] = a]
        /\ UNCHANGED <<malicious, deadline, decision>>
    BY <1>3 DEF FetchAnswered, cacheVars
  <2>2. /\ a \in [verdict : Verdict, version : Nat]
        /\ a.verdict = feed[p].verdict
    BY <1>0 DEF Types
  <2> HIDE DEF a
  <2>3. DecidedOK(w)
    BY <1>0, <2>1 DEF DecidedOK, Types
  <2>4. Only(w) /\ pc[w] = "fetch" /\ pc'[w] = "answered" /\ pkg'[w] = p
    BY <1>0, <1>1, <2>1, <2>2, <2>3, OnlyMoves DEF Phases, Fetching
  <2>5. /\ answer'[w] = a /\ deadline'[w] = deadline[w]
        /\ feed' = feed /\ now' = now
    BY <1>0, <1>1, <2>1 DEF Types, feedVars
  <2>6. FetchOK(w)'
    BY <1>0, <2>2, <2>4, <2>5 DEF FetchOK, Fetching
  <2>7. CoolOK(w)'
    BY <1>0, <2>4, <2>5 DEF CoolOK, OldEnough, Fetching
  <2>8. Caches'
    BY <1>0, <1>1, <2>1 DEF Caches, CacheOK
  <2> QED
    BY <1>2, <2>4, <2>6, <2>7, <2>8, OnlyOne DEF IInv
<1>4. CASE FetchFailed(w)
  <2>1. /\ malicious' = AfterGet(malicious, p, now)
        /\ answer' = [answer EXCEPT ![w] = NoAnswer]
        /\ deadline' = [deadline EXCEPT ![w] = 0]
    BY <1>4 DEF FetchFailed
  <2>2. PICK from : Go(w, from, "idle") /\ DecidedOK(w)
    <3>1. CASE Live(malicious, p, now)
      <4>1. malicious.items[p].value = "malicious"
        BY <1>0, <3>1 DEF Live, Caches
      <4> QED
        BY <1>0, <1>4, <3>1, <4>1, ConcludeFacts DEF FetchFailed
    <3>2. CASE ~Live(malicious, p, now)
      <4>1. "intel_error" \in Reason
        BY DEF Reason
      <4> QED
        BY <1>0, <1>4, <3>2, <4>1, FailedFacts DEF FetchFailed
    <3> QED
      BY <3>1, <3>2
  <2>3. NoAnswer \in [verdict : Verdict, version : Nat]
    BY DEF NoAnswer, Verdict
  <2>4. Only(w) /\ pc'[w] = "idle"
    BY <1>0, <1>1, <2>1, <2>2, <2>3, OnlyMoves DEF Phases
  <2>5. FetchOK(w)' /\ CoolOK(w)'
    BY <2>4 DEF FetchOK, CoolOK, Fetching
  <2>6. /\ CacheOK(malicious')
        /\ DOMAIN malicious'.items \subseteq DOMAIN malicious.items
        /\ \A k \in DOMAIN malicious'.items :
             malicious'.items[k] = malicious.items[k]
    BY <1>0, <2>1, GetFacts DEF Caches
  <2>7. Caches'
    BY <1>0, <1>1, <2>6 DEF Caches, CacheOK
  <2> QED
    BY <1>2, <2>4, <2>5, <2>7, OnlyOne DEF IInv
<1> QED
  BY <1>3, <1>4

\* The answer goes into one cache and then into or out of the other.
LEMMA KeepStep ==
  ASSUME IInv, NEW w \in Worker, StoreResult(w) \/ KeepMalicious(w)
  PROVE  IInv'
<1> DEFINE p == pkg[w]
           v == answer[w].verdict
<1>0. /\ Types /\ Caches /\ p \in Package /\ FetchOK(w) /\ CoolOK(w)
      /\ now \in Nat /\ v \in Verdict /\ feed[p].since \in Nat
      /\ deadline[w] \in Nat
  BY DEF IInv, Types
<1>1. UNCHANGED <<feedVars, release, pkg>>
  BY DEF StoreResult, KeepMalicious
<1>2. {TTL, Retention, Timeout} \subseteq Nat \ {0}
  BY DecideAssumption
<1>3. CASE StoreResult(w)
  <2>1. /\ Go(w, "answered", "keep")
        /\ cache' = Set(cache, p, v, TTL, now, MaxEntries)
        /\ UNCHANGED <<malicious, deadline, answer, decision>>
    BY <1>3 DEF StoreResult
  <2>2. DecidedOK(w)
    BY <1>0, <2>1 DEF DecidedOK, Types
  <2>3. Only(w) /\ pc[w] = "answered" /\ pc'[w] = "keep" /\ pkg'[w] = p
    BY <1>0, <1>1, <2>1, <2>2, OnlyMoves DEF Phases, Fetching
  <2>4. FetchOK(w)'
    BY <1>0, <1>1, <2>1, <2>3 DEF FetchOK, Fetching, feedVars
  <2>5. CoolOK(w)'
    BY <1>0, <1>1, <2>3 DEF CoolOK, OldEnough, Fetching, feedVars
  <2>6. IsSet(cache', cache, p, v, now + TTL)
    BY <1>0, <1>2, <2>1, SetFacts DEF Caches
  <2>7. Caches'
    BY <1>0, <1>1, <2>1, <2>6 DEF Caches, CacheOK, IsSet
  <2>8. feed[p].verdict = "malicious" /\ v # "malicious" =>
          now <= feed[p].since + Timeout
    BY <1>0, <1>2, <2>3 DEF FetchOK, Fetching
  <2>9. ASSUME NEW k \in Package PROVE EntryOK(k)'
    <3>1. UNCHANGED <<feed, now>>
      BY <1>1 DEF feedVars
    <3>2. CASE k # p
      <4>1. EntryOK(k)
        BY DEF IInv
      <4>2. k \in DOMAIN cache'.items =>
              k \in DOMAIN cache.items /\ cache'.items[k] = cache.items[k]
        BY <2>6, <3>2 DEF IsSet
      <4> QED
        BY <3>1, <4>1, <4>2 DEF EntryOK
    <3>3. CASE k = p
      <4>1. k \in DOMAIN cache'.items =>
              /\ cache'.items[k].value = v
              /\ cache'.items[k].expiresAt = now + TTL
        BY <2>6, <3>3 DEF IsSet
      <4>2. /\ now + TTL \in Nat \ {0}
            /\ feed[p].verdict = "malicious" /\ v # "malicious" =>
                 now + TTL <= feed[p].since + Timeout + TTL
        BY <1>0, <1>2, <2>8
      <4> HIDE DEF p, v
      <4> QED
        BY <1>0, <3>1, <3>3, <4>1, <4>2 DEF EntryOK
    <3> QED
      BY <3>2, <3>3
  <2> QED
    BY <2>3, <2>4, <2>5, <2>7, <2>9, OnlyOne DEF IInv
<1>4. CASE KeepMalicious(w)
  <2> DEFINE set == Set(malicious, p, "malicious", Retention, now, MaxEntries)
             gone == delete(malicious, p)
  <2>1. /\ Go(w, "keep", "idle") /\ Conclude(w, v) /\ cache' = cache
        /\ malicious' = set \/ malicious' = gone
        /\ answer' = [answer EXCEPT ![w] = NoAnswer]
        /\ deadline' = [deadline EXCEPT ![w] = 0]
    BY <1>4 DEF KeepMalicious
  <2>2. DecidedOK(w)
    BY <1>0, <2>1, ConcludeFacts
  <2>3. NoAnswer \in [verdict : Verdict, version : Nat]
    BY DEF NoAnswer, Verdict
  <2>4. Only(w) /\ pc'[w] = "idle"
    BY <1>0, <1>1, <2>1, <2>2, <2>3, OnlyMoves DEF Phases
  <2>5. FetchOK(w)' /\ CoolOK(w)'
    BY <2>4 DEF FetchOK, CoolOK, Fetching
  <2>6. IsSet(set, malicious, p, "malicious", now + Retention)
    BY <1>0, <1>2, SetFacts DEF Caches
  <2>7. /\ CacheOK(gone) /\ DOMAIN gone.items = DOMAIN malicious.items \ {p}
        /\ \A k \in DOMAIN malicious.items \ {p} :
             gone.items[k] = malicious.items[k]
    BY <1>0, DeleteFacts DEF Caches
  <2> HIDE DEF set, gone
  <2>8. /\ CacheOK(malicious')
        /\ \A k \in DOMAIN malicious'.items :
             malicious'.items[k].value = "malicious"
    BY <1>0, <2>1, <2>6, <2>7 DEF Caches, IsSet
  <2>9. Caches'
    BY <1>0, <1>1, <2>1, <2>8 DEF Caches, CacheOK
  <2>10. \A k \in Package : EntryOK(k)'
    BY <1>1, <2>1, EntriesStay
  <2> QED
    BY <2>4, <2>5, <2>9, <2>10, OnlyOne DEF IInv
<1> QED
  BY <1>3, <1>4

\* OSV changes its mind: what was asked for by now is late from now on.
LEMMA FeedStep ==
  ASSUME IInv, NEW p \in Package, NEW v \in Verdicts, FeedChanges(p, v)
  PROVE  IInv'
<1>0. Types /\ Caches /\ now \in Nat
  BY DEF IInv, Types
<1>1. UNCHANGED <<now, cacheVars, pc, pkg, deadline, answer, decision>>
  BY DEF FeedChanges
<1>2. /\ feed' \in [Package -> [verdict : Verdict, version : Nat, since : Nat]]
      /\ feed'[p].since = now
      /\ \A q \in Package \ {p} : feed'[q] = feed[q]
  <2> DEFINE f == [verdict |-> v, version |-> feed[p].version + 1,
                   since |-> now]
  <2>1. feed' = [feed EXCEPT ![p] = f]
    BY DEF FeedChanges
  <2>2. /\ f \in [verdict : Verdict, version : Nat, since : Nat]
        /\ f.since = now
    BY <1>0 DEF Types, Verdict
  <2> HIDE DEF f
  <2> QED
    BY <1>0, <2>1, <2>2 DEF Types
<1>3. Types' /\ Caches'
  BY <1>0, <1>1, <1>2 DEF Types, Caches, CacheOK, cacheVars
<1>4. ASSUME NEW w \in Worker PROVE FetchOK(w)' /\ CoolOK(w)'
  <2>1. FetchOK(w) /\ CoolOK(w) /\ pkg[w] \in Package
    BY <1>0 DEF IInv, Types
  <2>2. CASE pkg[w] = p
    BY <1>1, <1>2, <2>1, <2>2 DEF FetchOK, CoolOK, OldEnough, Fetching
  <2>3. CASE pkg[w] # p
    BY <1>1, <1>2, <2>1, <2>3 DEF FetchOK, CoolOK, OldEnough, Fetching
  <2> QED
    BY <2>2, <2>3
<1>5. ASSUME NEW k \in Package PROVE EntryOK(k)'
  <2>1. EntryOK(k) /\ cache' = cache
    BY <1>1 DEF IInv, cacheVars
  <2>2. TTL \in Nat /\ Timeout \in Nat
    BY DecideAssumption
  <2>3. CASE k = p
    BY <1>0, <1>1, <1>2, <2>1, <2>2, <2>3 DEF EntryOK
  <2>4. CASE k # p
    BY <1>1, <1>2, <2>1, <2>4 DEF EntryOK
  <2> QED
    BY <2>3, <2>4
<1> QED
  BY <1>3, <1>4, <1>5 DEF IInv

\* Time passes, but no fetch's deadline.
LEMMA TickStep == ASSUME IInv, Tick PROVE IInv'
<1>0. Types /\ Caches /\ now \in Nat /\ MaxTime \in Nat
  BY DecideAssumption DEF IInv, Types
<1>1. /\ UNCHANGED <<feed, cacheVars, pc, pkg, deadline, answer, decision>>
      /\ now' = now + 1 /\ now < MaxTime
      /\ \A w \in Worker : pc[w] \in Fetching => now < deadline[w]
  BY DEF Tick, Fetching
<1>2. Types' /\ Caches'
  BY <1>0, <1>1 DEF Types, Caches, CacheOK, cacheVars
<1>3. ASSUME NEW w \in Worker PROVE FetchOK(w)' /\ CoolOK(w)'
  <2>1. /\ FetchOK(w) /\ CoolOK(w) /\ deadline[w] \in Nat
        /\ Published[pkg[w]] \in Nat
    BY <1>0, DecideAssumption DEF IInv, Types
  <2>2. Timeout \in Nat /\ MinAge \in Nat
    BY DecideAssumption
  <2> QED
    BY <1>0, <1>1, <2>1, <2>2 DEF FetchOK, CoolOK, OldEnough
<1>4. ASSUME NEW k \in Package PROVE EntryOK(k)'
  <2>1. EntryOK(k) /\ cache' = cache
    BY <1>1 DEF IInv, cacheVars
  <2>2. TTL \in Nat
    BY DecideAssumption
  <2> QED
    BY <1>0, <1>1, <2>1, <2>2 DEF EntryOK
<1> QED
  BY <1>2, <1>3, <1>4 DEF IInv

\* Every step preserves the invariant.
LEMMA IInvStep == IInv /\ [Next]_vars => IInv'
<1> SUFFICES ASSUME IInv, [Next]_vars PROVE IInv'
  OBVIOUS
<1>1. CASE UNCHANGED vars
  BY <1>1 DEF vars, feedVars, cacheVars, IInv, Types, Caches, CacheOK, FetchOK,
     CoolOK, EntryOK, OldEnough
<1>2. CASE Next
  BY <1>2, BeginStep, ReleaseStep, QueryStep, FetchStep, KeepStep, FeedStep,
     TickStep DEF Next, Step
<1> QED
  BY <1>1, <1>2

\* An empty cache is well-formed.
LEMMA IInvInit == Init => IInv
<1> SUFFICES ASSUME Init PROVE IInv
  OBVIOUS
<1>1. DOMAIN Empty.items = {} /\ Empty.order = <<>>
  BY DEF Empty
<1>2. CacheOK(Empty)
  <2>1. MaxEntries \in Nat
    BY DecideAssumption
  <2> QED
    BY <1>1, <2>1, FS_EmptySet DEF CacheOK, Keys, IsInjective
<1>3. Types
  <2>1. (CHOOSE p \in Package : TRUE) \in Package /\ 1 \in 1 .. MaxTime
    BY DecideAssumption
  <2> QED
    BY <2>1 DEF Init, Types, Verdict, NoAnswer, Undecided, Action, Reason,
       Phases
<1>4. Caches /\ \A k \in Package : EntryOK(k)
  BY <1>1, <1>2 DEF Init, Caches, EntryOK
<1>5. \A w \in Worker : FetchOK(w) /\ CoolOK(w)
  BY DEF Init, FetchOK, CoolOK, Fetching
<1> QED
  BY <1>3, <1>4, <1>5 DEF IInv

-----------------------------------------------------------------------------
(* The theorems.                                                           *)

\* CachesWellFormed: however sets, expiries, deletions and evictions of
\* concurrent queries interleave, the list and the map of each of the caches
\* agree, no cache exceeds its bound, and each holds only values of its own.
THEOREM CachesKept == Spec => []CachesWellFormed
<1>1. IInv => CachesWellFormed
  <2> SUFFICES ASSUME IInv PROVE CachesWellFormed
    OBVIOUS
  <2>1. TypeOK
    <3>1. DOMAIN cache.items \subseteq Package
      BY DEF IInv, Caches, CacheOK, Keys
    <3> QED
      BY <3>1 DEF IInv, Types, Caches, EntryOK, TypeOK, Verdict, Phases,
         Fetching, Action
  <2>2. ASSUME NEW c, CacheOK(c) PROVE WellFormed(c, MaxEntries)
    BY <2>2 DEF CacheOK, WellFormed, Keys
  <2> QED
    BY <2>1, <2>2 DEF IInv, Caches, CachesWellFormed
<1> QED
  BY <1>1, IInvInit, IInvStep, PTL DEF Spec

\* A step that decides for a worker is a step of that worker.
LEMMA WhoDecides ==
  ASSUME IInv, [Next]_vars, NEW w \in Worker, NewlyServed(w)
  PROVE  Step(w) \/ \E p \in Package : Begin(w, p)
<1>1. decision'[w] # decision[w]
  BY DEF NewlyServed, Served
<1>2. ASSUME NEW v \in Worker, v # w,
             Step(v) \/ \E p \in Package : Begin(v, p)
      PROVE  decision'[w] = decision[w]
  <2>1. Types
    BY DEF IInv
  <2>2. decision' = decision \/ \E d : decision' = [decision EXCEPT ![v] = d]
    BY <1>2 DEF Step, Begin, ReleaseHit, ReleaseAnswered, ReleaseFailed,
       QueryUnlisted, QueryHit, QueryMiss, FetchAnswered, FetchFailed,
       StoreResult, KeepMalicious, Switch, Conclude, lookupFailed, Decided
  <2> QED
    BY <1>2, <2>1, <2>2 DEF Types
<1> QED
  BY <1>1, <1>2 DEF Next, FeedChanges, Tick, vars

\* A malicious package is served on OSV's word only while an answer from
\* before its verdict may still be under way or cached.
LEMMA ServedInTime ==
  ASSUME IInv, [Next]_vars, NEW w \in Worker, NewlyServed(w),
         decision'[w].why \in {"intel", "rule"},
         feed[pkg'[w]].verdict = "malicious", ~Exempt(pkg'[w]),
         Kind[pkg'[w]] = "artifact"
  PROVE  now - feed[pkg'[w]].since <= TTL + Timeout
<1>0. /\ Types /\ Caches /\ now \in Nat /\ pkg[w] \in Package
      /\ feed[pkg[w]].since \in Nat /\ deadline[w] \in Nat
      /\ answer[w].verdict \in Verdict
      /\ FetchOK(w) /\ EntryOK(pkg[w]) /\ Served(w)'
  BY DEF IInv, Types, NewlyServed
<1>1. TTL \in Nat /\ Timeout \in Nat
  BY DecideAssumption
<1>2. ASSUME NEW p \in Package, Begin(w, p) PROVE FALSE
  <2>1. pkg'[w] = p
    BY <1>0, <1>2 DEF Begin, Types
  <2>2. CASE Kind[p] # "metadata" /\ NeedsPublishTime(p)
    BY <1>0, <1>2, <2>2, DecidedFacts DEF Begin, Action, Reason
  <2>3. CASE Kind[p] # "metadata" /\ ~NeedsPublishTime(p)
    BY <1>0, <1>2, <2>1, <2>3, SwitchFacts, ZenonT(60) DEF Begin
  <2> QED
    BY <2>1, <2>2, <2>3
<1>3. CASE ReleaseHit(w) \/ ReleaseAnswered(w)
  <2>1. pkg' = pkg /\ \E found : Switch(w, "release", pkg[w], found)
    BY <1>3 DEF ReleaseHit, ReleaseAnswered
  <2> QED
    BY <1>0, <2>1, SwitchFacts
<1>4. CASE ReleaseFailed(w)
  <2>1. "release_error" \in Reason
    BY DEF Reason
  <2> QED
    BY <1>0, <1>4, <2>1, FailedFacts DEF ReleaseFailed
<1>5. CASE QueryHit(w)
  <2>1. /\ pkg' = pkg /\ pkg[w] \in DOMAIN cache.items
        /\ Live(cache, pkg[w], now)
        /\ Conclude(w, cache.items[pkg[w]].value)
    BY <1>5 DEF QueryHit, Live
  <2>2. cache.items[pkg[w]].value \in Verdict
    BY <1>0, <2>1 DEF EntryOK
  <2>3. cache.items[pkg[w]].value # "malicious"
    BY <1>0, <2>1, <2>2, ConcludeFacts
  <2> QED
    BY <1>0, <1>1, <2>1, <2>3 DEF EntryOK, Live
<1>6. CASE FetchFailed(w)
  <2>1. CASE Live(malicious, pkg[w], now)
    <3>1. Conclude(w, "malicious")
      BY <1>0, <1>6, <2>1 DEF FetchFailed, Live, Caches
    <3> QED
      BY <1>0, <3>1, ConcludeFacts
  <2>2. CASE ~Live(malicious, pkg[w], now)
    <3>1. "intel_error" \in Reason
      BY DEF Reason
    <3> QED
      BY <1>0, <1>6, <2>2, <3>1, FailedFacts DEF FetchFailed
  <2> QED
    BY <2>1, <2>2
<1>7. CASE KeepMalicious(w)
  <2>1. pkg' = pkg /\ pc[w] = "keep" /\ Conclude(w, answer[w].verdict)
    BY <1>7 DEF KeepMalicious, Go
  <2>2. answer[w].verdict # "malicious"
    BY <1>0, <2>1, ConcludeFacts
  <2> QED
    BY <1>0, <1>1, <2>1, <2>2 DEF FetchOK, Fetching
<1>8. CASE QueryMiss(w) \/ FetchAnswered(w) \/ StoreResult(w)
  BY <1>8 DEF QueryMiss, FetchAnswered, StoreResult, NewlyServed, Served
<1>9. CASE QueryUnlisted(w)
  BY <1>9 DEF QueryUnlisted
<1> QED
  BY <1>2, <1>3, <1>4, <1>5, <1>6, <1>7, <1>8, <1>9, WhoDecides DEF Step

\* MalwareBlocked: once OSV has held a package malicious for longer than the
\* cache TTL and one fetch, no rule but an exact allow rule gets it served,
\* whichever queries were under way when its verdict changed.
THEOREM MalwareKeptOut == Spec => MalwareBlocked
<1>1. IInv /\ [Next]_vars =>
        [ \A w \in Worker :
            LET p == pkg'[w] IN
              /\ NewlyServed(w) /\ decision'[w].why \in {"intel", "rule"}
              /\ feed[p].verdict = "malicious" /\ ~Exempt(p)
              /\ Kind[p] = "artifact"
              => now - feed[p].since <= TTL + Timeout ]_vars
  BY ServedInTime
<1> QED
  BY <1>1, IInvInit, IInvStep, PTL DEF Spec, MalwareBlocked

\* A package in its cooldown is served only when its publish time is not to
\* be had.
LEMMA ServedCooled ==
  ASSUME IInv, [Next]_vars, NEW w \in Worker, NewlyServed(w),
         decision'[w].why # "release_error", Cooling(pkg'[w])
  PROVE  OldEnough(pkg'[w])
<1>0. /\ Types /\ Caches /\ pkg[w] \in Package /\ CoolOK(w) /\ Served(w)'
  BY DEF IInv, Types, NewlyServed
<1>1. ASSUME NEW p \in Package, Begin(w, p) PROVE FALSE
  <2>1. pkg'[w] = p
    BY <1>0, <1>1 DEF Begin, Types
  <2>2. NeedsPublishTime(p) /\ Kind[p] # "metadata"
    BY <2>1, EvaluateFacts DEF Cooling, NeedsPublishTime, Ruled
  <2>3. Decided(w, "none", "none")
    BY <1>1, <2>2 DEF Begin
  <2> QED
    BY <1>0, <2>3, DecidedFacts DEF Action, Reason, Served
<1>2. CASE ReleaseHit(w)
  <2>1. pkg' = pkg /\ Switch(w, "release", pkg[w], Published[pkg[w]])
    BY <1>0, <1>2 DEF ReleaseHit, Live, Caches
  <2> QED
    BY <1>0, <2>1, SwitchFacts
<1>3. CASE ReleaseAnswered(w)
  <2>1. pkg' = pkg /\ Switch(w, "release", pkg[w], Published[pkg[w]])
    BY <1>0, <1>3 DEF ReleaseAnswered, Cooling
  <2> QED
    BY <1>0, <2>1, SwitchFacts
<1>4. CASE ReleaseFailed(w)
  <2>1. "release_error" \in Reason
    BY DEF Reason
  <2> QED
    BY <1>0, <1>4, <2>1, FailedFacts DEF ReleaseFailed
<1>5. CASE \/ QueryUnlisted(w) \/ QueryHit(w) \/ QueryMiss(w)
           \/ FetchAnswered(w) \/ FetchFailed(w) \/ StoreResult(w)
           \/ KeepMalicious(w)
  <2>1. pkg' = pkg /\ pc[w] \in {"query"} \cup Fetching
    BY <1>5 DEF QueryUnlisted, QueryHit, QueryMiss, FetchAnswered, FetchFailed,
       StoreResult, KeepMalicious, lookupFailed, Go, Fetching
  <2> QED
    BY <1>0, <2>1 DEF CoolOK
<1> QED
  BY <1>1, <1>2, <1>3, <1>4, <1>5, WhoDecides DEF Step

\* CooldownHeld: with the cooldown enabled, a package no rule matches is
\* served only once it is min_age old or, failing open, when its publish time
\* cannot be looked up.
THEOREM CooldownKept == Spec => CooldownHeld
<1>1. IInv /\ [Next]_vars =>
        [ \A w \in Worker :
            LET p == pkg'[w] IN
              /\ NewlyServed(w) /\ decision'[w].why \notin {"release_error"}
              /\ CooldownEnabled /\ Rule[p] = "none"
              /\ Kind[p] \in {"artifact", "gomod"}
              => now - Published[p] >= MinAge ]_vars
  BY ServedCooled DEF Cooling, OldEnough
<1> QED
  BY <1>1, IInvInit, IInvStep, PTL DEF Spec, CooldownHeld

-----------------------------------------------------------------------------
(* What is known to be malicious stays blocked.  Two queries for one       *)
(* package may store their answers in the wrong order (the run             *)
(* decide_race), and more malicious packages than the memory has room for  *)
(* push one another out.  These are the only two ways to forget one.       *)

\* Packages that OSV is asked about and may call malicious.
Suspects ==
  {p \in Package :
     Kind[p] = "artifact" /\ Rule[p] \notin {"deny", "allow_exact"}}

\* No two answers about one package are under way at once.
Alone ==
  \A v, w \in Worker :
    /\ pc[v] \in {"answered", "keep"} /\ pc[w] \in {"answered", "keep"}
    /\ pkg[v] = pkg[w]
    => v = w

\* An answer in hand is not older than the last one told.
AnswerOK(w) ==
  pc[w] \in {"answered", "keep"} =>
    /\ told[pkg[w]].version <= answer[w].version
    /\ answer[w].version <= feed[pkg[w]].version
    /\ answer[w].verdict = "malicious" => pkg[w] \in Suspects

\* What was told malicious is remembered for the retention.
Remembered(p) ==
  told[p].verdict = "malicious" /\ now <= told[p].at + Retention =>
    /\ p \in DOMAIN malicious.items
    /\ malicious.items[p].expiresAt = told[p].at + Retention

FeedOK(p) ==
  /\ told[p].version <= feed[p].version
  /\ feed[p].verdict = "malicious" => p \in Suspects

KnownInv ==
  /\ told \in [Package -> [verdict : Verdict, version : Nat, at : Nat]]
  /\ DOMAIN malicious.items \subseteq Suspects
  /\ \A p \in Package : FeedOK(p) /\ Remembered(p)
  /\ \A w \in Worker : AnswerOK(w)

\* A step of one worker, as the others see it.
Apart(w) ==
  /\ UNCHANGED <<feed, now>>
  /\ \A v \in Worker \ {w} :
       pc'[v] = pc[v] /\ pkg'[v] = pkg[v] /\ answer'[v] = answer[v]

\* Workers share the caches and nothing else.
LEMMA StepsApart ==
  ASSUME Types, NEW w \in Worker, Step(w) \/ \E p \in Package : Begin(w, p)
  PROVE  Apart(w)
<1>1. UNCHANGED <<feed, now>>
  BY DEF Step, Begin, ReleaseHit, ReleaseAnswered, ReleaseFailed,
     QueryUnlisted, QueryHit, QueryMiss, FetchAnswered, FetchFailed,
     StoreResult, KeepMalicious, feedVars
<1>2. \E to : pc' = [pc EXCEPT ![w] = to]
  BY DEF Step, Begin, ReleaseHit, ReleaseAnswered, ReleaseFailed,
     QueryUnlisted, QueryHit, QueryMiss, FetchAnswered, FetchFailed,
     StoreResult, KeepMalicious, Switch, lookupFailed, Go
<1>3. pkg' = pkg \/ \E p : pkg' = [pkg EXCEPT ![w] = p]
  BY DEF Step, Begin, ReleaseHit, ReleaseAnswered, ReleaseFailed,
     QueryUnlisted, QueryHit, QueryMiss, FetchAnswered, FetchFailed,
     StoreResult, KeepMalicious
<1>4. answer' = answer \/ \E a : answer' = [answer EXCEPT ![w] = a]
  BY DEF Step, Begin, ReleaseHit, ReleaseAnswered, ReleaseFailed,
     QueryUnlisted, QueryHit, QueryMiss, FetchAnswered, FetchFailed,
     StoreResult, KeepMalicious
<1> QED
  BY <1>1, <1>2, <1>3, <1>4 DEF Apart, Types

\* Of the workers only the one that moved needs a look, and only the packages
\* whose memory or last answer changed.
LEMMA KnownMoves ==
  ASSUME KnownInv, NEW w \in Worker, Apart(w), AnswerOK(w)',
         told' \in [Package -> [verdict : Verdict, version : Nat, at : Nat]],
         DOMAIN malicious'.items \subseteq Suspects,
         \A v \in Worker \ {w} : pc[v] \in {"answered", "keep"} =>
           told'[pkg[v]] = told[pkg[v]],
         \A p \in Package : FeedOK(p)' /\ Remembered(p)'
  PROVE  KnownInv'
  BY DEF KnownInv, Apart, AnswerOK

\* Steps of a worker that tell nothing and leave the memory alone.
LEMMA KnownStays ==
  ASSUME IInv, KnownInv, NEW w \in Worker, Apart(w), AnswerOK(w)',
         UNCHANGED <<told, malicious>>
  PROVE  KnownInv'
<1>1. \A p \in Package : FeedOK(p)' /\ Remembered(p)'
  BY DEF KnownInv, FeedOK, Remembered, Apart
<1> QED
  BY <1>1, KnownMoves DEF KnownInv

\* Nothing is lost that has not expired when the memory is asked.
LEMMA FailedRemembers ==
  ASSUME IInv, KnownInv, NEW w \in Worker, FetchFailed(w) PROVE KnownInv'
<1> DEFINE p == pkg[w]
<1>0. /\ Types /\ Caches /\ p \in Package /\ now \in Nat /\ Retention \in Nat
  BY DecideAssumption DEF IInv, Types
<1>1. Apart(w) /\ told' = told /\ malicious' = AfterGet(malicious, p, now)
  BY <1>0, StepsApart DEF Step, FetchFailed
<1>2. AnswerOK(w)'
  <2>1. pc'[w] = "idle"
    BY <1>0 DEF FetchFailed, lookupFailed, Go, Types
  <2> QED
    BY <2>1 DEF AnswerOK
<1>3. /\ DOMAIN malicious'.items \subseteq DOMAIN malicious.items
      /\ \A k \in DOMAIN malicious'.items :
           malicious'.items[k] = malicious.items[k]
  BY <1>0, <1>1, GetFacts DEF Caches
<1>4. ASSUME NEW k \in Package PROVE FeedOK(k)' /\ Remembered(k)'
  <2>1. FeedOK(k) /\ Remembered(k) /\ told[k].at \in Nat
    BY DEF KnownInv
  <2>2. FeedOK(k)'
    BY <1>1, <2>1 DEF FeedOK, Apart
  <2>3. ASSUME told[k].verdict = "malicious", now <= told[k].at + Retention
        PROVE  k \in DOMAIN malicious'.items
    <3>1. /\ k \in DOMAIN malicious.items
          /\ malicious.items[k].expiresAt = told[k].at + Retention
      BY <2>1, <2>3 DEF Remembered
    <3>2. Live(malicious, k, now)
      BY <2>3, <3>1 DEF Live
    <3>3. CASE k = p
      BY <1>1, <3>1, <3>2, <3>3 DEF AfterGet
    <3>4. CASE k # p
      BY <1>0, <1>1, <3>1, <3>4, DeleteFacts DEF AfterGet, Caches
    <3> QED
      BY <3>3, <3>4
  <2> QED
    BY <1>1, <1>3, <2>1, <2>2, <2>3 DEF Remembered, Apart
<1> QED
  BY <1>1, <1>2, <1>3, <1>4, KnownMoves DEF KnownInv

\* There is room for every package that may be malicious.
RoomForAll == IsFiniteSet(Suspects) /\ Cardinality(Suspects) <= MaxEntries

\* An answer is kept: what it says is what is told, and what it overwrites
\* was about the same package.
LEMMA KeepRemembers ==
  ASSUME IInv, KnownInv, Alone, RoomForAll, NEW w \in Worker,
         KeepMalicious(w)
  PROVE  KnownInv'
<1> DEFINE p == pkg[w]
           a == answer[w]
           set == Set(malicious, p, "malicious", Retention, now, MaxEntries)
           gone == delete(malicious, p)
           new == [verdict |-> a.verdict, version |-> a.version, at |-> now]
<1>0. /\ Types /\ Caches /\ p \in Package /\ now \in Nat
      /\ a.verdict \in Verdict /\ a.version \in Nat
      /\ pc[w] = "keep"
  BY DEF IInv, Types, KeepMalicious, Go
<1>1. Retention \in Nat \ {0} /\ MaxEntries \in Nat
  BY DecideAssumption
<1>2. /\ told[p].version <= a.version /\ a.version <= feed[p].version
      /\ a.verdict = "malicious" => p \in Suspects
      /\ told[p].version \in Nat
  BY <1>0 DEF KnownInv, AnswerOK
<1>3. Apart(w)
  BY <1>0, StepsApart DEF Step
<1>4. told' = [told EXCEPT ![p] = new]
  <2>1. ~(a.version < told[p].version)
    BY <1>0, <1>2
  <2> QED
    BY <2>1 DEF KeepMalicious
<1>5. AnswerOK(w)'
  <2>1. pc'[w] = "idle"
    BY <1>0 DEF KeepMalicious, Go, Types
  <2> QED
    BY <2>1 DEF AnswerOK
<1>6. /\ new \in [verdict : Verdict, version : Nat, at : Nat]
      /\ new.verdict = a.verdict /\ new.version = a.version /\ new.at = now
  BY <1>0
<1>7. malicious' = IF a.verdict = "malicious" THEN set ELSE gone
  BY DEF KeepMalicious
<1> HIDE DEF new
<1>8. /\ told' \in [Package -> [verdict : Verdict, version : Nat, at : Nat]]
      /\ told'[p] = new /\ \A k \in Package \ {p} : told'[k] = told[k]
  BY <1>0, <1>4, <1>6 DEF KnownInv
<1>9. \A v \in Worker \ {w} : pc[v] \in {"answered", "keep"} =>
        told'[pkg[v]] = told[pkg[v]]
  BY <1>0, <1>8 DEF Alone, Types
<1>10. /\ DOMAIN malicious'.items \subseteq Suspects
       /\ \A k \in DOMAIN malicious.items \ {p} :
            /\ k \in DOMAIN malicious'.items
            /\ malicious'.items[k] = malicious.items[k]
       /\ a.verdict = "malicious" =>
            /\ p \in DOMAIN malicious'.items
            /\ malicious'.items[p].expiresAt = now + Retention
  <2>0. DOMAIN malicious.items \subseteq Suspects
    BY DEF KnownInv
  <2>1. CASE a.verdict = "malicious"
    <3>1. IsSet(set, malicious, p, "malicious", now + Retention)
      BY <1>0, <1>1, SetFacts DEF Caches
    <3> DEFINE keys == DOMAIN malicious.items \cup {p}
    <3>2. keys \subseteq Suspects
      BY <1>2, <2>0, <2>1
    <3> HIDE DEF set
    <3>3. Cardinality(keys) <= MaxEntries
      <4> HIDE DEF keys
      <4>1. IsFiniteSet(keys) /\ Cardinality(keys) <= Cardinality(Suspects)
        BY <3>2, FS_Subset DEF RoomForAll
      <4>2. Cardinality(keys) \in Nat /\ Cardinality(Suspects) \in Nat
        BY <4>1, FS_CardinalityType DEF RoomForAll
      <4> QED
        BY <1>1, <4>1, <4>2 DEF RoomForAll
    <3>4. DOMAIN set.items = keys
      BY <3>1, <3>3 DEF IsSet
    <3> QED
      BY <1>7, <2>1, <3>1, <3>2, <3>4 DEF IsSet
  <2>2. CASE a.verdict # "malicious"
    BY <1>0, <1>7, <2>0, <2>2, DeleteFacts DEF Caches
  <2> QED
    BY <2>1, <2>2
<1> HIDE DEF set, gone, a
<1>11. ASSUME NEW k \in Package PROVE FeedOK(k)' /\ Remembered(k)'
  <2>1. FeedOK(k) /\ Remembered(k) /\ feed' = feed /\ now' = now
    BY <1>3 DEF KnownInv, Apart
  <2>2. CASE k = p
    BY <1>2, <1>6, <1>8, <1>10, <2>1, <2>2 DEF FeedOK, Remembered
  <2>3. CASE k # p
    BY <1>8, <1>10, <2>1, <2>3 DEF FeedOK, Remembered
  <2> QED
    BY <2>2, <2>3
<1> QED
  BY <1>3, <1>5, <1>8, <1>9, <1>10, <1>11, KnownMoves

\* Every step preserves the memory.
LEMMA KnownStep ==
  ASSUME IInv, KnownInv, Alone, RoomForAll, [Next]_vars PROVE KnownInv'
<1>0. Types
  BY DEF IInv
<1>1. ASSUME NEW w \in Worker, NEW p \in Package, Begin(w, p) PROVE KnownInv'
  <2>1. Apart(w) /\ UNCHANGED <<told, malicious>>
    BY <1>0, <1>1, StepsApart DEF Begin, cacheVars
  <2>2. pc'[w] \in {"idle", "release", "query"}
    BY <1>0, <1>1 DEF Begin, Switch, Go, Types
  <2>3. AnswerOK(w)'
    BY <2>2 DEF AnswerOK
  <2> QED
    BY <2>1, <2>3, KnownStays
<1>2. ASSUME NEW w \in Worker,
             \/ ReleaseHit(w) \/ ReleaseAnswered(w) \/ ReleaseFailed(w)
             \/ QueryUnlisted(w) \/ QueryHit(w) \/ QueryMiss(w)
      PROVE  KnownInv'
  <2>1. UNCHANGED <<told, malicious>>
    BY <1>2 DEF ReleaseHit, ReleaseAnswered, ReleaseFailed, QueryUnlisted,
       QueryHit, QueryMiss, cacheVars
  <2>2. Apart(w)
    BY <1>0, <1>2, StepsApart DEF Step
  <2>3. pc'[w] \in {"idle", "query", "fetch"}
    BY <1>0, <1>2 DEF ReleaseHit, ReleaseAnswered, ReleaseFailed,
       QueryUnlisted, QueryHit, QueryMiss, Switch, lookupFailed, Go, Types
  <2>4. AnswerOK(w)'
    BY <2>3 DEF AnswerOK
  <2> QED
    BY <2>1, <2>2, <2>4, KnownStays
<1>3. ASSUME NEW w \in Worker, FetchAnswered(w) PROVE KnownInv'
  <2> DEFINE p == pkg[w]
             a == [verdict |-> feed[p].verdict, version |-> feed[p].version]
  <2>1. Apart(w) /\ UNCHANGED <<told, malicious, pkg, feed>>
    BY <1>0, <1>3, StepsApart DEF Step, FetchAnswered, cacheVars, feedVars
  <2>2. p \in Package /\ FeedOK(p) /\ feed[p].version \in Nat
    BY <1>0 DEF KnownInv, Types
  <2>3. answer'[w] = a
    BY <1>0, <1>3 DEF FetchAnswered, Types
  <2>4. AnswerOK(w)'
    BY <2>1, <2>2, <2>3 DEF AnswerOK, FeedOK
  <2> QED
    BY <2>1, <2>4, KnownStays
<1>4. ASSUME NEW w \in Worker, StoreResult(w) PROVE KnownInv'
  <2>1. Apart(w) /\ UNCHANGED <<told, malicious, pkg, answer, feed>>
    BY <1>0, <1>4, StepsApart DEF Step, StoreResult, feedVars
  <2>2. pc[w] = "answered" /\ AnswerOK(w)
    BY <1>4 DEF StoreResult, Go, KnownInv
  <2>3. AnswerOK(w)'
    BY <2>1, <2>2 DEF AnswerOK
  <2> QED
    BY <2>1, <2>3, KnownStays
<1>5. ASSUME NEW p \in Package, NEW v \in Verdicts, FeedChanges(p, v)
      PROVE  KnownInv'
  <2> DEFINE f == [verdict |-> v, version |-> feed[p].version + 1,
                   since |-> now]
  <2>1. /\ UNCHANGED <<now, told, malicious, pc, pkg, answer>>
        /\ p \in Suspects /\ feed' = [feed EXCEPT ![p] = f]
    BY <1>5 DEF FeedChanges, cacheVars, Suspects
  <2>2. /\ feed'[p].verdict = v /\ feed'[p].version = feed[p].version + 1
        /\ feed[p].version \in Nat
        /\ \A q \in Package \ {p} : feed'[q] = feed[q]
    BY <1>0, <2>1 DEF Types
  <2>3. ASSUME NEW q \in Package PROVE FeedOK(q)' /\ Remembered(q)'
    <3>1. FeedOK(q) /\ Remembered(q) /\ told[q].version \in Nat
      BY DEF KnownInv
    <3>2. CASE q = p
      BY <2>1, <2>2, <3>1, <3>2 DEF FeedOK, Remembered
    <3>3. CASE q # p
      BY <2>1, <2>2, <3>1, <3>3 DEF FeedOK, Remembered
    <3> QED
      BY <3>2, <3>3
  <2>4. ASSUME NEW w \in Worker PROVE AnswerOK(w)'
    <3>1. AnswerOK(w) /\ pkg[w] \in Package /\ answer[w].version \in Nat
      BY <1>0 DEF KnownInv, Types
    <3>2. CASE pkg[w] = p
      BY <2>1, <2>2, <3>1, <3>2 DEF AnswerOK
    <3>3. CASE pkg[w] # p
      BY <2>1, <2>2, <3>1, <3>3 DEF AnswerOK
    <3> QED
      BY <3>2, <3>3
  <2> QED
    BY <2>1, <2>3, <2>4 DEF KnownInv
<1>6. CASE Tick
  <2>1. /\ UNCHANGED <<feed, told, malicious, pc, pkg, answer>>
        /\ now' = now + 1 /\ now \in Nat
    BY <1>0, <1>6 DEF Tick, cacheVars, Types
  <2>2. ASSUME NEW q \in Package PROVE FeedOK(q)' /\ Remembered(q)'
    <3>1. /\ FeedOK(q) /\ Remembered(q) /\ told[q].at \in Nat
          /\ Retention \in Nat
      BY DecideAssumption DEF KnownInv
    <3> QED
      BY <2>1, <3>1 DEF FeedOK, Remembered
  <2> QED
    BY <2>1, <2>2 DEF KnownInv, AnswerOK
<1>7. CASE UNCHANGED vars
  BY <1>7 DEF vars, feedVars, cacheVars, KnownInv, FeedOK, Remembered,
     AnswerOK
<1> QED
  BY <1>1, <1>2, <1>3, <1>4, <1>5, <1>6, <1>7, FailedRemembers, KeepRemembers
     DEF Next, Step

\* Nothing is known at first.
LEMMA KnownInit == Init => KnownInv
<1> SUFFICES ASSUME Init PROVE KnownInv
  OBVIOUS
<1>1. DOMAIN malicious.items = {} /\ \A w \in Worker : pc[w] = "idle"
  BY DEF Init, Empty
<1>2. \A p \in Package :
        /\ feed[p].verdict = "clean" /\ feed[p].version = 0
        /\ told[p].verdict = "clean" /\ told[p].version = 0
  BY DEF Init
<1>3. told \in [Package -> [verdict : Verdict, version : Nat, at : Nat]]
  BY DEF Init, Verdict
<1> QED
  BY <1>1, <1>2, <1>3 DEF KnownInv, FeedOK, Remembered, AnswerOK

\* A failing lookup finds what is remembered.
LEMMA ErrorsServeUnknown ==
  ASSUME IInv, KnownInv, [Next]_vars, NEW w \in Worker, NewlyServed(w),
         decision'[w].why = "intel_error"
  PROVE  ~(/\ told[pkg[w]].verdict = "malicious"
           /\ now <= told[pkg[w]].at + Retention)
<1>0. /\ Types /\ Caches /\ pkg[w] \in Package /\ Remembered(pkg[w])
      /\ Served(w)'
  BY DEF IInv, Types, KnownInv, NewlyServed
<1>1. ASSUME NEW p \in Package, Begin(w, p) PROVE FALSE
  <2>1. CASE Kind[p] = "metadata"
    BY <1>0, <1>1, <2>1, DecidedFacts DEF Begin, Action, Reason
  <2>2. CASE Kind[p] # "metadata" /\ NeedsPublishTime(p)
    BY <1>0, <1>1, <2>2, DecidedFacts DEF Begin, Action, Reason
  <2>3. CASE Kind[p] # "metadata" /\ ~NeedsPublishTime(p)
    BY <1>0, <1>1, <2>3, SwitchFacts DEF Begin
  <2> QED
    BY <2>1, <2>2, <2>3
<1>2. CASE ReleaseHit(w) \/ ReleaseAnswered(w)
  <2>1. \E found : Switch(w, "release", pkg[w], found)
    BY <1>2 DEF ReleaseHit, ReleaseAnswered
  <2> QED
    BY <1>0, <2>1, SwitchFacts
<1>3. CASE ReleaseFailed(w)
  <2>1. "release_error" \in Reason
    BY DEF Reason
  <2> QED
    BY <1>0, <1>3, <2>1, FailedFacts DEF ReleaseFailed
<1>4. ASSUME NEW v \in Verdict \cup {"malicious"}, Conclude(w, v) PROVE FALSE
  BY <1>0, <1>4, ConcludeFacts
<1>5. CASE QueryUnlisted(w) \/ QueryHit(w) \/ KeepMalicious(w)
  <2>1. \E v \in Verdict \cup {"malicious"} : Conclude(w, v)
    BY <1>0, <1>5 DEF QueryUnlisted, QueryHit, KeepMalicious, Live, IInv,
       EntryOK, Verdict, Types
  <2> QED
    BY <1>4, <2>1
<1>6. CASE FetchFailed(w)
  <2>1. ~Live(malicious, pkg[w], now)
    <3> SUFFICES ASSUME Live(malicious, pkg[w], now) PROVE FALSE
      OBVIOUS
    <3>1. Conclude(w, "malicious")
      BY <1>0, <1>6 DEF FetchFailed, Live, Caches
    <3> QED
      BY <1>4, <3>1
  <2> QED
    BY <1>0, <2>1 DEF Remembered, Live
<1>7. CASE QueryMiss(w) \/ FetchAnswered(w) \/ StoreResult(w)
  BY <1>7 DEF QueryMiss, FetchAnswered, StoreResult, NewlyServed, Served
<1> QED
  BY <1>1, <1>2, <1>3, <1>5, <1>6, <1>7, WhoDecides DEF Step

\* KnownMalwareBlocked, for as long as no two answers about one package are
\* under way at once, and if the memory has room for every package that may
\* be malicious: a lookup that fails never lets a package through whose last
\* answer was malicious and is retained.  The run decide_race shows that the
\* first condition is needed.
THEOREM KnownMalwareKeptOut ==
  ASSUME RoomForAll
  PROVE  Spec /\ []Alone => KnownMalwareBlocked
<1>1. IInv /\ KnownInv /\ [Next]_vars =>
        [ \A w \in Worker :
            LET p == pkg[w] IN
              NewlyServed(w) /\ decision'[w].why = "intel_error"
              => ~(told[p].verdict = "malicious"
                   /\ now <= told[p].at + Retention) ]_vars
  BY ErrorsServeUnknown
<1>2. IInv /\ KnownInv /\ Alone /\ [Next]_vars => KnownInv'
  BY KnownStep
<1> QED
  BY <1>1, <1>2, IInvInit, IInvStep, KnownInit, PTL
     DEF Spec, KnownMalwareBlocked
=============================================================================
