------------------------------ MODULE TTLCache ------------------------------
(***************************************************************************)
(* cache.Cache (cache/cache.go) as a value and the operators on it: a map  *)
(* with an expiry per entry and a bound on the entries, the oldest key     *)
(* leaving first.  Every method holds the mutex, so each is one step.      *)
(***************************************************************************)
EXTENDS Naturals, Sequences, FiniteSets, Functions

Empty == [items |-> <<>>, order |-> <<>>]

\* Mutant of Live: expired entries are served.
LiveForever(c, key, now) == key \in DOMAIN c.items

\* Get's test: an entry with the zero expiresAt never expires, and one lives
\* up to and including its expiry.
Live(c, key, now) ==
  /\ key \in DOMAIN c.items
  /\ c.items[key].expiresAt = 0 \/ now <= c.items[key].expiresAt

\* Mutant of delete: the key stays in the eviction list.
deleteItemOnly(c, key) ==
  [c EXCEPT !.items = Restrict(c.items, DOMAIN c.items \ {key})]

\* What the loop of delete leaves of order.
Without(order, key) ==
  LET left[n \in 0 .. Len(order)] ==
        IF n = 0 THEN <<>>
        ELSE IF order[n] = key THEN left[n - 1]
        ELSE Append(left[n - 1], order[n])
  IN left[Len(order)]

delete(c, key) ==
  [items |-> Restrict(c.items, DOMAIN c.items \ {key}),
   order |-> Without(c.order, key)]

\* What Get leaves behind: an entry found expired is deleted.
AfterGet(c, key, now) == IF Live(c, key, now) THEN c ELSE delete(c, key)

\* The keys left once the first n of order have been dropped.
Kept(c, n) == DOMAIN c.items \ {c.order[i] : i \in 1 .. n}

\* Drops from the front of order until the map fits.
enforceMaxEntries(c, max) ==
  LET fits(n) == n = Len(c.order) \/ Cardinality(Kept(c, n)) <= max
      dropped == CHOOSE n \in 0 .. Len(c.order) :
                   fits(n) /\ \A m \in 0 .. n - 1 : ~fits(m)
  IN IF max = 0 THEN c
     ELSE [items |-> Restrict(c.items, Kept(c, dropped)),
           order |-> SubSeq(c.order, dropped + 1, Len(c.order))]

\* A key already present keeps its place in order.
Set(c, key, value, ttl, now, max) ==
  LET item == [value |-> value, expiresAt |-> IF ttl > 0 THEN now + ttl ELSE 0]
      items == [k \in DOMAIN c.items \cup {key} |->
                  IF k = key THEN item ELSE c.items[k]]
      order == IF key \in DOMAIN c.items THEN c.order
               ELSE Append(c.order, key)
  IN enforceMaxEntries([items |-> items, order |-> order], max)

\* The list and the map of a bounded cache agree: each key once, in both.
WellFormed(c, max) ==
  /\ IsInjective(c.order)
  /\ {c.order[i] : i \in 1 .. Len(c.order)} = DOMAIN c.items
  /\ max > 0 => Cardinality(DOMAIN c.items) <= max
=============================================================================
