--------------------------- MODULE Prewarm_proofs ---------------------------
(***************************************************************************)
(* What the prewarm command promises for any projects, pools and           *)
(* checkpoints: the manifest is exact, a run takes over only what was      *)
(* verified, repeats nothing, and succeeds only if everything the project  *)
(* wants was a hit, on its own route.                                      *)
(***************************************************************************)
EXTENDS Prewarm, Arithmetic_proofs, FiniteSetTheorems, SequenceTheorems, TLAPS

-----------------------------------------------------------------------------
(* The inductive invariant.                                                *)

\* A worker that has a job; one that is past the look into the checkpoint.
Asking == {"pace", "sent", "wait", "verified"}
Working == {"got"} \cup Asking
Busy == {w \in Worker : pc[w] \in Working}

Types ==
  /\ project \in Projects /\ runs \in 0 .. MaxRuns /\ phase \in Phase
  /\ next \in Nat \ {0} /\ sending \in {"open", "closed"}
  /\ pc \in [Worker -> WorkerPhase] /\ job \in [Worker -> Nat]
  /\ tries \in [Worker -> 0 .. RateLimitRetries]
  /\ status \in [Worker -> CacheStatus \cup {"none"}]
  /\ pacer \subseteq Worker
  /\ ctx \in {"live", "done"} /\ parent \in {"live", "done"}
  /\ firstErr \in {"none", "fetch", "status", "save", "expected_hit"}
  /\ stats \in [artifacts : Nat, hits : Nat, misses : Nat]
  /\ \A i \in DOMAIN routes : routes[i] \in RouteName \cup {"none"}
  /\ \A p \in DOMAIN entries :
       entries[p].route \in RouteName /\ entries[p].status \in CacheStatus

\* The manifest of a run is that of the project as it is, every path once.
ListInv ==
  phase \in {"pass1", "pass2", "ok"} =>
    /\ Manifest(project).err = "" /\ Routable(Manifest(project).artifacts)
    /\ manifest \in Seq(Manifest(project).artifacts)
    /\ Range(manifest) = Manifest(project).artifacts
    /\ \A i, j \in DOMAIN manifest : manifest[i].path = manifest[j].path => i = j
    /\ next <= Len(manifest) + 1
    /\ DOMAIN routes = DOMAIN manifest
    /\ \A i \in DOMAIN manifest :
         /\ routes[i] \in {"none", routeCandidates(manifest[i])}
         /\ phase # "pass1" => routes[i] # "none"

\* Workers are of the pool and have different jobs; between runs none has one.
JobInv ==
  /\ ~Running => Busy = {}
  /\ Running =>
       /\ pool \in Pools /\ \A w \in Worker : pc[w] # "exited" => w \in pool
       /\ \A w \in Busy : job[w] \in 1 .. next - 1
       /\ \A v, w \in Busy : job[v] = job[w] => v = w

\* What is verified or recorded was verified, with the checksums and on the
\* route that the fingerprint stands for.
AnswerInv ==
  Running => \A w \in Worker :
    pc[w] = "verified" =>
      <<Route(w), Job(w)>> \in verified /\ status[w] \in CacheStatus

SavedInv ==
  \A p \in DOMAIN file.completed :
    /\ file.completed[p].status \in CacheStatus
    /\ file.completed[p].route \in RouteName
    /\ \E f \in file.sha :
         /\ f.artifact.path = p
         /\ <<file.completed[p].route, f.artifact>> \in verified

EntryInv ==
  phase = "pass1" => \A p \in DOMAIN entries :
    \E a \in Range(manifest) :
      /\ a.path = p /\ entries[p].route = routeCandidates(a)
      /\ <<entries[p].route, a>> \in verified

CheckInv == AnswerInv /\ SavedInv /\ EntryInv

\* The checkpoint in memory has all of the file, and nothing anybody is
\* asking for.
FileInv ==
  /\ ~StateFile => file = NoFile
  /\ phase = "pass1" =>
       /\ DOMAIN file.completed \subseteq DOMAIN entries
       /\ StateFile => \A w \in Worker :
            pc[w] \in Asking => Job(w).path \notin DOMAIN entries

\* The pass is done with the i-th artifact.
Done(i) ==
  IF phase = "pass1" THEN routes[i] # "none"
  ELSE <<routes[i], manifest[i].path>> \in hit2

\* As long as nothing failed, what was handed out is done or in somebody's
\* hands, and the counters have what is done.
Going ==
  /\ ctx = "live" /\ (sending = "closed" => next = Len(manifest) + 1)
  /\ \A i \in 1 .. next - 1 : Done(i) \/ \E w \in Busy : job[w] = i
  /\ stats.artifacts + Cardinality(Busy) = next - 1
  /\ stats.hits + stats.misses = stats.artifacts
  /\ phase = "pass2" => stats.misses = 0
  /\ phase = "pass1" => \A p \in DOMAIN entries :
       entries[p].status \in {"HIT", "MISS"}

PassInv == Running /\ ~PassFails => Going

\* What a hit in the second pass may be.
Hits == {<<routeCandidates(a), a.path>> : a \in Range(manifest)}
HitInv ==
  /\ phase = "pass1" => hit2 = {}
  /\ phase = "pass2" => hit2 \subseteq Hits
  /\ phase = "ok" => hit2 = Hits /\ stats.hits = Len(manifest)

IInv ==
  /\ Types /\ ListInv /\ JobInv /\ CheckInv /\ FileInv /\ PassInv /\ HitInv

-----------------------------------------------------------------------------
(* Lists.                                                                  *)

\* A finite set made a list is listed whole and without repetition.
LEMMA Listed ==
  ASSUME NEW S, IsFiniteSet(S), NEW m, m = SetToSeq(S)
  PROVE  /\ m \in Seq(S) /\ Range(m) = S
         /\ \A i, j \in DOMAIN m : m[i] = m[j] => i = j
<1> DEFINE n == Cardinality(S)
<1>1. n \in Nat /\ ExistsBijection(1 .. n, S)
  BY FS_CardinalityType
<1>2. \E f \in [1 .. n -> S] : IsInjective(f)
  BY <1>1 DEF ExistsBijection, Bijection, Injection
<1>3. m \in [1 .. n -> S] /\ IsInjective(m)
  BY <1>2 DEF SetToSeq
<1>4. m \in Injection(1 .. n, S)
  BY <1>3 DEF Injection
<1>5. Cardinality(1 .. n) = n
  BY <1>1, FS_Interval
<1>6. m \in Surjection(1 .. n, S)
  BY <1>4, <1>5, FS_Injection
<1>7. Range(m) = S
  BY <1>3, <1>6 DEF Surjection, Range
<1>8. m \in Seq(S)
  BY <1>1, <1>3
<1> QED
  BY <1>3, <1>7, <1>8 DEF IsInjective

\* Records are kept by path, and excluding some only takes them away.
LEMMA PathsUnique ==
  ASSUME NEW p, NEW a \in Manifest(p).artifacts,
         NEW b \in Manifest(p).artifacts, a.path = b.path
  PROVE  a = b
<1> DEFINE r == artifactsByPath(p)
           S == {[path |-> x, marker |-> r[x].marker, sums |-> r[x].sums] :
                   x \in DOMAIN r}
<1> HIDE DEF r
<1>1. DiscoverGradle(p).artifacts \in {{}, S}
  BY DEF DiscoverGradle, Failed, r
<1>2. Manifest(p).artifacts \subseteq DiscoverGradle(p).artifacts
  <2> DEFINE d == DiscoverGradle(p)
  <2>1. d = [err |-> d.err, artifacts |-> d.artifacts]
    BY DEF DiscoverGradle, Failed
  <2> HIDE DEF d
  <2> QED
    BY <2>1 DEF Manifest, ExcludeGradleCoordinates, Failed, d
<1>3. a \in S /\ b \in S
  BY <1>1, <1>2
<1> QED
  BY <1>3

-----------------------------------------------------------------------------
(* Folds.  Both loops of DiscoverGradle are folds, over the components and *)
(* over the artifacts of each.                                             *)

\* What one turn of either loop makes of the records.
Turn(p, c, kind, r, x) ==
  IF kind = "artifact"
    THEN IF x \in Verified(c) THEN AddArtifact(p, c, r, x) ELSE r
    ELSE IF Selected(p, x) THEN AddComponent(p, r, x) ELSE r

\* The records after the turns in s, the last of them last.
After(p, c, kind, base, seq, iter, s) ==
  IF s = {} THEN base
  ELSE Turn(p, c, kind, iter[s \ {Max(s)}], seq[Max(s)])

IsLoop(p, c, kind, base, seq, iter, n) ==
  iter = [s \in SUBSET (1 .. n) |-> After(p, c, kind, base, seq, iter, s)]

\* The greatest number of a set that ends in k.
LEMMA MaxIs ==
  ASSUME NEW k \in Nat, NEW s \in SUBSET (1 .. k), k \in s
  PROVE  Max(s) = k
<1>1. \A y \in s : k >= y
  OBVIOUS
<1>2. PICK m : m = Max(s)
  OBVIOUS
<1>3. m \in s /\ \A y \in s : m >= y
  BY <1>1, <1>2 DEF Max
<1>4. m = k
  BY <1>3
<1> QED
  BY <1>2, <1>4

\* Such a function exists.
LEMMA LoopExists ==
  ASSUME NEW p, NEW c, NEW kind, NEW base, NEW seq, NEW n \in Nat
  PROVE  \E iter : IsLoop(p, c, kind, base, seq, iter, n)
<1> DEFINE Is(iter, k) == IsLoop(p, c, kind, base, seq, iter, k)
           Bad == {k \in 0 .. n : ~\E iter : Is(iter, k)}
<1>1. Bad = {}
  <2> SUFFICES ASSUME Bad # {} PROVE FALSE
    OBVIOUS
  <2>1. Bad \in SUBSET Nat
    OBVIOUS
  <2>2. PICK k \in Bad : \A x \in Bad : k <= x
    <3> HIDE DEF Bad
    <3> QED
      BY <2>1, LeastElement
  <2>3. k \in 0 .. n /\ ~\E iter : Is(iter, k)
    OBVIOUS
  <2>4. CASE k = 0
    <3> DEFINE f == [s \in SUBSET (1 .. 0) |-> base]
    <3>1. \A s \in SUBSET (1 .. 0) : s = {}
      OBVIOUS
    <3>2. \A s \in SUBSET (1 .. 0) :
            f[s] = After(p, c, kind, base, seq, f, s)
      BY <3>1 DEF After
    <3>3. f = [s \in SUBSET (1 .. 0) |-> f[s]]
      OBVIOUS
    <3> HIDE DEF f
    <3>4. Is(f, 0)
      BY <3>2, <3>3, Zenon DEF IsLoop
    <3> QED
      BY <2>3, <2>4, <3>4
  <2>5. CASE k # 0
    <3> DEFINE j == k - 1
    <3>1. j \in 0 .. n /\ j \notin Bad
      <4>1. j \in 0 .. n /\ ~(k <= j)
        BY <2>3, <2>5
      <4> HIDE DEF Bad
      <4> QED
        BY <2>2, <4>1
    <3>2. PICK old : Is(old, j)
      BY <3>1
    <3>3. k \in Nat /\ k \in 1 .. k /\ 1 .. k = (1 .. j) \cup {k} /\ k \notin 1 .. j
      BY <2>3, <2>5
    <3> HIDE DEF j, Bad
    <3>4. ASSUME NEW s \in SUBSET (1 .. j)
          PROVE  old[s] = After(p, c, kind, base, seq, old, s)
      BY <3>2, Zenon DEF IsLoop
    <3> HIDE DEF Is
    <3> DEFINE f == [s \in SUBSET (1 .. k) |->
                       IF k \in s THEN Turn(p, c, kind, old[s \ {k}], seq[k])
                       ELSE old[s]]
    <3>5. ASSUME NEW s \in SUBSET (1 .. j) PROVE f[s] = old[s]
      <4>1. s \in SUBSET (1 .. k) /\ k \notin s
        BY <3>3
      <4> QED
        BY <4>1
    <3>6. ASSUME NEW s \in SUBSET (1 .. k)
          PROVE  f[s] = After(p, c, kind, base, seq, f, s)
      <4>1. CASE k \in s
        <5>1. s \ {k} \in SUBSET (1 .. j) /\ s # {}
          BY <3>3, <4>1
        <5>2. Max(s) = k
          BY <3>3, <4>1, MaxIs
        <5>3. f[s \ {k}] = old[s \ {k}]
          BY <3>5, <5>1
        <5>4. f[s] = Turn(p, c, kind, old[s \ {k}], seq[k])
          BY <4>1
        <5> HIDE DEF f
        <5> QED
          BY <5>1, <5>2, <5>3, <5>4, Zenon DEF After
      <4>2. CASE k \notin s
        <5>1. s \in SUBSET (1 .. j)
          BY <3>3, <4>2
        <5>2. s \ {Max(s)} \in SUBSET (1 .. j)
          BY <5>1
        <5>3. f[s] = old[s] /\ f[s \ {Max(s)}] = old[s \ {Max(s)}]
          BY <3>5, <5>1, <5>2
        <5> HIDE DEF f
        <5> QED
          BY <3>4, <5>1, <5>3, Zenon DEF After
      <4> QED
        BY <4>1, <4>2
    <3>7. f = [s \in SUBSET (1 .. k) |-> f[s]]
      OBVIOUS
    <3> HIDE DEF f
    <3>8. Is(f, k)
      BY <3>6, <3>7, Zenon DEF IsLoop, Is
    <3> QED
      BY <2>3, <3>8 DEF Is
  <2> QED
    BY <2>4, <2>5
<1>2. n \in 0 .. n
  OBVIOUS
<1> QED
  BY <1>1, <1>2

\* It goes from turn to turn.
Looped(p, c, kind, base, seq, iter, n) ==
  /\ iter[1 .. 0] = base
  /\ \A k \in 1 .. n :
       iter[1 .. k] = Turn(p, c, kind, iter[1 .. k - 1], seq[k])

LEMMA LoopTurns ==
  ASSUME NEW p, NEW c, NEW kind, NEW base, NEW seq, NEW n \in Nat, NEW iter,
         IsLoop(p, c, kind, base, seq, iter, n)
  PROVE  Looped(p, c, kind, base, seq, iter, n)
<1>1. ASSUME NEW s \in SUBSET (1 .. n)
      PROVE  iter[s] = After(p, c, kind, base, seq, iter, s)
  BY Zenon DEF IsLoop
<1>2. 1 .. 0 = {} /\ 1 .. 0 \in SUBSET (1 .. n)
  OBVIOUS
<1>3. iter[1 .. 0] = base
  BY <1>1, <1>2, Zenon DEF After
<1>4. ASSUME NEW k \in 1 .. n
      PROVE  iter[1 .. k] = Turn(p, c, kind, iter[1 .. k - 1], seq[k])
  <2>1. /\ k \in Nat /\ 1 .. k \in SUBSET (1 .. n) /\ k \in 1 .. k
        /\ (1 .. k) \ {k} = 1 .. k - 1 /\ 1 .. k # {}
    <3>1. k \in Nat /\ k <= n /\ 1 <= k
      OBVIOUS
    <3>2. k \in 1 .. k
      BY <3>1
    <3>3. \A i \in 1 .. k : i \in 1 .. n
      BY <3>1
    <3>4. \A i : i \in (1 .. k) \ {k} <=> i \in 1 .. k - 1
      BY <3>1
    <3> QED
      BY <3>1, <3>2, <3>3, <3>4
  <2>2. Max(1 .. k) = k
    BY <2>1, MaxIs
  <2> QED
    BY <1>1, <2>1, <2>2, Zenon DEF After
<1> QED
  BY <1>3, <1>4 DEF Looped

\* The two loops.
LEMMA ComponentLoop ==
  ASSUME NEW p, NEW r, NEW c, DOMAIN c.artifacts = 1 .. Len(c.artifacts),
         Len(c.artifacts) \in Nat
  PROVE  \E iter :
           /\ IsLoop(p, c, "artifact", r, c.artifacts, iter, Len(c.artifacts))
           /\ AddComponent(p, r, c) = iter[1 .. Len(c.artifacts)]
<1> DEFINE n == Len(c.artifacts)
           A(iter, s) ==
             IF s = {} THEN r
             ELSE IF c.artifacts[Max(s)] \in Verified(c)
               THEN AddArtifact(p, c, iter[s \ {Max(s)}], c.artifacts[Max(s)])
               ELSE iter[s \ {Max(s)}]
           Is(iter) == iter = [s \in SUBSET DOMAIN c.artifacts |-> A(iter, s)]
           it == CHOOSE iter : Is(iter)
<1>1. AddComponent(p, r, c) = it[DOMAIN c.artifacts]
  BY DEF AddComponent, FoldLeft, MapThenFoldSet
<1>2. PICK f : IsLoop(p, c, "artifact", r, c.artifacts, f, n)
  BY LoopExists
<1>3. ASSUME NEW iter
      PROVE  Is(iter) <=> IsLoop(p, c, "artifact", r, c.artifacts, iter, n)
  <2>1. ASSUME NEW s
        PROVE  A(iter, s) = After(p, c, "artifact", r, c.artifacts, iter, s)
    BY Zenon DEF After, Turn
  <2> HIDE DEF A
  <2> QED
    BY <2>1, Zenon DEF IsLoop
<1>4. Is(f)
  BY <1>2, <1>3
<1> HIDE DEF Is
<1>5. Is(it)
  BY <1>4, Zenon
<1>6. IsLoop(p, c, "artifact", r, c.artifacts, it, n)
  BY <1>3, <1>5
<1> QED
  BY <1>1, <1>6, Zenon

LEMMA ProjectLoop ==
  ASSUME NEW p, DOMAIN p.components = 1 .. Len(p.components),
         Len(p.components) \in Nat
  PROVE  \E iter :
           /\ IsLoop(p, p, "component", <<>>, p.components, iter,
                     Len(p.components))
           /\ artifactsByPath(p) = iter[1 .. Len(p.components)]
<1> DEFINE n == Len(p.components)
           A(iter, s) ==
             IF s = {} THEN <<>>
             ELSE IF Selected(p, p.components[Max(s)])
               THEN AddComponent(p, iter[s \ {Max(s)}], p.components[Max(s)])
               ELSE iter[s \ {Max(s)}]
           Is(iter) == iter = [s \in SUBSET DOMAIN p.components |-> A(iter, s)]
           it == CHOOSE iter : Is(iter)
<1>1. artifactsByPath(p) = it[DOMAIN p.components]
  BY DEF artifactsByPath, FoldLeft, MapThenFoldSet
<1>2. PICK f : IsLoop(p, p, "component", <<>>, p.components, f, n)
  BY LoopExists
<1>3. ASSUME NEW iter
      PROVE  Is(iter) <=> IsLoop(p, p, "component", <<>>, p.components, iter, n)
  <2>1. ASSUME NEW s
        PROVE  A(iter, s)
                 = After(p, p, "component", <<>>, p.components, iter, s)
    <3>1. "component" # "artifact"
      OBVIOUS
    <3> QED
      BY <3>1, Zenon DEF After, Turn
  <2> HIDE DEF A
  <2> QED
    BY <2>1, Zenon DEF IsLoop
<1>4. Is(f)
  BY <1>2, <1>3
<1> HIDE DEF Is
<1>5. Is(it)
  BY <1>4, Zenon
<1>6. IsLoop(p, p, "component", <<>>, p.components, it, n)
  BY <1>3, <1>5
<1> QED
  BY <1>1, <1>6, Zenon

-----------------------------------------------------------------------------
(* What the loops collect.                                                 *)

\* Where the loop puts an artifact of a component.
PathOf(p, e) ==
  mavenArtifactPath(e[1],
    publishedArtifactVersion(e[1], e[2].name,
      {c.version : c \in {d \in Range(p.components) : d.module = e[1].module}}),
    e[2].name)

\* The records have the paths of the pairs of component and artifact in N,
\* with the checksums of all of them and the mark of one of them.
Collects(p, N, r) ==
  /\ DOMAIN r = {PathOf(p, e) : e \in N}
  /\ \A x \in DOMAIN r :
       /\ r[x] = [marker |-> r[x].marker, sums |-> r[x].sums]
       /\ r[x].sums = UNION {e[2].sums : e \in {f \in N : PathOf(p, f) = x}}
       /\ \E e \in N : /\ PathOf(p, e) = x
                       /\ r[x].marker = (Coordinate(e[1]) \in p.markers)

LEMMA CollectsNothing ==
  ASSUME NEW p
  PROVE  Collects(p, {}, <<>>)
<1>1. DOMAIN <<>> = {}
  OBVIOUS
<1> QED
  BY <1>1 DEF Collects

\* One more artifact.
LEMMA CollectsArtifact ==
  ASSUME NEW p, NEW N, NEW r, Collects(p, N, r), NEW c, NEW a
  PROVE  Collects(p, N \cup {<<c, a>>}, AddArtifact(p, c, r, a))
<1> DEFINE e == <<c, a>>
           M == N \cup {e}
           path == PathOf(p, e)
           q == AddArtifact(p, c, r, a)
           mark == Coordinate(c) \in p.markers
           old == IF path \in DOMAIN r THEN r[path]
                  ELSE [marker |-> mark, sums |-> {}]
<1>1. e[1] = c /\ e[2] = a
  OBVIOUS
<1>2. q = [x \in DOMAIN r \cup {path} |->
             IF x = path THEN [old EXCEPT !.sums = @ \cup a.sums] ELSE r[x]]
  BY <1>1, Zenon DEF AddArtifact, PathOf
<1> HIDE DEF path, q, e, mark
<1>3. /\ DOMAIN r = {PathOf(p, f) : f \in N}
      /\ \A x \in DOMAIN r :
           /\ r[x] = [marker |-> r[x].marker, sums |-> r[x].sums]
           /\ r[x].sums = UNION {f[2].sums : f \in {g \in N : PathOf(p, g) = x}}
           /\ \E f \in N : /\ PathOf(p, f) = x
                           /\ r[x].marker = (Coordinate(f[1]) \in p.markers)
  BY DEF Collects
<1>4. DOMAIN q = {PathOf(p, f) : f \in M}
  <2>1. DOMAIN q = DOMAIN r \cup {path}
    BY <1>2
  <2>2. {PathOf(p, f) : f \in M} = {PathOf(p, f) : f \in N} \cup {path}
    BY DEF path
  <2> QED
    BY <1>3, <2>1, <2>2
<1> DEFINE Is(x) ==
             /\ q[x] = [marker |-> q[x].marker, sums |-> q[x].sums]
             /\ q[x].sums = UNION {f[2].sums : f \in {g \in M : PathOf(p, g) = x}}
             /\ \E f \in M : /\ PathOf(p, f) = x
                             /\ q[x].marker = (Coordinate(f[1]) \in p.markers)
<1>5. ASSUME NEW x \in DOMAIN q, x # path PROVE Is(x)
  <2>1. x \in DOMAIN r /\ q[x] = r[x]
    BY <1>2, <1>5
  <2>2. {g \in M : PathOf(p, g) = x} = {g \in N : PathOf(p, g) = x}
    BY <1>5 DEF path
  <2> QED
    BY <1>3, <2>1, <2>2
<1>6. Is(path)
  <2> DEFINE U == UNION {f[2].sums : f \in {g \in N : PathOf(p, g) = path}}
  <2>1. /\ old = [marker |-> old.marker, sums |-> old.sums]
        /\ old.sums = U
        /\ \E f \in M : /\ PathOf(p, f) = path
                        /\ old.marker = (Coordinate(f[1]) \in p.markers)
    <3>1. CASE path \in DOMAIN r
      <4>1. old = r[path]
        BY <3>1
      <4> HIDE DEF old
      <4> QED
        BY <1>3, <3>1, <4>1
    <3>2. CASE path \notin DOMAIN r
      <4>1. old = [marker |-> mark, sums |-> {}]
        BY <3>2
      <4>2. {g \in N : PathOf(p, g) = path} = {}
        BY <1>3, <3>2
      <4>3. U = {}
        BY <4>2
      <4>4. old.marker = mark /\ old.sums = {}
        BY <4>1
      <4>5. old.marker = (Coordinate(e[1]) \in p.markers)
        BY <1>1, <4>4 DEF mark
      <4>6. e \in M /\ PathOf(p, e) = path
        BY DEF path
      <4> HIDE DEF old
      <4> QED
        BY <4>1, <4>3, <4>4, <4>5, <4>6
    <3> QED
      BY <3>1, <3>2
  <2> HIDE DEF old
  <2>2. path \in DOMAIN q /\ q[path] = [old EXCEPT !.sums = @ \cup a.sums]
    BY <1>2
  <2> DEFINE om == old.marker
             os == old.sums
             new == os \cup a.sums
  <2>3. q[path] = [marker |-> om, sums |-> new]
    <3>1. old = [marker |-> om, sums |-> os]
      BY <2>1
    <3> HIDE DEF om, os
    <3>2. [[marker |-> om, sums |-> os] EXCEPT !.sums = @ \cup a.sums]
            = [marker |-> om, sums |-> os \cup a.sums]
      OBVIOUS
    <3> QED
      BY <2>2, <3>1, <3>2
  <2> HIDE DEF om, new
  <2>4. q[path].marker = om /\ q[path].sums = new
    BY <2>3
  <2>5. {g \in M : PathOf(p, g) = path}
          = {g \in N : PathOf(p, g) = path} \cup {e}
    BY DEF path
  <2>6. UNION {f[2].sums : f \in {g \in M : PathOf(p, g) = path}}
          = U \cup e[2].sums
    BY <2>5
  <2>7. new = UNION {f[2].sums : f \in {g \in M : PathOf(p, g) = path}}
    BY <1>1, <2>1, <2>6 DEF new
  <2> QED
    BY <2>1, <2>3, <2>4, <2>7 DEF om
<1>7. \A x \in DOMAIN q : Is(x)
  BY <1>5, <1>6
<1>8. Collects(p, M, q)
  BY <1>4, <1>7 DEF Collects
<1> QED
  BY <1>8 DEF q, e

\* One more component.
Pairs(c) == {<<c, a>> : a \in Verified(c)}

LEMMA CollectsComponent ==
  ASSUME NEW p, NEW N, NEW r, Collects(p, N, r), NEW c,
         c.artifacts \in Seq(Range(c.artifacts))
  PROVE  Collects(p, N \cup Pairs(c), AddComponent(p, r, c))
<1> DEFINE seq == c.artifacts
           n == Len(seq)
           V == Verified(c)
<1>1. n \in Nat /\ DOMAIN seq = 1 .. n
  BY LenProperties
<1>2. PICK it :
        /\ IsLoop(p, c, "artifact", r, seq, it, n)
        /\ AddComponent(p, r, c) = it[1 .. n]
  BY <1>1, ComponentLoop
<1>3. /\ it[1 .. 0] = r
      /\ \A k \in 1 .. n :
           it[1 .. k] = Turn(p, c, "artifact", it[1 .. k - 1], seq[k])
  BY <1>1, <1>2, LoopTurns DEF Looped
<1> DEFINE Upto(k) == {<<c, a>> : a \in {b \in V : \E i \in 1 .. k : seq[i] = b}}
           T(k) == Collects(p, N \cup Upto(k), it[1 .. k])
           Bad == {k \in 0 .. n : ~T(k)}
<1>4. T(0)
  <2>1. Upto(0) = {} /\ N \cup {} = N
    OBVIOUS
  <2> HIDE DEF Upto
  <2> QED
    BY <1>3, <2>1
<1>5. ASSUME NEW k \in 1 .. n, T(k - 1) PROVE T(k)
  <2> DEFINE j == k - 1
             a == seq[k]
  <2>1. it[1 .. k] = IF a \in V THEN AddArtifact(p, c, it[1 .. j], a)
                     ELSE it[1 .. j]
    BY <1>3, Zenon DEF Turn
  <2>2. \A i : i \in 1 .. k <=> i \in 1 .. j \/ i = k
    BY <1>1
  <2>3. Collects(p, N \cup Upto(j), it[1 .. j])
    BY <1>5
  <2> HIDE DEF j, a, V
  <2>4. CASE a \in V
    <3>1. Upto(k) = Upto(j) \cup {<<c, a>>}
      BY <2>2, <2>4 DEF a
    <3>2. N \cup Upto(k) = (N \cup Upto(j)) \cup {<<c, a>>}
      BY <3>1
    <3> HIDE DEF Upto
    <3>3. Collects(p, (N \cup Upto(j)) \cup {<<c, a>>},
                   AddArtifact(p, c, it[1 .. j], a))
      BY <2>3, CollectsArtifact
    <3> QED
      BY <2>1, <2>4, <3>2, <3>3
  <2>5. CASE a \notin V
    <3>1. Upto(k) = Upto(j)
      BY <2>2, <2>5 DEF a
    <3> HIDE DEF Upto
    <3> QED
      BY <2>1, <2>3, <2>5, <3>1
  <2> QED
    BY <2>4, <2>5
<1> HIDE DEF T
<1>6. Bad = {}
  <2> SUFFICES ASSUME Bad # {} PROVE FALSE
    OBVIOUS
  <2>1. Bad \in SUBSET Nat
    BY <1>1
  <2>2. PICK k \in Bad : \A x \in Bad : k <= x
    <3> HIDE DEF Bad
    <3> QED
      BY <2>1, LeastElement
  <2>3. k \in 1 .. n /\ ~T(k)
    BY <1>1, <1>4
  <2>4. k - 1 \in 0 .. n /\ ~(k <= k - 1)
    BY <1>1, <2>3
  <2>5. T(k - 1)
    BY <2>2, <2>4
  <2> QED
    BY <1>5, <2>3, <2>5
<1>7. T(n)
  BY <1>1, <1>6
<1>8. Upto(n) = Pairs(c)
  <2>1. \A b \in V : \E i \in 1 .. n : seq[i] = b
    BY <1>1 DEF Verified, Range
  <2> QED
    BY <2>1 DEF Pairs
<1> QED
  BY <1>2, <1>7, <1>8 DEF T

\* The whole project.
Chosen(p) == {c \in Range(p.components) : Selected(p, c)}
Pairing(p) == UNION {Pairs(c) : c \in Chosen(p)}

Lists(p) ==
  /\ p.components \in Seq(Range(p.components))
  /\ \A c \in Range(p.components) : c.artifacts \in Seq(Range(c.artifacts))

LEMMA CollectsProject ==
  ASSUME NEW p, Lists(p)
  PROVE  Collects(p, Pairing(p), artifactsByPath(p))
<1> DEFINE seq == p.components
           n == Len(seq)
<1>1. n \in Nat /\ DOMAIN seq = 1 .. n
  BY LenProperties DEF Lists
<1>2. PICK it :
        /\ IsLoop(p, p, "component", <<>>, seq, it, n)
        /\ artifactsByPath(p) = it[1 .. n]
  BY <1>1, ProjectLoop
<1>3. /\ it[1 .. 0] = <<>>
      /\ \A k \in 1 .. n :
           it[1 .. k] = Turn(p, p, "component", it[1 .. k - 1], seq[k])
  <2>1. Looped(p, p, "component", <<>>, seq, it, n)
    BY <1>1, <1>2, LoopTurns
  <2> QED
    BY <2>1 DEF Looped
<1> DEFINE Upto(k) ==
             UNION {Pairs(c) : c \in {d \in Chosen(p) :
                                        \E i \in 1 .. k : seq[i] = d}}
           T(k) == Collects(p, Upto(k), it[1 .. k])
           Bad == {k \in 0 .. n : ~T(k)}
<1>4. T(0)
  <2>1. Upto(0) = {}
    OBVIOUS
  <2> HIDE DEF Upto
  <2> QED
    BY <1>3, <2>1, CollectsNothing
<1>5. ASSUME NEW k \in 1 .. n, T(k - 1) PROVE T(k)
  <2> DEFINE j == k - 1
             c == seq[k]
  <2>1. it[1 .. k] = IF Selected(p, c) THEN AddComponent(p, it[1 .. j], c)
                     ELSE it[1 .. j]
    <3>1. "component" # "artifact"
      OBVIOUS
    <3> QED
      BY <1>3, <3>1, Zenon DEF Turn
  <2>2. \A i : i \in 1 .. k <=> i \in 1 .. j \/ i = k
    BY <1>1
  <2>3. Collects(p, Upto(j), it[1 .. j])
    BY <1>5
  <2>4. c \in Range(p.components)
    BY <1>1 DEF Range
  <2> HIDE DEF j
  <2>5. CASE Selected(p, c)
    <3>1. c \in Chosen(p)
      BY <2>4, <2>5 DEF Chosen
    <3>2. {d \in Chosen(p) : \E i \in 1 .. k : seq[i] = d}
            = {d \in Chosen(p) : \E i \in 1 .. j : seq[i] = d} \cup {c}
      BY <2>2, <3>1
    <3>3. Upto(k) = Upto(j) \cup Pairs(c)
      BY <3>2
    <3> HIDE DEF Upto, c
    <3>4. c.artifacts \in Seq(Range(c.artifacts))
      BY <2>4 DEF Lists
    <3>5. Collects(p, Upto(j) \cup Pairs(c), AddComponent(p, it[1 .. j], c))
      BY <2>3, <3>4, CollectsComponent
    <3> QED
      BY <2>1, <2>5, <3>3, <3>5
  <2>6. CASE ~Selected(p, c)
    <3>1. c \notin Chosen(p)
      BY <2>6 DEF Chosen
    <3>2. {d \in Chosen(p) : \E i \in 1 .. k : seq[i] = d}
            = {d \in Chosen(p) : \E i \in 1 .. j : seq[i] = d}
      BY <2>2, <3>1
    <3>3. Upto(k) = Upto(j)
      BY <3>2
    <3> HIDE DEF Upto
    <3> QED
      BY <2>1, <2>3, <2>6, <3>3
  <2> QED
    BY <2>5, <2>6
<1> HIDE DEF T
<1>6. Bad = {}
  <2> SUFFICES ASSUME Bad # {} PROVE FALSE
    OBVIOUS
  <2>1. Bad \in SUBSET Nat
    BY <1>1
  <2>2. PICK k \in Bad : \A x \in Bad : k <= x
    <3> HIDE DEF Bad
    <3> QED
      BY <2>1, LeastElement
  <2>3. k \in 1 .. n /\ ~T(k)
    BY <1>1, <1>4
  <2>4. k - 1 \in 0 .. n /\ ~(k <= k - 1)
    BY <1>1, <2>3
  <2>5. T(k - 1)
    BY <2>2, <2>4
  <2> QED
    BY <1>5, <2>3, <2>5
<1>7. T(n)
  BY <1>1, <1>6
<1>8. Upto(n) = Pairing(p)
  <2>1. \A d \in Chosen(p) : \E i \in 1 .. n : seq[i] = d
    BY <1>1 DEF Chosen, Range
  <2>2. {d \in Chosen(p) : \E i \in 1 .. n : seq[i] = d} = Chosen(p)
    BY <2>1
  <2> QED
    BY <2>2 DEF Pairing
<1> QED
  BY <1>2, <1>7, <1>8 DEF T

-----------------------------------------------------------------------------
(* The manifest is exact.                                                  *)

LEMMA PrefixSame ==
  ASSUME NEW x \in Seq(STRING), NEW h \in Seq(STRING), IsPrefix(x, h),
         Len(h) <= Len(x)
  PROVE  x = h
<1>1. Len(x) \in Nat /\ Len(h) \in Nat
  BY LenProperties
<1>2. Len(x) <= Len(h) /\ SubSeq(x, 1, Len(x)) = SubSeq(h, 1, Len(x))
  BY DEF IsPrefix
<1>3. Len(x) = Len(h)
  BY <1>1, <1>2
<1>4. SubSeq(x, 1, Len(x)) = x /\ SubSeq(h, 1, Len(h)) = h
  BY SubSeqFull
<1> QED
  BY <1>2, <1>3, <1>4

Siblings(p, c) ==
  {d.version : d \in {d \in Range(p.components) : d.module = c.module}}

\* publishedArtifactVersion finds the version a wanted file has.
LEMMA HomeFound ==
  ASSUME NEW p, Conventional(p), NEW c \in Chosen(p), NEW a \in Verified(c)
  PROVE  publishedArtifactVersion(c, a.name, Siblings(p, c)) = a.home
<1> DEFINE V == Siblings(p, c)
           named == {v \in V : Names(a.name, v)}
<1>1. /\ c \in Range(p.components) /\ a \in Range(c.artifacts)
      /\ Coordinate(c) \in p.locked \cup p.markers
      /\ Last(a.name) \notin {"sources", "javadoc"}
  BY DEF Chosen, Selected, Verified, ignoredGradleArtifact
<1>2. c.version \in V /\ V \cup {c.version} = V
  BY <1>1 DEF Siblings
<1>3. V \subseteq Seq(STRING)
  BY DEF Conventional, Siblings
<1>4. IF named = {} THEN a.home = c.version
      ELSE a.home \in named /\ \A v \in named : IsPrefix(v, a.home)
  BY <1>1 DEF Conventional, Siblings
<1>5. \A v : namesVersion(a.name, v) = Names(a.name, v)
  BY DEF namesVersion, Names
<1>6. publishedArtifactVersion(c, a.name, V)
        = IF named = {} THEN c.version
          ELSE CHOOSE v \in named : \A u \in named : Len(u) <= Len(v)
  <2> DEFINE read == {v \in V \cup {c.version} : namesVersion(a.name, v)}
  <2>1. read = named
    BY <1>2, <1>5
  <2>2. publishedArtifactVersion(c, a.name, V)
          = IF read = {} THEN c.version
            ELSE CHOOSE v \in read : \A u \in read : Len(u) <= Len(v)
    BY DEF publishedArtifactVersion
  <2> HIDE DEF V, named, read
  <2> QED
    BY <2>1, <2>2, Zenon
<1>7. CASE named = {}
  BY <1>4, <1>6, <1>7
<1>8. CASE named # {}
  <2> DEFINE x == CHOOSE v \in named : \A u \in named : Len(u) <= Len(v)
             h == a.home
  <2>1. h \in named /\ \A v \in named : IsPrefix(v, h)
    BY <1>4, <1>8
  <2>2. named \subseteq Seq(STRING)
    BY <1>3
  <2> HIDE DEF named, h
  <2>3. \A v \in named : Len(v) <= Len(h)
    BY <2>1 DEF IsPrefix
  <2>4. x \in named /\ \A u \in named : Len(u) <= Len(x)
    BY <2>1, <2>3
  <2> HIDE DEF x
  <2>5. x = h
    BY <2>1, <2>2, <2>4, PrefixSame
  <2> QED
    BY <1>6, <1>8, <2>5 DEF x, h
<1> QED
  BY <1>7, <1>8

\* Where a pair's file is wanted, and what is wanted of it.
Home(e) ==
  [module |-> e[1].module, version |-> e[2].home, name |-> e[2].name]
Marked(p, e) == Coordinate(e[1]) \in p.markers
Want(p, e) == [path |-> Home(e), marker |-> Marked(p, e), sums |-> e[2].sums]

LEMMA PairIs ==
  ASSUME NEW p, NEW e \in Pairing(p)
  PROVE  /\ e[1] \in Chosen(p) /\ e[2] \in Verified(e[1])
         /\ e = <<e[1], e[2]>>
  BY DEF Pairing, Pairs

LEMMA PathIsHome ==
  ASSUME NEW p, Conventional(p), NEW e \in Pairing(p)
  PROVE  PathOf(p, e) = Home(e)
<1> DEFINE c == e[1]
           a == e[2]
<1>1. c \in Chosen(p) /\ a \in Verified(c)
  BY PairIs
<1> HIDE DEF c, a
<1>2. publishedArtifactVersion(c, a.name, Siblings(p, c)) = a.home
  BY <1>1, HomeFound
<1> QED
  BY <1>2, Zenon DEF PathOf, mavenArtifactPath, Siblings, Home, c, a

LEMMA WantedAre ==
  ASSUME NEW p, Conventional(p)
  PROVE  WantedArtifacts(p) = {Want(p, e) : e \in Pairing(p)}
<1>1. ASSUME NEW c \in Chosen(p)
      PROVE  {x \in Range(c.artifacts) : x.sums # {} /\ Last(x.name) = "jar"}
               = Verified(c)
  <2>1. \A x \in Range(c.artifacts) :
          Last(x.name) \in {"jar", "sources", "javadoc"}
    BY DEF Conventional, Chosen, Selected
  <2> QED
    BY <2>1 DEF Verified, ignoredGradleArtifact
<1>2. {d \in Range(p.components) : Coordinate(d) \in p.locked \cup p.markers}
        = Chosen(p)
  BY DEF Chosen, Selected
<1> DEFINE W(c, a) ==
             [path |-> [module |-> c.module, version |-> a.home,
                        name |-> a.name],
              marker |-> Coordinate(c) \in p.markers, sums |-> a.sums]
<1>3. WantedArtifacts(p)
        = UNION {{W(c, a) : a \in {x \in Range(c.artifacts) :
                                     x.sums # {} /\ Last(x.name) = "jar"}} :
                   c \in Chosen(p)}
  BY <1>2, Zenon DEF WantedArtifacts
<1>4. \A c, a : Want(p, <<c, a>>) = W(c, a)
  BY DEF Want, Home, Marked
<1> HIDE DEF W
<1>5. ASSUME NEW w \in WantedArtifacts(p)
      PROVE  w \in {Want(p, e) : e \in Pairing(p)}
  <2>1. PICK c \in Chosen(p) :
          w \in {W(c, a) : a \in {x \in Range(c.artifacts) :
                                    x.sums # {} /\ Last(x.name) = "jar"}}
    BY <1>3
  <2>2. PICK a \in Verified(c) : w = W(c, a)
    BY <1>1, <2>1
  <2>3. <<c, a>> \in Pairing(p)
    BY <2>2 DEF Pairing, Pairs
  <2> QED
    BY <1>4, <2>2, <2>3
<1>6. ASSUME NEW e \in Pairing(p) PROVE Want(p, e) \in WantedArtifacts(p)
  <2> DEFINE c == e[1]
             a == e[2]
  <2>1. c \in Chosen(p) /\ a \in Verified(c) /\ e = <<c, a>>
    BY PairIs
  <2> HIDE DEF c, a
  <2>2. Want(p, e) = W(c, a)
    BY <1>4, <2>1
  <2>3. a \in {x \in Range(c.artifacts) : x.sums # {} /\ Last(x.name) = "jar"}
    BY <1>1, <2>1
  <2> QED
    BY <1>3, <2>1, <2>2, <2>3
<1> QED
  BY <1>5, <1>6

\* What an accepted manifest is made of.
Entry(r, x) == [path |-> x, marker |-> r[x].marker, sums |-> r[x].sums]
Kept(p, x) == gradleCoordinate(x.module, x.version) \notin p.excluded

LEMMA ManifestIs ==
  ASSUME NEW p, Manifest(p).err = ""
  PROVE  /\ Manifest(p).artifacts =
              {a \in {Entry(artifactsByPath(p), x) :
                        x \in DOMAIN artifactsByPath(p)} : Kept(p, a.path)}
         /\ validatePluginMarkerCoordinates(p)
         /\ p.locked \subseteq {Coordinate(c) : c \in Chosen(p)}
<1> DEFINE r == artifactsByPath(p)
           D == DiscoverGradle(p)
           E == {Entry(r, x) : x \in DOMAIN r}
           found == {Coordinate(c) : c \in Chosen(p)}
<1>1. "" # "exclusion" /\ "" # "not locked" /\ "" # "nothing left"
  OBVIOUS
<1>2. /\ Manifest(p).err = "" => D.err = ""
      /\ D.err = "" => Manifest(p) \in
           {Failed("exclusion"), Failed("not locked"), Failed("nothing left"),
            [D EXCEPT !.artifacts = {a \in D.artifacts : Kept(p, a.path)}]}
  BY DEF Manifest, ExcludeGradleCoordinates, Kept
<1>3. D.err = ""
  BY <1>2
<1>4. /\ D = [err |-> "", artifacts |-> E]
      /\ validatePluginMarkerCoordinates(p) /\ p.locked \ found = {}
  BY <1>3 DEF DiscoverGradle, Failed, Entry, Chosen, missingCoordinates
<1> DEFINE K == {a \in E : Kept(p, a.path)}
           ok == ""
<1>5. D = [err |-> ok, artifacts |-> E]
  BY <1>4, Zenon
<1> HIDE DEF D, E, ok
<1>6. D.artifacts = E
  BY <1>5
<1>7. {a \in D.artifacts : Kept(p, a.path)} = K
  BY <1>6
<1> HIDE DEF K
<1>8. [D EXCEPT !.artifacts = K].artifacts = K
  BY <1>5
<1>9. Manifest(p) \in
        {Failed("exclusion"), Failed("not locked"), Failed("nothing left"),
         [D EXCEPT !.artifacts = K]}
  BY <1>2, <1>3, <1>7, Zenon
<1>10. Manifest(p) = [D EXCEPT !.artifacts = K]
  <2>1. \A why : Failed(why).err = why
    BY DEF Failed
  <2> QED
    BY <1>1, <1>9, <2>1, Zenon
<1>11. p.locked \subseteq found
  BY <1>4
<1> QED
  BY <1>4, <1>8, <1>10, <1>11, Zenon DEF K, E

\* An accepted manifest is what is wanted.
Exact(p) ==
  /\ p.locked \subseteq {Coordinate(c) : c \in Range(p.components)}
  /\ {[path |-> a.path, marker |-> a.marker] : a \in Manifest(p).artifacts}
       = {[path |-> a.path, marker |-> a.marker] : a \in Wanted(p)}
  /\ \A a \in Manifest(p).artifacts :
       /\ a.sums = UNION {b.sums : b \in {x \in Wanted(p) : x.path = a.path}}
       /\ a.marker = (\E m \in p.markers : m.module = a.path.module)

\* A module's chosen components are all markers, or none is.
LEMMA MarkedModule ==
  ASSUME NEW p, Conventional(p), validatePluginMarkerCoordinates(p),
         NEW e \in Pairing(p)
  PROVE  Marked(p, e) = (\E m \in p.markers : m.module = e[1].module)
<1> DEFINE c == e[1]
           l == Coordinate(c)
<1>1. l \in p.locked \cup p.markers
  BY PairIs DEF Chosen, Selected
<1>2. l.module = c.module
  BY DEF Coordinate, gradleCoordinate
<1>3. \A m \in p.markers : m.module \in MarkerModule
  BY DEF validatePluginMarkerCoordinates
<1>4. \A k \in p.locked, m \in p.markers :
        k.module = m.module /\ m.module \in MarkerModule => k \in p.markers
  BY DEF Conventional
<1> HIDE DEF c, l
<1>5. (l \in p.markers) = (\E m \in p.markers : m.module = c.module)
  <2>1. ASSUME l \in p.markers PROVE \E m \in p.markers : m.module = c.module
    BY <1>2, <2>1
  <2>2. ASSUME NEW m \in p.markers, m.module = c.module PROVE l \in p.markers
    BY <1>1, <1>2, <1>3, <1>4, <2>2
  <2> DEFINE a == l \in p.markers
             b == \E m \in p.markers : m.module = c.module
  <2>3. a \in BOOLEAN /\ b \in BOOLEAN /\ (a <=> b)
    BY <2>1, <2>2
  <2> HIDE DEF a, b
  <2>4. a = b
    BY <2>3
  <2> QED
    BY <2>4, Zenon DEF a, b
<1> QED
  BY <1>5, Zenon DEF Marked, l, c

LEMMA ManifestMade ==
  ASSUME NEW p, Conventional(p), Manifest(p).err = ""
  PROVE  Exact(p)
<1> DEFINE r == artifactsByPath(p)
           N == Pairing(p)
           A == Manifest(p).artifacts
           W == Wanted(p)
           P(a) == [path |-> a.path, marker |-> a.marker]
<1>1. /\ A = {a \in {Entry(r, x) : x \in DOMAIN r} : Kept(p, a.path)}
      /\ validatePluginMarkerCoordinates(p)
      /\ p.locked \subseteq {Coordinate(c) : c \in Chosen(p)}
  BY ManifestIs
<1>2. Collects(p, N, r)
  BY CollectsProject DEF Lists, Conventional
<1>3. \A e \in N : PathOf(p, e) = Home(e)
  BY PathIsHome
<1>4. \A e \in N : Marked(p, e) = (\E m \in p.markers : m.module = e[1].module)
  BY <1>1, MarkedModule
<1> HIDE DEF r, N, A
<1>5. DOMAIN r = {Home(e) : e \in N}
  <2>1. DOMAIN r = {PathOf(p, e) : e \in N}
    BY <1>2 DEF Collects
  <2>2. {PathOf(p, e) : e \in N} = {Home(e) : e \in N}
    BY <1>3, Zenon
  <2> QED
    BY <2>1, <2>2
<1>6. ASSUME NEW x \in DOMAIN r
      PROVE  /\ r[x].sums = UNION {e[2].sums : e \in {f \in N : Home(f) = x}}
             /\ \E e \in N : Home(e) = x /\ r[x].marker = Marked(p, e)
  <2>1. {f \in N : PathOf(p, f) = x} = {f \in N : Home(f) = x}
    BY <1>3
  <2>2. /\ r[x].sums = UNION {e[2].sums : e \in {f \in N : PathOf(p, f) = x}}
        /\ \E e \in N : PathOf(p, e) = x
                        /\ r[x].marker = (Coordinate(e[1]) \in p.markers)
    BY <1>2 DEF Collects
  <2> QED
    BY <1>3, <2>1, <2>2 DEF Marked
<1>7. \A x : /\ Entry(r, x).path = x /\ Entry(r, x).marker = r[x].marker
             /\ Entry(r, x).sums = r[x].sums
  BY DEF Entry
<1>8. \A e : /\ Want(p, e).path = Home(e) /\ Want(p, e).marker = Marked(p, e)
             /\ Want(p, e).sums = e[2].sums /\ Home(e).module = e[1].module
  BY DEF Want, Home
<1>9. W = {w \in {Want(p, e) : e \in N} : Kept(p, w.path)}
  BY WantedAre DEF Wanted, Kept, gradleCoordinate, N
<1> HIDE DEF W
<1>10. \A e, f \in N : Home(e) = Home(f) => Marked(p, e) = Marked(p, f)
  <2> TAKE e, f \in N
  <2> HAVE Home(e) = Home(f)
  <2>1. e[1].module = f[1].module
    BY <1>8
  <2> QED
    BY <1>4, <2>1
<1>11. ASSUME NEW a \in A
       PROVE  /\ a.path \in DOMAIN r /\ Kept(p, a.path)
              /\ a.marker = r[a.path].marker /\ a.sums = r[a.path].sums
  <2>1. PICK x \in DOMAIN r : a = Entry(r, x) /\ Kept(p, a.path)
    BY <1>1
  <2> QED
    BY <1>7, <2>1, ZenonT(60)
<1>12. ASSUME NEW e \in N, Kept(p, Home(e))
       PROVE  Want(p, e) \in W /\ Entry(r, Home(e)) \in A
  BY <1>1, <1>5, <1>7, <1>8, <1>9, <1>12
<1>13. {P(a) : a \in A} = {P(w) : w \in W}
  <2>0. \A a, w : a.path = w.path /\ a.marker = w.marker => P(a) = P(w)
    OBVIOUS
  <2> HIDE DEF P
  <2>1. ASSUME NEW a \in A PROVE \E w \in W : P(a) = P(w)
    <3>1. PICK e \in N : Home(e) = a.path /\ r[a.path].marker = Marked(p, e)
      BY <1>6, <1>11
    <3>2. Want(p, e) \in W
      BY <1>11, <1>12, <3>1
    <3> QED
      BY <1>8, <1>11, <2>0, <3>1, <3>2
  <2>2. ASSUME NEW w \in W PROVE \E a \in A : P(a) = P(w)
    <3>1. PICK e \in N : w = Want(p, e) /\ Kept(p, Home(e))
      BY <1>8, <1>9
    <3> DEFINE x == Home(e)
    <3>2. Entry(r, x) \in A /\ x \in DOMAIN r
      BY <1>5, <1>12, <3>1
    <3>3. r[x].marker = Marked(p, e)
      BY <1>6, <1>10, <3>2
    <3> QED
      BY <1>7, <1>8, <2>0, <3>1, <3>2, <3>3
  <2>3. \A z : z \in {P(a) : a \in A} <=> z \in {P(w) : w \in W}
    BY <2>1, <2>2
  <2> QED
    BY <2>3
<1>14. ASSUME NEW a \in A
       PROVE  a.sums = UNION {b.sums : b \in {w \in W : w.path = a.path}}
  <2> DEFINE x == a.path
  <2>1. /\ x \in DOMAIN r /\ Kept(p, x)
        /\ a.sums = UNION {e[2].sums : e \in {f \in N : Home(f) = x}}
    BY <1>6, <1>11
  <2>2. {w \in W : w.path = x} = {Want(p, e) : e \in {f \in N : Home(f) = x}}
    BY <1>8, <1>9, <2>1
  <2>3. {b.sums : b \in {w \in W : w.path = x}}
          = {e[2].sums : e \in {f \in N : Home(f) = x}}
    <3> DEFINE M == {f \in N : Home(f) = x}
               S == {w \in W : w.path = x}
    <3>1. S = {Want(p, e) : e \in M}
      BY <2>2
    <3> HIDE DEF M, S
    <3>2. \A b \in S : \E e \in M : b.sums = e[2].sums
      BY <1>8, <3>1
    <3>3. \A e \in M : \E b \in S : b.sums = e[2].sums
      BY <1>8, <3>1
    <3>4. \A z \in {b.sums : b \in S} : z \in {e[2].sums : e \in M}
      BY <3>2
    <3>5. \A z \in {e[2].sums : e \in M} : z \in {b.sums : b \in S}
      BY <3>3
    <3>6. {b.sums : b \in S} = {e[2].sums : e \in M}
      BY <3>4, <3>5
    <3> QED
      BY <3>6 DEF M, S
  <2> QED
    BY <2>1, <2>3
<1>15. ASSUME NEW a \in A
       PROVE  a.marker = (\E m \in p.markers : m.module = a.path.module)
  <2>1. PICK e \in N : Home(e) = a.path /\ r[a.path].marker = Marked(p, e)
    BY <1>6, <1>11
  <2> DEFINE IsMarkers(x) == \E m \in p.markers : m.module = x
  <2>2. Marked(p, e) = IsMarkers(e[1].module)
    BY <1>4, Zenon
  <2> HIDE DEF IsMarkers
  <2>3. a.path.module = e[1].module
    BY <1>8, <2>1
  <2>4. a.marker = Marked(p, e)
    BY <1>11, <2>1
  <2>5. a.marker = IsMarkers(a.path.module)
    BY <2>2, <2>3, <2>4, Zenon
  <2> QED
    BY <2>5, Zenon DEF IsMarkers
<1>16. p.locked \subseteq {Coordinate(c) : c \in Range(p.components)}
  BY <1>1 DEF Chosen
<1> QED
  BY <1>13, <1>14, <1>15, <1>16 DEF Exact, A, W

-----------------------------------------------------------------------------
(* What holds of a worker that has a job.                                  *)

LEMMA AtWork ==
  ASSUME Types, ListInv, JobInv, Running, NEW w \in Busy
  PROVE  /\ job[w] \in DOMAIN manifest /\ job[w] \in 1 .. Len(manifest)
         /\ Job(w) \in Range(manifest) /\ Job(w) = manifest[job[w]]
         /\ Route(w) = routeCandidates(Job(w))
<1>1. /\ phase \in {"pass1", "pass2"} /\ next \in Nat
      /\ manifest \in Seq(Manifest(project).artifacts)
      /\ next <= Len(manifest) + 1 /\ job[w] \in 1 .. next - 1
  BY DEF Running, Types, ListInv, JobInv
<1>2. job[w] \in DOMAIN manifest /\ job[w] \in 1 .. Len(manifest)
  BY <1>1
<1>3. Job(w) \in Range(manifest) /\ Job(w) = manifest[job[w]]
  BY <1>2 DEF Job, Range
<1>4. phase # "pass1" => routes[job[w]] = routeCandidates(manifest[job[w]])
  BY <1>1, <1>2 DEF ListInv
<1> QED
  BY <1>1, <1>2, <1>3, <1>4 DEF Route, Job

-----------------------------------------------------------------------------
(* Types.                                                                  *)

\* What a pass starts with has the right types.
LEMMA FreshTypes ==
  ASSUME FreshPass, parent' \in {"live", "done"}
  PROVE  /\ next' \in Nat \ {0} /\ sending' \in {"open", "closed"}
         /\ pc' \in [Worker -> WorkerPhase] /\ job' \in [Worker -> Nat]
         /\ tries' \in [Worker -> 0 .. RateLimitRetries]
         /\ status' \in [Worker -> CacheStatus \cup {"none"}]
         /\ pacer' \subseteq Worker /\ ctx' \in {"live", "done"}
         /\ firstErr' = "none"
         /\ stats' \in [artifacts : Nat, hits : Nat, misses : Nat]
  BY PrewarmAssumption DEF FreshPass, NoStats, WorkerPhase

LEMMA TypesKept ==
  ASSUME IInv, [Next]_vars
  PROVE  Types'
<1>0. Types /\ AnswerInv /\ SavedInv
  BY DEF IInv, CheckInv
<1> USE PrewarmAssumption DEF Types, Phase, RouteName
<1>1. ASSUME NEW w \in Worker, Dispatch(w) PROVE Types'
  BY <1>0, <1>1 DEF Dispatch, runVars, errVars, diskVars, WorkerPhase, histVars
<1>2. ASSUME NEW w \in Worker, NEW from, NEW to \in WorkerPhase,
             Moves(w, from, to)
      PROVE Types'
  BY <1>0, <1>2 DEF Moves, Go, runVars, feedVars, errVars, diskVars
<1>3. ASSUME NEW w \in Worker, SkipCompleted(w) PROVE Types'
  BY <1>0, <1>3 DEF SkipCompleted, Completed, Go, Count, runVars, feedVars,
     errVars, diskVars, WorkerPhase
<1>4. ASSUME NEW w \in Worker, SendRequest(w) PROVE Types'
  BY <1>0, <1>4 DEF SendRequest, Go, runVars, feedVars, errVars, diskVars,
     WorkerPhase
<1>5. ASSUME NEW w \in Worker, Answered(w) PROVE Types'
  <2>1. PICK st \in CacheStatus : status' = [status EXCEPT ![w] = st]
    BY <1>5 DEF Answered, CacheStatus
  <2> QED
    BY <1>0, <1>5, <2>1 DEF Answered, Go, runVars, feedVars, errVars, diskVars,
       WorkerPhase
<1>6. ASSUME NEW w \in Worker, NotFound(w) \/ RateLimited(w) PROVE Types'
  BY <1>0, <1>6 DEF NotFound, RateLimited, Go, runVars, feedVars, errVars,
     diskVars, WorkerPhase
<1>7. ASSUME NEW w \in Worker, FetchFailed(w) \/ ExpectedHit(w) PROVE Types'
  BY <1>0, <1>7 DEF FetchFailed, ExpectedHit, fail, Go, runVars, feedVars,
     diskVars, WorkerPhase
<1>8. ASSUME NEW w \in Worker, AcceptStatus(w)
      PROVE /\ pc' \in [Worker -> WorkerPhase]
            /\ ctx' \in {"live", "done"} /\ parent' = parent
            /\ firstErr' \in {"none", "fetch", "status", "save",
                              "expected_hit"}
            /\ stats' \in [artifacts : Nat, hits : Nat, misses : Nat]
            /\ pc[w] = "verified" /\ Running
  BY <1>0, <1>8 DEF AcceptStatus, Go, Count, fail, errVars, WorkerPhase
<1>9. ASSUME NEW w \in Worker, pc[w] = "verified", Running
      PROVE  \A p \in DOMAIN Recorded(w) :
               /\ Recorded(w)[p].route \in RouteName
               /\ Recorded(w)[p].status \in CacheStatus
  <2>1. status[w] \in CacheStatus
    BY <1>0, <1>9 DEF AnswerInv
  <2>2. Route(w) \in RouteName
    <3>1. phase = "pass1" => Route(w) \in RouteName
      BY DEF Route, routeCandidates
    <3>2. phase = "pass2" => Route(w) \in RouteName
      <4>1. w \in Busy
        BY <1>9 DEF Busy, Working, Asking
      <4> QED
        BY <1>9, <4>1, AtWork DEF IInv, routeCandidates
    <3> QED
      BY <1>9, <3>1, <3>2 DEF Running
  <2> QED
    BY <1>0, <2>1, <2>2 DEF Recorded
<1>10. ASSUME NEW w \in Worker, CompleteFirst(w) PROVE Types'
  <2>1. /\ pc' \in [Worker -> WorkerPhase]
        /\ ctx' \in {"live", "done"} /\ parent' = parent
        /\ firstErr' \in {"none", "fetch", "status", "save", "expected_hit"}
        /\ stats' \in [artifacts : Nat, hits : Nat, misses : Nat]
        /\ pc[w] = "verified" /\ Running
    BY <1>8, <1>10 DEF CompleteFirst
  <2>2. entries' = entries \/ entries' = Recorded(w)
    BY <1>10 DEF CompleteFirst, record, diskVars
  <2>3. \A p \in DOMAIN entries' :
          entries'[p].route \in RouteName /\ entries'[p].status \in CacheStatus
    BY <1>0, <1>9, <2>1, <2>2
  <2>4. \A i \in DOMAIN routes' : routes'[i] \in RouteName \cup {"none"}
    BY <1>0, <1>10 DEF CompleteFirst, Route, routeCandidates
  <2> QED
    BY <1>0, <1>10, <2>1, <2>3, <2>4 DEF CompleteFirst, runVars, feedVars
<1>11. ASSUME NEW w \in Worker, SaveFails(w) PROVE Types'
  <2>1. pc[w] = "verified" /\ Running /\ entries' = Recorded(w)
    BY <1>11 DEF SaveFails, Go
  <2>2. \A p \in DOMAIN entries' :
          entries'[p].route \in RouteName /\ entries'[p].status \in CacheStatus
    BY <1>9, <2>1
  <2> QED
    BY <1>0, <1>11, <2>2 DEF SaveFails, fail, Go, runVars, feedVars, WorkerPhase
<1>12. ASSUME NEW w \in Worker, CompleteSecond(w) PROVE Types'
  <2>1. /\ pc' \in [Worker -> WorkerPhase]
        /\ ctx' \in {"live", "done"} /\ parent' = parent
        /\ firstErr' \in {"none", "fetch", "status", "save", "expected_hit"}
        /\ stats' \in [artifacts : Nat, hits : Nat, misses : Nat]
    BY <1>8, <1>12 DEF CompleteSecond
  <2> QED
    BY <1>0, <1>12, <2>1 DEF CompleteSecond, runVars, feedVars, diskVars
<1>13. CASE Main
  <2>1. CASE EndFirstPass
    <3>1. FreshPass /\ parent' = parent
      BY <2>1 DEF EndFirstPass
    <3> QED
      BY <1>0, <2>1, <3>1, FreshTypes DEF EndFirstPass, diskVars
  <2>2. CASE CloseJobs
    BY <1>0, <2>2 DEF CloseJobs, runVars, errVars, diskVars
  <2>3. CASE EndPassFailed \/ OutputFails \/ EndSecondPass
    BY <1>0, <2>3 DEF EndPassFailed, OutputFails, EndSecondPass, passVars,
       poolVars, feedVars, errVars, diskVars
  <2> QED
    BY <1>13, <2>1, <2>2, <2>3 DEF Main
<1>14. CASE StartRun
  <2>1. FreshPass /\ parent' = "live"
    BY <1>14 DEF StartRun
  <2>2. /\ runs < MaxRuns /\ runs' = runs + 1
        /\ phase' \in Phase /\ project' = project
    BY <1>14 DEF StartRun
  <2>3. \A i \in DOMAIN routes' : routes'[i] \in RouteName \cup {"none"}
    BY <1>14 DEF StartRun
  <2>4. entries' = file.completed \/ entries' = <<>>
    BY <1>14 DEF StartRun
  <2>5. \A p \in DOMAIN entries' :
          entries'[p].route \in RouteName /\ entries'[p].status \in CacheStatus
    BY <1>0, <2>4 DEF SavedInv
  <2> QED
    BY <1>0, <2>1, <2>2, <2>3, <2>5, FreshTypes
<1>15. CASE CheckOnly \/ RejectProject \/ RefuseCheckpoint
  <2>1. /\ runs < MaxRuns /\ runs' = runs + 1
        /\ phase' \in Phase /\ project' = project
    BY <1>15 DEF CheckOnly, RejectProject, RefuseCheckpoint
  <2>2. UNCHANGED <<passVars, diskVars>>
    BY <1>15 DEF CheckOnly, RejectProject, RefuseCheckpoint
  <2> QED
    BY <1>0, <2>1, <2>2 DEF passVars, poolVars, feedVars, errVars, diskVars
<1>16. CASE Edit \/ Interrupt \/ Expire
  BY <1>0, <1>16 DEF Edit, Interrupt, Expire, runVars, passVars, poolVars,
     feedVars, errVars, diskVars
<1>17. CASE Crash
  <2>1. FreshPass /\ parent' = "live"
    BY <1>17 DEF Crash
  <2> QED
    BY <1>0, <1>17, <2>1, FreshTypes DEF Crash
<1>18. CASE UNCHANGED vars
  BY <1>0, <1>18 DEF vars, runVars, passVars, poolVars, feedVars, errVars,
     diskVars
<1>19. ASSUME NEW w \in Worker, Step(w) PROVE Types'
  BY <1>1, <1>2, <1>3, <1>4, <1>5, <1>6, <1>7, <1>10, <1>11, <1>12, <1>19
     DEF Step, WorkerExits, FetchArtifact, RetryAfterWait, WaitCancelled,
         WorkerPhase
<1> QED
  BY <1>13, <1>14, <1>15, <1>16, <1>17, <1>18, <1>19 DEF Next

-----------------------------------------------------------------------------
(* The list.                                                               *)

\* The list of a run is made once.
LEMMA ListMade ==
  ASSUME IInv, StartRun
  PROVE  ListInv'
<1> DEFINE m == Manifest(project)
           A == m.artifacts
<1>1. /\ m.err = "" /\ Routable(A) /\ manifest' = SetToSeq(A)
      /\ project' = project /\ next' = 1 /\ phase' = "pass1"
      /\ routes' = [i \in DOMAIN manifest' |-> "none"]
  BY DEF StartRun, FreshPass
<1>2. IsFiniteSet(A)
  BY PrewarmAssumption DEF IInv, Types
<1>3. \A a, b \in A : a.path = b.path => a = b
  BY PathsUnique
<1>4. Manifest(project') = m /\ Routable(A)'
  BY <1>1 DEF Routable
<1> HIDE DEF m
<1>5. /\ manifest' \in Seq(A) /\ Range(manifest') = A
      /\ \A i, j \in DOMAIN manifest' : manifest'[i] = manifest'[j] => i = j
  BY <1>1, <1>2, Listed
<1> HIDE DEF A
<1>6. \A i, j \in DOMAIN manifest' :
        manifest'[i].path = manifest'[j].path => i = j
  BY <1>3, <1>5
<1>7. next' <= Len(manifest') + 1
  <2>1. manifest' \in Seq(A)
    BY <1>5
  <2>2. next' = 1
    BY <1>1
  <2> QED
    BY <2>1, <2>2
<1>8. manifest' \in Seq(Manifest(project').artifacts)
  BY <1>4, <1>5 DEF A
<1>9. /\ Manifest(project').err = ""
      /\ Range(manifest') = Manifest(project').artifacts
  BY <1>1, <1>4, <1>5 DEF A
<1>10. Routable(Manifest(project).artifacts)'
  BY <1>4 DEF A, m
<1>11. DOMAIN routes' = DOMAIN manifest' /\ \A i \in DOMAIN manifest' :
         routes'[i] = "none"
  BY <1>1
<1> QED
  BY <1>1, <1>6, <1>7, <1>8, <1>9, <1>10, <1>11 DEF ListInv

LEMMA ListKept ==
  ASSUME IInv, [Next]_vars
  PROVE  ListInv'
<1>0. Types /\ ListInv /\ JobInv /\ EntryInv /\ PassInv
  BY DEF IInv, CheckInv
<1> USE DEF ListInv, Routable, routeCandidates
<1>1. CASE UNCHANGED <<project, manifest, phase, next, routes>>
  BY <1>0, <1>1
<1>2. CASE phase' \notin {"pass1", "pass2", "ok"}
  BY <1>2
<1>3. ASSUME NEW w \in Worker, Dispatch(w) PROVE ListInv'
  <2>1. /\ UNCHANGED <<project, manifest, phase, routes>> /\ next' = next + 1
        /\ next <= Len(manifest) /\ phase \in {"pass1", "pass2"}
    BY <1>3 DEF Dispatch, runVars, Running
  <2>2. manifest \in Seq(Manifest(project).artifacts) /\ next \in Nat
    BY <1>0, <2>1 DEF Types
  <2>3. next' <= Len(manifest) + 1
    BY <2>1, <2>2
  <2> QED
    BY <1>0, <2>1, <2>3
<1>4. ASSUME NEW w \in Worker, w \in Busy, Running, phase = "pass1",
             UNCHANGED <<project, manifest, phase, next>>,
             routes' = [routes EXCEPT ![job[w]] = routeCandidates(Job(w))]
      PROVE ListInv'
  <2>1. job[w] \in DOMAIN manifest /\ Job(w) = manifest[job[w]]
    BY <1>0, <1>4, AtWork
  <2> QED
    BY <1>0, <1>4, <2>1, ZenonT(60)
<1>5. ASSUME NEW w \in Worker, SkipCompleted(w) PROVE ListInv'
  <2>1. /\ phase = "pass1" /\ Running /\ w \in Busy
        /\ Job(w).path \in DOMAIN entries
        /\ UNCHANGED <<project, manifest, phase, next>>
        /\ routes' = [routes EXCEPT ![job[w]] = entries[Job(w).path].route]
    BY <1>5 DEF SkipCompleted, Completed, Checkpoint, Go, Busy, Working,
       runVars, feedVars
  <2>2. PICK a \in Range(manifest) :
          /\ a.path = Job(w).path
          /\ entries[Job(w).path].route = routeCandidates(a)
    BY <1>0, <2>1 DEF EntryInv
  <2>3. Job(w) \in Range(manifest)
    BY <1>0, <2>1, AtWork
  <2>4. Range(manifest) = Manifest(project).artifacts
    BY <1>0, <2>1
  <2>5. a = Job(w)
    BY <2>2, <2>3, <2>4, PathsUnique
  <2> QED
    BY <1>4, <2>1, <2>2, <2>5
<1>6. ASSUME NEW w \in Worker, CompleteFirst(w) PROVE ListInv'
  <2>1. /\ phase = "pass1" /\ Running /\ w \in Busy
        /\ UNCHANGED <<project, manifest, phase, next>>
        /\ routes' = [routes EXCEPT ![job[w]] = Route(w)]
    BY <1>6 DEF CompleteFirst, AcceptStatus, Go, Busy, Working, Asking,
       runVars, feedVars
  <2>2. Route(w) = routeCandidates(Job(w))
    BY <1>0, <2>1, AtWork
  <2> QED
    BY <1>4, <2>1, <2>2
<1>7. CASE EndFirstPass
  <2>1. /\ Running /\ phase = "pass1" /\ ~PassFails /\ sending = "closed"
        /\ \A w \in Worker : pc[w] = "exited"
        /\ UNCHANGED <<project, manifest, routes>> /\ next' = 1
        /\ phase' = "pass2"
    BY <1>7 DEF EndFirstPass, PassOver, FreshPass
  <2>2. Busy = {}
    BY <2>1 DEF Busy, Working, Asking
  <2>3. next = Len(manifest) + 1 /\ \A i \in 1 .. next - 1 : Done(i)
    BY <1>0, <2>1, <2>2 DEF PassInv, Going
  <2>4. manifest \in Seq(Manifest(project).artifacts)
    BY <1>0, <2>1
  <2>5. \A i \in DOMAIN manifest : routes[i] # "none"
    BY <2>1, <2>3, <2>4 DEF Done
  <2>6. next' <= Len(manifest') + 1
    BY <2>1, <2>4
  <2> QED
    BY <1>0, <2>1, <2>5, <2>6
<1>8. CASE EndSecondPass
  <2>1. /\ phase = "pass2" /\ phase' = "ok"
        /\ UNCHANGED <<project, manifest, next, routes>>
    BY <1>8 DEF EndSecondPass, passVars, poolVars, feedVars
  <2> QED
    BY <1>0, <2>1
<1>9. ASSUME NEW w \in Worker, Step(w)
      PROVE  \/ Dispatch(w) \/ SkipCompleted(w) \/ CompleteFirst(w)
             \/ UNCHANGED <<project, manifest, phase, next, routes>>
  BY <1>9 DEF Step, WorkerExits, FetchArtifact, RetryAfterWait, WaitCancelled,
     Moves, SendRequest, Answered, NotFound, RateLimited, FetchFailed, SaveFails,
     CompleteSecond, ExpectedHit, runVars, feedVars
<1>10. CASE CloseJobs \/ Interrupt \/ Expire \/ UNCHANGED vars
  BY <1>1, <1>10 DEF CloseJobs, Interrupt, Expire, vars, runVars, passVars,
     poolVars, feedVars
<1>11. CASE \/ EndPassFailed \/ OutputFails \/ CheckOnly \/ RejectProject
            \/ RefuseCheckpoint \/ Edit \/ Crash
  BY <1>2, <1>11 DEF EndPassFailed, OutputFails, CheckOnly, RejectProject,
     RefuseCheckpoint, Edit, Crash
<1> QED
  BY <1>1, <1>3, <1>5, <1>6, <1>7, <1>8, <1>9, <1>10, <1>11, ListMade
     DEF Next, Main

-----------------------------------------------------------------------------
(* The jobs.                                                               *)

\* Nobody has a job as a pass starts.
LEMMA FreshBusy ==
  ASSUME FreshPass
  PROVE  /\ Busy' = {} /\ next' = 1
         /\ \A w \in Worker : pc'[w] # "exited" => w \in pool'
         /\ \A w \in Worker : pc'[w] \notin Working
  BY DEF FreshPass, Busy, Working, Asking

LEMMA JobsKept ==
  ASSUME IInv, [Next]_vars
  PROVE  JobInv'
<1>0. Types /\ JobInv
  BY DEF IInv
<1> USE DEF JobInv, Busy, Working, Asking
<1>1. CASE UNCHANGED <<pool, phase, pc, job, next>>
  BY <1>0, <1>1 DEF Running
<1>2. ASSUME phase' \notin {"pass1", "pass2"}, Busy' = {} PROVE JobInv'
  BY <1>2 DEF Running
<1>3. ASSUME NEW w \in Worker, Dispatch(w) PROVE JobInv'
  <2>1. /\ UNCHANGED <<pool, phase>> /\ pc[w] = "ready" /\ Running
        /\ pc' = [pc EXCEPT ![w] = "got"] /\ job' = [job EXCEPT ![w] = next]
        /\ next' = next + 1 /\ next \in Nat \ {0}
    BY <1>0, <1>3 DEF Dispatch, runVars, Types
  <2>2. pool' \in Pools /\ \A v \in Worker : pc'[v] # "exited" => v \in pool'
    BY <1>0, <2>1 DEF Types
  <2>3. \A v \in Busy' : v = w \/ (v \in Busy /\ job'[v] = job[v])
    BY <1>0, <2>1 DEF Types
  <2>4. job'[w] = next
    BY <1>0, <2>1 DEF Types
  <2>5. \A v \in Busy : job[v] \in 1 .. next - 1
    BY <1>0, <2>1
  <2>6. \A v \in Busy' : job'[v] \in 1 .. next' - 1
    BY <2>1, <2>3, <2>4, <2>5
  <2>7. \A u, v \in Busy' : job'[u] = job'[v] => u = v
    BY <1>0, <2>1, <2>3, <2>4, <2>5
  <2>8. Running'
    BY <2>1 DEF Running
  <2> QED
    BY <2>2, <2>6, <2>7, <2>8
<1>4. ASSUME NEW w \in Worker, NEW from \in WorkerPhase \ {"ready", "exited"},
             NEW to, Go(w, from, to), UNCHANGED <<pool, phase, job, next>>
      PROVE JobInv'
  <2>1. /\ Busy' \subseteq Busy /\ w \in pool /\ Running
        /\ \A v \in Worker : pc'[v] # "exited" => v \in pool
    BY <1>0, <1>4 DEF Go, Types, WorkerPhase
  <2>2. Running'
    BY <1>4, <2>1 DEF Running
  <2> HIDE DEF Busy
  <2> QED
    BY <1>0, <1>4, <2>1, <2>2
<1>5. ASSUME NEW w \in Worker, WorkerExits(w) PROVE JobInv'
  BY <1>0, <1>5 DEF WorkerExits, Moves, Go, runVars, feedVars, Types, Running
<1>6. ASSUME NEW w \in Worker, Step(w)
      PROVE  \/ Dispatch(w) \/ WorkerExits(w)
             \/ /\ UNCHANGED <<pool, phase, job, next>>
                /\ \E from \in WorkerPhase \ {"ready", "exited"} :
                   \E to \in WorkerPhase : Go(w, from, to)
  BY <1>6 DEF Step, FetchArtifact, RetryAfterWait, WaitCancelled, Moves,
     SendRequest, Answered, NotFound, RateLimited, FetchFailed, SkipCompleted,
     SaveFails, CompleteFirst, CompleteSecond, AcceptStatus, ExpectedHit,
     runVars, feedVars, WorkerPhase
<1>7. CASE StartRun \/ EndFirstPass
  <2>1. FreshPass /\ pool' \in Pools
    BY <1>0, <1>7 DEF StartRun, EndFirstPass, PassOver
  <2> QED
    BY <2>1, FreshBusy
<1>8. CASE CloseJobs \/ Interrupt \/ Expire \/ UNCHANGED vars
  BY <1>1, <1>8 DEF CloseJobs, Interrupt, Expire, vars, runVars, passVars,
     poolVars, feedVars
<1>9. CASE EndPassFailed \/ OutputFails \/ EndSecondPass
  <2>1. /\ phase' \notin {"pass1", "pass2"} /\ pc' = pc
        /\ \A w \in Worker : pc[w] = "exited"
    BY <1>9 DEF EndPassFailed, OutputFails, EndSecondPass, PassOver, passVars,
       poolVars
  <2> QED
    BY <1>2, <2>1
<1>10. CASE CheckOnly \/ RejectProject \/ RefuseCheckpoint \/ Edit
  <2>1. phase' \notin {"pass1", "pass2"} /\ pc' = pc /\ ~Running
    BY <1>10 DEF CheckOnly, RejectProject, RefuseCheckpoint, Edit, passVars,
       poolVars
  <2> QED
    BY <1>0, <1>2, <2>1
<1>11. CASE Crash
  <2>1. phase' = "idle" /\ FreshPass
    BY <1>11 DEF Crash
  <2> QED
    BY <1>2, <2>1, FreshBusy
<1> QED
  BY <1>3, <1>4, <1>5, <1>6, <1>7, <1>8, <1>9, <1>10, <1>11 DEF Next, Main

-----------------------------------------------------------------------------
(* What was verified.                                                      *)

\* Nothing verified is forgotten.
LEMMA VerifiedGrows ==
  ASSUME [Next]_vars
  PROVE  verified \subseteq verified'
  BY ZenonT(60)
     DEF Next, vars, Main, Step, Dispatch, WorkerExits, FetchArtifact,
     RetryAfterWait, WaitCancelled, Moves, SkipCompleted, SendRequest, Answered,
     NotFound, RateLimited, FetchFailed, CompleteFirst, SaveFails,
     CompleteSecond, ExpectedHit, CloseJobs, EndPassFailed, OutputFails,
     EndFirstPass, EndSecondPass, StartRun, CheckOnly, RejectProject,
     RefuseCheckpoint, Edit, Interrupt, Crash, Expire, histVars

LEMMA AnswersKept ==
  ASSUME IInv, [Next]_vars
  PROVE  AnswerInv'
<1>0. Types /\ AnswerInv
  BY DEF IInv, CheckInv
<1> USE DEF AnswerInv, Running, Route, Job, routeCandidates
<1>1. ASSUME UNCHANGED <<project, manifest, phase, status>>,
             UNCHANGED routes \/ phase = "pass1", verified \subseteq verified',
             \A v \in Worker :
               pc'[v] = "verified" => pc[v] = "verified" /\ job'[v] = job[v]
      PROVE AnswerInv'
  BY <1>0, <1>1
<1>2. CASE phase' \notin {"pass1", "pass2"}
  BY <1>2
<1>3. ASSUME NEW w \in Worker, Dispatch(w) PROVE AnswerInv'
  <2>1. /\ UNCHANGED <<project, manifest, phase, status, routes, verified>>
        /\ pc' = [pc EXCEPT ![w] = "got"] /\ job' = [job EXCEPT ![w] = next]
    BY <1>3 DEF Dispatch, runVars, histVars
  <2>2. \A v \in Worker :
          pc'[v] = "verified" => pc[v] = "verified" /\ job'[v] = job[v]
    BY <1>0, <2>1 DEF Types
  <2> QED
    BY <1>1, <2>1, <2>2
<1>4. ASSUME NEW w \in Worker, NEW from, NEW to \in WorkerPhase \ {"verified"},
             Go(w, from, to), UNCHANGED <<project, manifest, phase, status>>,
             UNCHANGED <<job, verified>>, UNCHANGED routes \/ phase = "pass1"
      PROVE AnswerInv'
  <2>1. \A v \in Worker :
          pc'[v] = "verified" => pc[v] = "verified" /\ job'[v] = job[v]
    BY <1>0, <1>4 DEF Types, Go
  <2> QED
    BY <1>1, <1>4, <2>1
<1>5. ASSUME NEW w \in Worker, Answered(w) PROVE AnswerInv'
  <2>1. PICK st \in CacheStatus : status' = [status EXCEPT ![w] = st]
    BY <1>5 DEF Answered, CacheStatus
  <2>2. /\ UNCHANGED <<project, manifest, phase, job, routes>>
        /\ pc' = [pc EXCEPT ![w] = "verified"]
        /\ verified' = verified \cup {<<Route(w), Job(w)>>}
    BY <1>5 DEF Answered, Go, runVars
  <2>3. <<Route(w), Job(w)>>' \in verified' /\ status'[w] \in CacheStatus
    BY <1>0, <2>1, <2>2 DEF Types
  <2>4. \A v \in Worker \ {w} :
          /\ pc'[v] = pc[v] /\ status'[v] = status[v]
          /\ <<Route(v), Job(v)>>' = <<Route(v), Job(v)>>
    BY <1>0, <2>1, <2>2 DEF Types
  <2> HIDE DEF Route, Job
  <2> QED
    BY <1>0, <2>2, <2>3, <2>4
<1>6. ASSUME NEW w \in Worker, Step(w)
      PROVE  \/ Dispatch(w) \/ Answered(w)
             \/ /\ UNCHANGED <<project, manifest, phase, status, job, verified>>
                /\ UNCHANGED routes \/ phase = "pass1"
                /\ \E from \in WorkerPhase :
                   \E to \in WorkerPhase \ {"verified"} : Go(w, from, to)
  BY <1>6 DEF Step, WorkerExits, FetchArtifact, RetryAfterWait, WaitCancelled,
     Moves, SendRequest, NotFound, RateLimited, FetchFailed, SkipCompleted,
     SaveFails, Completed, Checkpoint, CompleteFirst, CompleteSecond,
     AcceptStatus, ExpectedHit, runVars, histVars, WorkerPhase
<1>7. CASE StartRun \/ EndFirstPass
  <2>1. FreshPass
    BY <1>7 DEF StartRun, EndFirstPass
  <2>2. \A w \in Worker : pc'[w] # "verified"
    BY <2>1, FreshBusy DEF Working, Asking
  <2> QED
    BY <2>2
<1>8. CASE CloseJobs \/ Interrupt \/ Expire \/ UNCHANGED vars
  <2>1. /\ UNCHANGED <<project, manifest, phase, status>>
        /\ UNCHANGED <<pc, job, verified, routes>>
    BY <1>8 DEF CloseJobs, Interrupt, Expire, vars, runVars, passVars,
       poolVars, histVars
  <2> QED
    BY <1>1, <2>1
<1>9. CASE \/ EndPassFailed \/ OutputFails \/ EndSecondPass \/ CheckOnly
           \/ RejectProject \/ RefuseCheckpoint \/ Edit \/ Crash
  BY <1>2, <1>9 DEF EndPassFailed, OutputFails, EndSecondPass, CheckOnly,
     RejectProject, RefuseCheckpoint, Edit, Crash
<1> QED
  BY <1>3, <1>4, <1>5, <1>6, <1>7, <1>8, <1>9 DEF Next, Main

\* The entries are changed by a run that starts, by a worker that records
\* what it verified, and by a crash; the file by the worker only.
LEMMA WhoRecords ==
  ASSUME [Next]_vars
  PROVE  \/ UNCHANGED <<entries, file>> /\ ~StartRun
         \/ \E w \in Worker : CompleteFirst(w) /\ Checkpoint /\ record(w)
         \/ \E w \in Worker : SaveFails(w)
         \/ StartRun \/ Crash
  BY ZenonT(60)
     DEF Next, vars, Main, Step, Dispatch, WorkerExits, FetchArtifact,
     RetryAfterWait, WaitCancelled, Moves, SkipCompleted, SendRequest, Answered,
     NotFound, RateLimited, FetchFailed, CompleteFirst,
     CompleteSecond, ExpectedHit, CloseJobs, EndPassFailed, OutputFails,
     EndFirstPass, EndSecondPass, CheckOnly, RejectProject,
     RefuseCheckpoint, Edit, Interrupt, Expire, diskVars, passVars

\* A first pass goes on with the list it has.
LEMMA FirstPassStays ==
  ASSUME [Next]_vars, phase' = "pass1", ~StartRun
  PROVE  phase = "pass1" /\ UNCHANGED <<project, manifest, pool, runs>>
  BY ZenonT(60)
     DEF Next, vars, Main, Step, Dispatch, WorkerExits, FetchArtifact,
     RetryAfterWait, WaitCancelled, Moves, SkipCompleted, SendRequest, Answered,
     NotFound, RateLimited, FetchFailed, CompleteFirst, SaveFails,
     CompleteSecond, ExpectedHit, CloseJobs, EndPassFailed, OutputFails,
     EndFirstPass, EndSecondPass, CheckOnly, RejectProject,
     RefuseCheckpoint, Edit, Interrupt, Crash, Expire, runVars

\* What a worker records was verified as the manifest has it.
LEMMA RecordedFacts ==
  ASSUME IInv, phase = "pass1", NEW w \in Worker, pc[w] = "verified"
  PROVE  /\ DOMAIN Recorded(w) = DOMAIN entries \cup {Job(w).path}
         /\ \A p \in DOMAIN Recorded(w) :
              \E a \in Range(manifest) :
                /\ a.path = p /\ Recorded(w)[p].route = routeCandidates(a)
                /\ <<Recorded(w)[p].route, a>> \in verified
<1>1. Running /\ w \in Busy
  BY DEF Running, Busy, Working, Asking
<1>2. /\ Job(w) \in Range(manifest) /\ Route(w) = routeCandidates(Job(w))
      /\ <<Route(w), Job(w)>> \in verified
  BY <1>1, AtWork DEF IInv, CheckInv, AnswerInv
<1>3. EntryInv
  BY DEF IInv, CheckInv
<1> QED
  BY <1>2, <1>3 DEF EntryInv, Recorded

LEMMA SavedKept ==
  ASSUME IInv, [Next]_vars, Types'
  PROVE  SavedInv'
<1>0. SavedInv /\ verified \subseteq verified'
  BY VerifiedGrows DEF IInv, CheckInv
<1>1. CASE UNCHANGED file
  BY <1>0, <1>1 DEF SavedInv
<1>2. ASSUME NEW w \in Worker, CompleteFirst(w), Checkpoint, record(w)
      PROVE SavedInv'
  <2>1. /\ phase = "pass1" /\ pc[w] = "verified" /\ entries' = Recorded(w)
        /\ file' = [sha |-> fingerprintManifest(Range(manifest)),
                    completed |-> entries']
    BY <1>2 DEF CompleteFirst, AcceptStatus, Go, record
  <2>2. \A p \in DOMAIN entries' :
          entries'[p].route \in RouteName /\ entries'[p].status \in CacheStatus
    BY DEF Types
  <2>3. \A a \in Range(manifest) : \E f \in file'.sha : f.artifact = a
    <3>1. file'.sha = fingerprintManifest(Range(manifest))
      BY <2>1
    <3>2. \A a \in Range(manifest) :
            /\ [plugins |-> project.plugins, artifact |-> a]
                 \in fingerprintManifest(Range(manifest))
            /\ [plugins |-> project.plugins, artifact |-> a].artifact = a
      BY DEF fingerprintManifest
    <3> QED
      BY <3>1, <3>2
  <2>4. \A p \in DOMAIN entries' :
          \E a \in Range(manifest) :
            a.path = p /\ <<entries'[p].route, a>> \in verified
    BY <2>1, RecordedFacts
  <2>5. file'.completed = entries'
    BY <2>1
  <2>6. ASSUME NEW p \in DOMAIN entries'
        PROVE  \E f \in file'.sha :
                 /\ f.artifact.path = p
                 /\ <<entries'[p].route, f.artifact>> \in verified'
    <3>1. PICK a \in Range(manifest) :
            a.path = p /\ <<entries'[p].route, a>> \in verified
      BY <2>4
    <3>2. PICK f \in file'.sha : f.artifact = a
      BY <2>3
    <3> QED
      BY <1>0, <3>1, <3>2
  <2> QED
    BY <2>2, <2>5, <2>6 DEF SavedInv
<1> QED
  BY <1>1, <1>2, WhoRecords DEF SaveFails, StartRun, Crash

LEMMA EntriesKept ==
  ASSUME IInv, [Next]_vars
  PROVE  EntryInv'
<1>0. EntryInv /\ SavedInv /\ verified \subseteq verified'
  BY VerifiedGrows DEF IInv, CheckInv
<1> SUFFICES ASSUME phase' = "pass1"
             PROVE  \A p \in DOMAIN entries' :
                      \E a \in Range(manifest') :
                        /\ a.path = p
                        /\ entries'[p].route = routeCandidates(a)'
                        /\ <<entries'[p].route, a>> \in verified'
  BY DEF EntryInv
<1>1. CASE UNCHANGED entries /\ ~StartRun
  BY <1>0, <1>1, FirstPassStays DEF EntryInv, routeCandidates
<1>2. ASSUME NEW w \in Worker, CompleteFirst(w) \/ SaveFails(w),
             entries' = Recorded(w)
      PROVE  \A p \in DOMAIN entries' :
               \E a \in Range(manifest') :
                 /\ a.path = p /\ entries'[p].route = routeCandidates(a)'
                 /\ <<entries'[p].route, a>> \in verified'
  <2>1. /\ phase = "pass1" /\ pc[w] = "verified"
        /\ UNCHANGED <<project, manifest>>
    BY <1>2 DEF CompleteFirst, SaveFails, Checkpoint, AcceptStatus, Go, runVars
  <2> QED
    BY <1>0, <1>2, <2>1, RecordedFacts DEF routeCandidates
<1>3. CASE StartRun
  <2> DEFINE A == Manifest(project).artifacts
  <2>1. /\ Loadable(A) /\ project' = project
        /\ entries' = file.completed \/ entries' = <<>>
        /\ entries' = <<>> \/ StateFile
    BY <1>3 DEF StartRun
  <2>2. Range(manifest') = A
    BY <1>3, <2>1, ListMade DEF ListInv
  <2>3. \A a, b \in A : a.path = b.path => a = b
    BY PathsUnique
  <2> HIDE DEF A
  <2>4. CASE entries' = <<>> \/ file = NoFile
    BY <2>1, <2>4 DEF NoFile
  <2>5. CASE entries' = file.completed /\ file # NoFile /\ StateFile
    <3>1. /\ file.sha = fingerprintManifest(A)
          /\ \A p \in DOMAIN file.completed :
               \E a \in A :
                 a.path = p /\ file.completed[p].route = routeCandidates(a)
      BY <2>1, <2>5 DEF Loadable
    <3>2. \A f \in file.sha : f.artifact \in A
      BY <3>1 DEF fingerprintManifest
    <3>3. \A a \in A : routeCandidates(a)' = routeCandidates(a)
      BY <2>1 DEF routeCandidates
    <3> HIDE DEF SavedInv
    <3>4. ASSUME NEW p \in DOMAIN file.completed
          PROVE  \E a \in A :
                   /\ a.path = p
                   /\ file.completed[p].route = routeCandidates(a)
                   /\ <<file.completed[p].route, a>> \in verified
      <4>1. PICK f \in file.sha :
              /\ f.artifact.path = p
              /\ <<file.completed[p].route, f.artifact>> \in verified
        BY <1>0 DEF SavedInv
      <4>2. PICK a \in A :
              a.path = p /\ file.completed[p].route = routeCandidates(a)
        BY <3>1
      <4>3. f.artifact = a
        BY <2>3, <3>2, <4>1, <4>2
      <4> QED
        BY <4>1, <4>2, <4>3
    <3> QED
      BY <1>0, <2>2, <2>5, <3>3, <3>4, ZenonT(60)
  <2> QED
    BY <2>1, <2>4, <2>5
<1> QED
  BY <1>1, <1>2, <1>3, WhoRecords DEF record, SaveFails, Crash

-----------------------------------------------------------------------------
(* The checkpoint file.                                                    *)

\* A worker asks for what it asked for before, or for what it has just found
\* missing in the checkpoint.
LEMMA AskingWhence ==
  ASSUME IInv, [Next]_vars, phase' = "pass1", ~StartRun,
         NEW v \in Worker, pc'[v] \in Asking
  PROVE  /\ job'[v] = job[v]
         /\ \/ pc[v] \in Asking
            \/ pc[v] = "got" /\ FetchArtifact(v)
<1>0. Types
  BY DEF IInv
<1>1. ASSUME NEW w \in Worker, Step(w)
      PROVE  /\ job'[v] = job[v]
             /\ pc[v] \in Asking \/ (pc[v] = "got" /\ FetchArtifact(v))
  <2>1. CASE Dispatch(w)
    BY <1>0, <2>1 DEF Dispatch, Types, Asking
  <2>2. CASE FetchArtifact(w)
    BY <1>0, <2>2 DEF FetchArtifact, Moves, Go, Types
  <2>3. CASE ~Dispatch(w) /\ ~FetchArtifact(w)
    <3>1. UNCHANGED job
      BY <1>1, <2>3 DEF Step, WorkerExits, RetryAfterWait, WaitCancelled, Moves,
         SkipCompleted, SendRequest, Answered, NotFound, RateLimited,
         FetchFailed, CompleteFirst, SaveFails, CompleteSecond, ExpectedHit
    <3>2. \E from, to \in WorkerPhase :
            Go(w, from, to) /\ (to \in Asking => from \in Asking)
      BY <1>1, <2>3 DEF Step, WorkerExits, RetryAfterWait, WaitCancelled, Moves,
         SkipCompleted, SendRequest, Answered, NotFound, RateLimited,
         FetchFailed, CompleteFirst, SaveFails, CompleteSecond, ExpectedHit,
         AcceptStatus, WorkerPhase, Asking
    <3> QED
      BY <1>0, <3>1, <3>2 DEF Go, Types
  <2> QED
    BY <2>1, <2>2, <2>3
<1>2. CASE UNCHANGED <<pc, job>>
  BY <1>2
<1> QED
  BY <1>1, <1>2 DEF Next, vars, Main, CloseJobs, EndPassFailed, OutputFails,
     EndFirstPass, EndSecondPass, CheckOnly, RejectProject, RefuseCheckpoint,
     Edit, Interrupt, Crash, Expire, passVars, poolVars

\* Two workers with a job ask for different paths.
LEMMA PathsApart ==
  ASSUME IInv, Running, NEW v \in Busy, NEW w \in Busy,
         Job(v).path = Job(w).path
  PROVE  v = w
<1>1. /\ job[v] \in DOMAIN manifest /\ Job(v) = manifest[job[v]]
      /\ job[w] \in DOMAIN manifest /\ Job(w) = manifest[job[w]]
  BY AtWork DEF IInv
<1>2. job[v] = job[w]
  BY <1>1 DEF IInv, ListInv, Running
<1> QED
  BY <1>2 DEF IInv, JobInv

LEMMA FileKept ==
  ASSUME IInv, [Next]_vars
  PROVE  FileInv'
<1>0. Types /\ FileInv
  BY DEF IInv
<1>1. ~StateFile => file' = NoFile
  BY <1>0, WhoRecords DEF FileInv, Checkpoint, SaveFails, StartRun, Crash
<1>2. CASE StartRun
  <2>1. /\ file' = file /\ FreshPass
        /\ entries' = IF StateFile THEN file.completed ELSE <<>>
    BY <1>2 DEF StartRun
  <2>2. DOMAIN file'.completed \subseteq DOMAIN entries'
    BY <1>0, <2>1 DEF FileInv, NoFile
  <2>3. \A w \in Worker : pc'[w] \notin Asking
    BY <2>1, FreshBusy DEF Working
  <2> QED
    BY <1>1, <2>2, <2>3 DEF FileInv
<1>3. CASE phase' = "pass1" /\ ~StartRun
  <2>1. phase = "pass1" /\ manifest' = manifest
    BY <1>3, FirstPassStays
  <2>2. ASSUME NEW v \in Worker, pc'[v] \in Asking, StateFile
        PROVE  /\ Job(v)' = Job(v)
               /\ pc[v] \in Asking \/ (pc[v] = "got" /\ FetchArtifact(v))
               /\ Job(v).path \notin DOMAIN entries
    <3>1. /\ job'[v] = job[v]
          /\ pc[v] \in Asking \/ (pc[v] = "got" /\ FetchArtifact(v))
      BY <1>3, <2>2, AskingWhence
    <3>2. Job(v)' = Job(v)
      BY <2>1, <3>1 DEF Job
    <3>3. FetchArtifact(v) => Job(v).path \notin DOMAIN entries
      BY <2>1, <2>2 DEF FetchArtifact, Completed, Checkpoint
    <3> QED
      BY <1>0, <2>1, <2>2, <3>1, <3>2, <3>3 DEF FileInv
  <2>3. CASE UNCHANGED <<entries, file>>
    BY <1>0, <1>1, <2>1, <2>2, <2>3 DEF FileInv
  <2>4. ASSUME NEW w \in Worker, pc[w] = "verified", pc'[w] \notin Asking,
               entries' = Recorded(w),
               file' = file \/ file'.completed = entries'
        PROVE  FileInv'
    <3>1. DOMAIN entries' = DOMAIN entries \cup {Job(w).path}
      BY <2>1, <2>4, RecordedFacts
    <3>2. ASSUME NEW v \in Worker, pc'[v] \in Asking, StateFile
          PROVE  Job(v)'.path \notin DOMAIN entries'
      <4>1. /\ Job(v)' = Job(v) /\ Job(v).path \notin DOMAIN entries
            /\ pc[v] \in Asking \/ pc[v] = "got"
        BY <2>2, <3>2
      <4>2. v # w /\ v \in Busy /\ w \in Busy /\ Running
        BY <2>1, <2>4, <3>2, <4>1 DEF Busy, Working, Asking, Running
      <4> QED
        BY <3>1, <4>1, <4>2, PathsApart
    <3> QED
      BY <1>0, <1>1, <2>1, <2>4, <3>1, <3>2 DEF FileInv
  <2>5. ASSUME NEW w \in Worker, CompleteFirst(w), record(w) PROVE FileInv'
    <3>1. /\ pc[w] = "verified" /\ entries' = Recorded(w)
          /\ file'.completed = entries'
      BY <2>5 DEF CompleteFirst, AcceptStatus, Go, record
    <3>2. pc'[w] \notin Asking
      BY <1>0, <2>5 DEF CompleteFirst, AcceptStatus, Go, Types, Asking
    <3> QED
      BY <2>4, <3>1, <3>2
  <2>6. ASSUME NEW w \in Worker, SaveFails(w) PROVE FileInv'
    <3>1. pc[w] = "verified" /\ entries' = Recorded(w) /\ file' = file
      BY <2>6 DEF SaveFails, Go
    <3>2. pc'[w] \notin Asking
      BY <1>0, <2>6 DEF SaveFails, Go, Types, Asking
    <3> QED
      BY <2>4, <3>1, <3>2
  <2> QED
    BY <1>3, <2>3, <2>5, <2>6, WhoRecords DEF Crash
<1>4. CASE phase' # "pass1"
  BY <1>1, <1>4 DEF FileInv
<1> QED
  BY <1>2, <1>3, <1>4

-----------------------------------------------------------------------------
(* A pass that nothing has failed in.                                      *)

LEMMA BusyFinite ==
  ASSUME IInv, Running
  PROVE  IsFiniteSet(Busy) /\ Cardinality(Busy) \in Nat
<1>1. PICK p \in Pools : Busy \subseteq p
  BY DEF IInv, JobInv, Busy, Working, Asking
<1>2. IsFiniteSet(p)
  BY PrewarmAssumption
<1> QED
  BY <1>1, <1>2, FS_Subset, FS_CardinalityType

\* Steps that leave the books as they are.
LEMMA GoingSame ==
  ASSUME Going, Busy' = Busy, sending' = "closed" => next = Len(manifest) + 1,
         UNCHANGED <<phase, manifest, next, ctx, stats, job, routes, hit2,
                     entries>>
  PROVE  Going'
<1>1. \A i : Done(i)' = Done(i)
  BY DEF Done
<1> QED
  BY <1>1 DEF Going

\* A job is handed out.
LEMMA GoingOut ==
  ASSUME IInv, Going, NEW w \in Worker, Dispatch(w)
  PROVE  Going'
<1>1. /\ Running /\ sending = "open" /\ pc[w] = "ready"
      /\ pc' = [pc EXCEPT ![w] = "got"] /\ job' = [job EXCEPT ![w] = next]
      /\ next' = next + 1
      /\ UNCHANGED <<phase, manifest, ctx, stats, routes, hit2, entries, sending>>
  BY DEF Dispatch, runVars, errVars, diskVars, histVars
<1>2. /\ pc \in [Worker -> WorkerPhase] /\ job \in [Worker -> Nat]
      /\ next \in Nat \ {0} /\ stats.artifacts \in Nat
  BY DEF IInv, Types
<1>3. Busy' = Busy \cup {w} /\ w \notin Busy
  BY <1>1, <1>2 DEF Busy, Working, Asking
<1>4. Cardinality(Busy') = Cardinality(Busy) + 1 /\ Cardinality(Busy) \in Nat
  BY <1>1, <1>3, BusyFinite, FS_AddElement
<1>5. \A i : Done(i)' = Done(i)
  BY <1>1 DEF Done
<1>6. \A i \in 1 .. next' - 1 : Done(i)' \/ \E v \in Busy' : job'[v] = i
  <2> TAKE i \in 1 .. next' - 1
  <2>1. CASE i = next
    BY <1>1, <1>2, <1>3, <2>1
  <2>2. CASE i # next
    <3>1. i \in 1 .. next - 1
      BY <1>1, <1>2, <2>2
    <3>2. Done(i) \/ \E v \in Busy : job[v] = i
      BY <3>1 DEF Going
    <3>3. \A v \in Busy : job'[v] = job[v]
      BY <1>1, <1>2, <1>3 DEF Busy
    <3> QED
      BY <1>3, <1>5, <3>2, <3>3
  <2> QED
    BY <2>1, <2>2
<1>7. stats.artifacts + Cardinality(Busy) = next - 1
  BY DEF Going
<1>8. stats'.artifacts + Cardinality(Busy') = next' - 1
  <2> DEFINE b == Cardinality(Busy)
             c == Cardinality(Busy')
             n == next'
             s == stats'.artifacts
             t == stats.artifacts
  <2>1. c = b + 1 /\ b \in Nat /\ n = next + 1 /\ s = t /\ t \in Nat
    BY <1>1, <1>2, <1>4
  <2>2. t + b = next - 1 /\ next \in Nat
    BY <1>2, <1>7
  <2> HIDE DEF b, c, n, s, t
  <2>3. s + c = n - 1
    BY <2>1, <2>2
  <2> QED
    BY <2>3 DEF b, c, n, s, t
<1> QED
  BY <1>1, <1>6, <1>8 DEF Going

\* A job is finished and counted with status st.
LEMMA GoingIn ==
  ASSUME IInv, Going, Running, NEW w \in Busy, pc' = [pc EXCEPT ![w] = "ready"],
         NEW st \in {"HIT", "MISS"}, Count(st), phase = "pass2" => st = "HIT",
         UNCHANGED <<phase, manifest, next, ctx, job, sending>>,
         \A i \in DOMAIN manifest : Done(i) => Done(i)', Done(job[w])',
         phase = "pass1" => \A p \in DOMAIN entries' :
                              entries'[p].status \in {"HIT", "MISS"}
  PROVE  Going'
<1>1. /\ pc \in [Worker -> WorkerPhase] /\ next \in Nat
      /\ stats \in [artifacts : Nat, hits : Nat, misses : Nat]
  BY DEF IInv, Types
<1>2. Busy' = Busy \ {w}
  BY <1>1 DEF Busy, Working, Asking
<1>3. Cardinality(Busy') = Cardinality(Busy) - 1 /\ Cardinality(Busy) \in Nat
  BY <1>2, BusyFinite, FS_RemoveElement
<1>4. \A i \in 1 .. next - 1 : i \in DOMAIN manifest
  <2>1. /\ manifest \in Seq(Manifest(project).artifacts)
        /\ next <= Len(manifest) + 1
    BY DEF IInv, ListInv, Running
  <2> QED
    BY <1>1, <2>1
<1>5. \A i \in 1 .. next' - 1 : Done(i)' \/ \E v \in Busy' : job'[v] = i
  <2> TAKE i \in 1 .. next' - 1
  <2>1. Done(i) \/ \E v \in Busy : job[v] = i
    BY DEF Going
  <2> QED
    BY <1>2, <1>4, <2>1
<1>6. /\ stats'.artifacts = stats.artifacts + 1
      /\ stats'.hits = stats.hits + (IF st = "HIT" THEN 1 ELSE 0)
      /\ stats'.misses = stats.misses + (IF st = "MISS" THEN 1 ELSE 0)
  BY DEF Count
<1>7. /\ stats.artifacts \in Nat /\ stats.hits \in Nat /\ stats.misses \in Nat
      /\ stats.artifacts + Cardinality(Busy) = next - 1
      /\ stats.hits + stats.misses = stats.artifacts
      /\ phase = "pass2" => stats.misses = 0
  BY <1>1 DEF Going
<1>8. /\ stats'.artifacts + Cardinality(Busy') = next' - 1
      /\ stats'.hits + stats'.misses = stats'.artifacts
      /\ phase = "pass2" => stats'.misses = 0
  <2> DEFINE b == Cardinality(Busy)
             c == Cardinality(Busy')
             a == stats.artifacts
             h == stats.hits
             m == stats.misses
             A == stats'.artifacts
             H == stats'.hits
             M == stats'.misses
  <2>1. /\ c = b - 1 /\ b \in Nat /\ next' = next
        /\ a \in Nat /\ h \in Nat /\ m \in Nat
        /\ A = a + 1
        /\ \/ H = h + 1 /\ M = m
           \/ H = h /\ M = m + 1 /\ phase # "pass2"
        /\ a + b = next - 1 /\ h + m = a /\ (phase = "pass2" => m = 0)
    BY <1>3, <1>6, <1>7
  <2> HIDE DEF b, c, a, h, m, A, H, M
  <2>2. A + c = next - 1 /\ H + M = A /\ (phase = "pass2" => M = 0)
    BY <1>1, <2>1
  <2> QED
    BY <2>1, <2>2 DEF c, A, H, M
<1> QED
  BY <1>5, <1>8 DEF Going

LEMMA PassKept ==
  ASSUME IInv, [Next]_vars
  PROVE  PassInv'
<1>0. Types /\ ListInv /\ JobInv /\ EntryInv /\ PassInv /\ HitInv
  BY DEF IInv, CheckInv
<1> USE DEF PassInv, PassFails
<1>1. CASE phase' \notin {"pass1", "pass2"}
  BY <1>1 DEF Running
<1>2. CASE firstErr' # "none" \/ parent' = "done" \/ unavailable' # {}
  BY <1>2
<1>3. ASSUME UNCHANGED <<phase, manifest, next, ctx, stats, job, routes, hit2,
                         entries>>,
             UNCHANGED <<parent, firstErr, unavailable>>, Busy' = Busy,
             sending' = sending \/ next > Len(manifest) \/ ctx = "done"
      PROVE  PassInv'
  <2>1. SUFFICES ASSUME Running, ~PassFails PROVE Going'
    BY <1>3 DEF Running
  <2>2. Going
    BY <1>0, <2>1
  <2>3. /\ next \in Nat /\ next <= Len(manifest) + 1
        /\ manifest \in Seq(Manifest(project).artifacts)
    BY <1>0, <2>1 DEF Types, ListInv, Running
  <2>4. sending' = "closed" => next = Len(manifest) + 1
    BY <1>3, <2>2, <2>3 DEF Going
  <2> QED
    BY <1>3, <2>2, <2>4, GoingSame
<1>4. ASSUME NEW w \in Worker, Dispatch(w) PROVE PassInv'
  <2>1. UNCHANGED <<phase, ctx, parent, firstErr, unavailable>>
    BY <1>4 DEF Dispatch, runVars, errVars
  <2> QED
    BY <1>0, <1>4, <2>1, GoingOut DEF Running
<1>5. ASSUME NEW w \in Worker, SkipCompleted(w) PROVE PassInv'
  <2>1. /\ phase = "pass1" /\ Running /\ w \in Busy
        /\ Job(w).path \in DOMAIN entries
        /\ pc' = [pc EXCEPT ![w] = "ready"]
        /\ Count(entries[Job(w).path].status)
        /\ routes' = [routes EXCEPT ![job[w]] = entries[Job(w).path].route]
        /\ UNCHANGED <<phase, manifest, next, ctx, job, sending, entries>>
        /\ UNCHANGED <<parent, firstErr, unavailable>>
    BY <1>5 DEF SkipCompleted, Completed, Checkpoint, Go, Busy, Working,
       runVars, feedVars, errVars, diskVars
  <2>2. SUFFICES ASSUME ~PassFails PROVE Going'
    BY <2>1 DEF Running
  <2>3. Going
    BY <1>0, <2>1, <2>2
  <2>4. /\ entries[Job(w).path].status \in {"HIT", "MISS"}
        /\ \A p \in DOMAIN entries' : entries'[p].status \in {"HIT", "MISS"}
    BY <2>1, <2>3 DEF Going
  <2>5. entries[Job(w).path].route # "none"
    BY <1>0, <2>1 DEF Types, RouteName
  <2>6. job[w] \in DOMAIN routes
    BY <1>0, <2>1, AtWork DEF ListInv, Running
  <2>7. Done(job[w])' /\ \A i \in DOMAIN manifest : Done(i) => Done(i)'
    BY <1>0, <2>1, <2>5, <2>6 DEF Done, ListInv
  <2> QED
    BY <2>1, <2>3, <2>4, <2>7, GoingIn
<1>6. ASSUME NEW w \in Worker, CompleteFirst(w) PROVE PassInv'
  <2>1. /\ phase = "pass1" /\ Running /\ w \in Busy /\ w \in Worker
        /\ pc[w] = "verified" /\ AcceptStatus(w) /\ Count(status[w])
        /\ routes' = [routes EXCEPT ![job[w]] = Route(w)]
        /\ UNCHANGED <<phase, manifest, next, job, sending>>
        /\ entries' = entries \/ entries' = Recorded(w)
    BY <1>6 DEF CompleteFirst, AcceptStatus, Go, Busy, Working, Asking,
       runVars, feedVars, record, diskVars
  <2>2. CASE status[w] \notin {"HIT", "MISS"}
    <3>1. firstErr' # "none"
      BY <2>1, <2>2 DEF AcceptStatus, fail
    <3> QED
      BY <1>2, <3>1
  <2>3. CASE status[w] \in {"HIT", "MISS"}
    <3>1. /\ pc' = [pc EXCEPT ![w] = "ready"]
          /\ UNCHANGED <<ctx, parent, firstErr, unavailable>>
      BY <2>1, <2>3 DEF AcceptStatus, Go, errVars
    <3>2. SUFFICES ASSUME ~PassFails PROVE Going'
      BY <2>1, <3>1 DEF Running
    <3>3. Going
      BY <1>0, <2>1, <3>2
    <3>4. \A p \in DOMAIN entries : entries[p].status \in {"HIT", "MISS"}
      BY <2>1, <3>3 DEF Going
    <3>5. \A p \in DOMAIN entries' : entries'[p].status \in {"HIT", "MISS"}
      BY <2>1, <2>3, <3>4 DEF Recorded
    <3>6. /\ job[w] \in DOMAIN routes /\ Route(w) # "none"
          /\ DOMAIN routes = DOMAIN manifest
      BY <1>0, <2>1, AtWork DEF ListInv, Running, routeCandidates
    <3>7. Done(job[w])' /\ \A i \in DOMAIN manifest : Done(i) => Done(i)'
      BY <2>1, <3>6 DEF Done
    <3> QED
      BY <2>1, <2>3, <3>1, <3>3, <3>5, <3>7, GoingIn
  <2> QED
    BY <2>2, <2>3
<1>7. ASSUME NEW w \in Worker, CompleteSecond(w) PROVE PassInv'
  <2>1. /\ phase = "pass2" /\ Running /\ w \in Busy
        /\ pc' = [pc EXCEPT ![w] = "ready"] /\ Count("HIT")
        /\ hit2' = hit2 \cup {<<Route(w), Job(w).path>>}
        /\ UNCHANGED <<phase, manifest, next, ctx, job, sending, routes>>
        /\ UNCHANGED <<parent, firstErr, unavailable>>
    BY <1>7 DEF CompleteSecond, AcceptStatus, Go, Busy, Working, Asking,
       runVars, feedVars, errVars
  <2>2. SUFFICES ASSUME ~PassFails PROVE Going'
    BY <2>1 DEF Running
  <2>3. Going
    BY <1>0, <2>1, <2>2
  <2>4. Done(job[w])' /\ \A i \in DOMAIN manifest : Done(i) => Done(i)'
    BY <2>1 DEF Done, Route, Job
  <2> QED
    BY <2>1, <2>3, <2>4, GoingIn
<1>8. ASSUME NEW w \in Worker,
             \/ WorkerExits(w) \/ FetchArtifact(w) \/ SendRequest(w)
             \/ Answered(w) \/ RateLimited(w) \/ RetryAfterWait(w)
      PROVE  PassInv'
  <2>1. UNCHANGED <<phase, manifest, next, ctx, stats, job, routes, hit2,
                    entries>>
    BY <1>8 DEF WorkerExits, FetchArtifact, RetryAfterWait, Moves, SendRequest,
       Answered, RateLimited, runVars, feedVars, errVars, diskVars, histVars
  <2>2. UNCHANGED <<parent, firstErr, unavailable, sending>>
    BY <1>8 DEF WorkerExits, FetchArtifact, RetryAfterWait, Moves, SendRequest,
       Answered, RateLimited, feedVars, errVars
  <2>3. Busy' = Busy
    BY <1>0, <1>8 DEF WorkerExits, FetchArtifact, RetryAfterWait, Moves,
       SendRequest, Answered, RateLimited, Go, Busy, Working, Asking, Types
  <2> QED
    BY <1>3, <2>1, <2>2, <2>3
<1>9. ASSUME NEW w \in Worker, WaitCancelled(w) PROVE PassInv'
  <2>1. /\ Running /\ ctx = "done"
        /\ UNCHANGED <<phase, parent, firstErr, unavailable>>
    BY <1>9 DEF WaitCancelled, Moves, Go, runVars, errVars
  <2> QED
    BY <1>0, <2>1 DEF Going, Running
<1>10. ASSUME NEW w \in Worker,
              \/ NotFound(w) \/ FetchFailed(w) \/ SaveFails(w)
              \/ ExpectedHit(w)
       PROVE  PassInv'
  <2>1. firstErr' # "none" \/ unavailable' # {}
    BY <1>10 DEF NotFound, FetchFailed, SaveFails, ExpectedHit, fail
  <2> QED
    BY <1>2, <2>1
<1>11. CASE StartRun \/ EndFirstPass
  <2>1. /\ FreshPass /\ phase' \in {"pass1", "pass2"}
        /\ phase' = "pass1" => StartRun
    BY <1>11 DEF StartRun, EndFirstPass
  <2>2. SUFFICES ASSUME parent' # "done" PROVE Going'
    BY <1>2
  <2>3. ctx' = "live"
    BY <1>0, <1>11, <2>1, <2>2 DEF StartRun, EndFirstPass, FreshPass, Types
  <2>4. Cardinality(Busy') = 0 /\ next' = 1
    BY <2>1, FreshBusy, FS_EmptySet
  <2>5. stats' = [artifacts |-> 0, hits |-> 0, misses |-> 0]
        /\ sending' = "open"
    BY <2>1 DEF FreshPass, NoStats
  <2>6. phase' = "pass1" => \A p \in DOMAIN entries' :
          entries'[p].status \in {"HIT", "MISS"}
    <3>1. CASE StartRun
      <4>1. Loadable(Manifest(project).artifacts)
            /\ entries' = IF StateFile THEN file.completed ELSE <<>>
        BY <3>1 DEF StartRun
      <4> QED
        BY <4>1 DEF Loadable, NoFile
    <3> QED
      BY <2>1, <3>1
  <2> QED
    BY <2>3, <2>4, <2>5, <2>6 DEF Going
<1>12. CASE CloseJobs \/ Expire \/ UNCHANGED vars
  <2>1. UNCHANGED <<phase, manifest, next, ctx, stats, job, routes, hit2,
                    entries>>
    BY <1>12 DEF CloseJobs, Expire, vars, runVars, passVars, poolVars,
       feedVars, errVars, diskVars, histVars
  <2>2. UNCHANGED <<parent, firstErr, unavailable, pc>>
    BY <1>12 DEF CloseJobs, Expire, vars, passVars, poolVars, errVars
  <2>3. sending' = sending \/ next > Len(manifest) \/ ctx = "done"
    BY <1>12 DEF CloseJobs, Expire, vars, passVars, poolVars, feedVars
  <2>4. Busy' = Busy
    BY <2>2 DEF Busy
  <2> QED
    BY <1>3, <2>1, <2>2, <2>3, <2>4
<1>13. CASE Interrupt
  BY <1>2, <1>13 DEF Interrupt
<1>14. CASE \/ EndPassFailed \/ OutputFails \/ EndSecondPass \/ CheckOnly
            \/ RejectProject \/ RefuseCheckpoint \/ Edit \/ Crash
  BY <1>1, <1>14 DEF EndPassFailed, OutputFails, EndSecondPass, CheckOnly,
     RejectProject, RefuseCheckpoint, Edit, Crash
<1> QED
  BY <1>4, <1>5, <1>6, <1>7, <1>8, <1>9, <1>10, <1>11, <1>12, <1>13, <1>14
     DEF Next, Main, Step

-----------------------------------------------------------------------------
(* The hits.                                                               *)

\* A pass that is over and has not failed has done everything.
LEMMA AllDone ==
  ASSUME IInv, PassOver, ~PassFails
  PROVE  /\ \A i \in DOMAIN manifest : Done(i)
         /\ stats.artifacts = Len(manifest)
         /\ stats.hits + stats.misses = Len(manifest)
         /\ phase = "pass2" => stats.hits = Len(manifest)
<1>1. Running /\ sending = "closed" /\ Going /\ Busy = {}
  BY DEF PassOver, IInv, PassInv, Busy, Working, Asking
<1>2. /\ manifest \in Seq(Manifest(project).artifacts)
      /\ stats \in [artifacts : Nat, hits : Nat, misses : Nat]
  BY <1>1 DEF IInv, ListInv, Types, Running
<1>3. Cardinality(Busy) = 0
  BY <1>1, FS_EmptySet
<1>4. /\ next = Len(manifest) + 1 /\ stats.artifacts + 0 = next - 1
      /\ \A i \in 1 .. next - 1 : Done(i)
      /\ stats.hits + stats.misses = stats.artifacts
      /\ phase = "pass2" => stats.misses = 0
  BY <1>1, <1>3 DEF Going
<1>5. \A i \in DOMAIN manifest : Done(i)
  BY <1>2, <1>4
<1>6. stats.artifacts = Len(manifest)
  BY <1>2, <1>4
<1> QED
  BY <1>2, <1>4, <1>5, <1>6

LEMMA HitsKept ==
  ASSUME IInv, [Next]_vars
  PROVE  HitInv'
<1>0. Types /\ ListInv /\ JobInv /\ HitInv
  BY DEF IInv
<1> USE DEF HitInv
<1>1. CASE UNCHANGED <<phase, project, manifest, hit2>> /\ phase # "ok"
  BY <1>0, <1>1 DEF Hits, routeCandidates
<1>2. CASE phase' \notin {"pass1", "pass2", "ok"}
  BY <1>2
<1>3. ASSUME NEW w \in Worker, CompleteSecond(w) PROVE HitInv'
  <2>1. /\ phase = "pass2" /\ Running /\ w \in Busy
        /\ hit2' = hit2 \cup {<<Route(w), Job(w).path>>}
        /\ UNCHANGED <<phase, project, manifest>>
    BY <1>3 DEF CompleteSecond, AcceptStatus, Go, Busy, Working, Asking,
       runVars
  <2>2. Job(w) \in Range(manifest) /\ Route(w) = routeCandidates(Job(w))
    BY <1>0, <2>1, AtWork
  <2>3. Hits' = Hits
    BY <2>1 DEF Hits, routeCandidates
  <2>4. <<Route(w), Job(w).path>> \in Hits
    BY <2>2 DEF Hits
  <2> QED
    BY <1>0, <2>1, <2>3, <2>4
<1>4. CASE EndSecondPass
  <2>1. /\ PassOver /\ ~PassFails /\ phase = "pass2" /\ phase' = "ok"
        /\ UNCHANGED <<project, manifest, hit2, stats>>
    BY <1>4 DEF EndSecondPass, passVars, histVars
  <2>2. /\ \A i \in DOMAIN manifest : Done(i)
        /\ stats.hits = Len(manifest)
    BY <2>1, AllDone
  <2>3. \A i \in DOMAIN manifest :
          <<routeCandidates(manifest[i]), manifest[i].path>> \in hit2
    BY <1>0, <2>1, <2>2 DEF Done, ListInv
  <2>4. Hits \subseteq hit2
    BY <2>3 DEF Hits, Range
  <2>5. Hits' = Hits
    BY <2>1 DEF Hits, routeCandidates
  <2> QED
    BY <1>0, <2>1, <2>2, <2>4, <2>5
<1>5. CASE EndFirstPass
  BY <1>0, <1>5 DEF EndFirstPass, histVars
<1>6. CASE StartRun
  BY <1>6 DEF StartRun
<1>7. ASSUME NEW w \in Worker, Step(w), ~CompleteSecond(w) PROVE HitInv'
  <2>1. UNCHANGED <<phase, project, manifest, hit2>> /\ phase # "ok"
    BY <1>7 DEF Step, Dispatch, WorkerExits, FetchArtifact, RetryAfterWait,
       WaitCancelled, Moves, Go, Running, SkipCompleted, SendRequest, Answered,
       NotFound, RateLimited, FetchFailed, CompleteFirst, AcceptStatus,
       SaveFails, ExpectedHit, runVars, histVars
  <2> QED
    BY <1>1, <2>1
<1>8. CASE CloseJobs \/ Interrupt
  <2>1. UNCHANGED <<phase, project, manifest, hit2>> /\ phase # "ok"
    BY <1>8 DEF CloseJobs, Interrupt, Running, runVars, histVars
  <2> QED
    BY <1>1, <2>1
<1>9. CASE Expire \/ UNCHANGED vars
  <2>1. UNCHANGED <<phase, project, manifest, hit2, stats>>
    BY <1>9 DEF Expire, vars, runVars, passVars, histVars
  <2> QED
    BY <1>0, <2>1 DEF Hits, routeCandidates
<1>10. CASE \/ EndPassFailed \/ OutputFails \/ CheckOnly
            \/ RejectProject \/ RefuseCheckpoint \/ Edit \/ Crash
  BY <1>2, <1>10 DEF EndPassFailed, OutputFails, CheckOnly,
     RejectProject, RefuseCheckpoint, Edit, Crash
<1> QED
  BY <1>3, <1>4, <1>5, <1>6, <1>7, <1>8, <1>9, <1>10 DEF Next, Main

-----------------------------------------------------------------------------
(* --check.                                                                *)

\* The list of --check is that of the project as it is, every path once.
CheckedInv ==
  phase = "checked" =>
    /\ Manifest(project).err = ""
    /\ Range(manifest) = Manifest(project).artifacts
    /\ \A i, j \in DOMAIN manifest : manifest[i].path = manifest[j].path => i = j

LEMMA CheckedKept ==
  ASSUME IInv, CheckedInv, [Next]_vars
  PROVE  CheckedInv'
<1>1. CASE UNCHANGED <<phase, project, manifest>>
  BY <1>1 DEF CheckedInv
<1>2. CASE phase' # "checked"
  BY <1>2 DEF CheckedInv
<1>3. CASE CheckOnly
  <2> DEFINE m == Manifest(project)
             A == m.artifacts
  <2>1. /\ m.err = "" /\ manifest' = SetToSeq(A) /\ project' = project
    BY <1>3 DEF CheckOnly
  <2>2. IsFiniteSet(A)
    BY PrewarmAssumption DEF IInv, Types
  <2>3. \A a, b \in A : a.path = b.path => a = b
    BY PathsUnique
  <2>4. Manifest(project') = m
    BY <2>1
  <2> HIDE DEF m
  <2>5. /\ manifest' \in Seq(A) /\ Range(manifest') = A
        /\ \A i, j \in DOMAIN manifest' : manifest'[i] = manifest'[j] => i = j
    BY <2>1, <2>2, Listed
  <2> HIDE DEF A
  <2>6. \A i, j \in DOMAIN manifest' :
          manifest'[i].path = manifest'[j].path => i = j
    BY <2>3, <2>5
  <2> QED
    BY <2>1, <2>4, <2>5, <2>6 DEF CheckedInv, A
<1>4. ASSUME NEW w \in Worker, Step(w) PROVE CheckedInv'
  <2>1. phase' = phase /\ Running
    BY <1>4 DEF Step, Dispatch, WorkerExits, FetchArtifact, RetryAfterWait,
       WaitCancelled, Moves, Go, SkipCompleted, SendRequest, Answered,
       NotFound, RateLimited, FetchFailed, CompleteFirst, CompleteSecond,
       AcceptStatus, SaveFails, ExpectedHit, runVars
  <2> QED
    BY <1>2, <2>1 DEF Running
<1>5. CASE CloseJobs \/ Interrupt
  <2>1. phase' = phase /\ Running
    BY <1>5 DEF CloseJobs, Interrupt, runVars
  <2> QED
    BY <1>2, <2>1 DEF Running
<1>6. CASE Expire \/ UNCHANGED vars
  BY <1>1, <1>6 DEF Expire, vars, runVars
<1>7. CASE \/ EndPassFailed \/ OutputFails \/ EndFirstPass \/ EndSecondPass
           \/ StartRun \/ RejectProject \/ RefuseCheckpoint \/ Edit \/ Crash
  BY <1>2, <1>7 DEF EndPassFailed, OutputFails, EndFirstPass, EndSecondPass,
     StartRun, RejectProject, RefuseCheckpoint, Edit, Crash
<1> QED
  BY <1>3, <1>4, <1>5, <1>6, <1>7 DEF Next, Main

-----------------------------------------------------------------------------
(* The theorems.                                                           *)

LEMMA Inductive == Spec => []IInv
<1>1. Init => IInv
  <2> SUFFICES ASSUME Init PROVE IInv
    OBVIOUS
  <2>1. /\ phase = "idle" /\ file = NoFile /\ entries = <<>>
        /\ \A w \in Worker : pc[w] = "ready"
    BY DEF Init
  <2>2. Types
    BY <2>1, PrewarmAssumption DEF Init, Types, Phase, WorkerPhase, NoStats
  <2>3. JobInv
    BY <2>1 DEF JobInv, Running, Busy, Working, Asking
  <2>4. CheckInv /\ FileInv
    BY <2>1 DEF CheckInv, AnswerInv, SavedInv, EntryInv, FileInv, NoFile,
       Running
  <2> QED
    BY <2>1, <2>2, <2>3, <2>4 DEF IInv, ListInv, PassInv, HitInv, Running
<1>2. IInv /\ [Next]_vars => IInv'
  <2> SUFFICES ASSUME IInv, [Next]_vars PROVE IInv'
    OBVIOUS
  <2>1. Types' /\ ListInv' /\ JobInv'
    BY TypesKept, ListKept, JobsKept
  <2>2. CheckInv'
    BY <2>1, AnswersKept, SavedKept, EntriesKept DEF CheckInv
  <2>3. FileInv' /\ PassInv' /\ HitInv'
    BY FileKept, PassKept, HitsKept
  <2> QED
    BY <2>1, <2>2, <2>3 DEF IInv
<1> QED
  BY <1>1, <1>2, PTL DEF Spec

\* Whatever the project, the pool and the checkpoint, a run stays within the
\* types the code gives its fields: no index past the list, no retry past the
\* limit, no status or route that is not one.
THEOREM TypeCorrect == Spec => []TypeOK
<1>1. IInv => TypeOK
  <2> SUFFICES ASSUME IInv PROVE TypeOK
    OBVIOUS
  <2>1. Types /\ ListInv /\ SavedInv
    BY DEF IInv, CheckInv
  <2>2. Running => next \in 1 .. Len(manifest) + 1
    <3>1. Running => /\ next \in Nat \ {0} /\ next <= Len(manifest) + 1
                     /\ manifest \in Seq(Manifest(project).artifacts)
      BY <2>1 DEF Types, ListInv, Running
    <3> QED
      BY <3>1
  <2>3. Range(routes) \subseteq RouteName \cup {"none"}
    BY <2>1 DEF Types, Range
  <2>4. \A e \in Range(entries) \cup Range(file.completed) :
          e.route \in RouteName /\ e.status \in CacheStatus
    BY <2>1 DEF Types, SavedInv, Range
  <2> QED
    BY <2>1, <2>2, <2>3, <2>4 DEF TypeOK, Types
<1> QED
  BY <1>1, Inductive, PTL

\* loadCheckpoint and record: an entry a first pass works with was verified
\* against the checksums, and on the route, of the project as it is now.
THEOREM TakenOverVerified == Spec => []SkipsOnlyVerified
<1>1. IInv => SkipsOnlyVerified
  BY DEF IInv, CheckInv, EntryInv, SkipsOnlyVerified
<1> QED
  BY <1>1, Inductive, PTL

\* completedArtifact: a first pass never requests, for the first time, what
\* the checkpoint file already has.
THEOREM NothingRepeated == Spec => NoRepeats
<1>1. IInv /\ [Next]_vars =>
        [ phase = "pass1" /\ phase' = "pass1" =>
            \A p \in DOMAIN file.completed :
              p \in fetched' => p \in fetched ]_vars
  <2> SUFFICES ASSUME IInv, [Next]_vars, phase = "pass1", phase' = "pass1",
                      NEW p \in DOMAIN file.completed, p \in fetched'
               PROVE  p \in fetched
    OBVIOUS
  <2>1. ASSUME NEW w \in Worker, SendRequest(w) PROVE p \in fetched
    <3>1. fetched' = fetched \cup {Job(w).path} /\ pc[w] \in Asking
      BY <2>1 DEF SendRequest, Requested, Go, Asking
    <3>2. FileInv
      BY DEF IInv
    <3>3. p # Job(w).path
      BY <3>1, <3>2 DEF FileInv, NoFile
    <3> QED
      BY <3>1, <3>3
  <2>2. ~StartRun
    BY DEF StartRun, Running
  <2>3. fetched' = fetched \/ \E w \in Worker : SendRequest(w)
    BY <2>2, ZenonT(60)
       DEF Next, vars, Main, Step, Dispatch, WorkerExits, FetchArtifact,
       RetryAfterWait, WaitCancelled, Moves, SkipCompleted, Answered,
       NotFound, RateLimited, FetchFailed, CompleteFirst, SaveFails,
       CompleteSecond, ExpectedHit, CloseJobs, EndPassFailed, OutputFails,
       EndFirstPass, EndSecondPass, CheckOnly, RejectProject,
       RefuseCheckpoint, Edit, Interrupt, Crash, Expire, histVars
  <2> QED
    BY <2>1, <2>3
<1> QED
  BY <1>1, Inductive, PTL DEF Spec, NoRepeats

\* prewarm.Run: success means that everything on the manifest, each on its own
\* route, was a hit in the second pass, and that as many hits were counted.
THEOREM SuccessMeansManifestHit ==
  Spec => [](phase = "ok" => hit2 = Hits /\ stats.hits = Len(manifest))
<1>1. IInv => (phase = "ok" => hit2 = Hits /\ stats.hits = Len(manifest))
  BY DEF IInv, HitInv
<1> QED
  BY <1>1, Inductive, PTL

\* DiscoverGradle and ExcludeGradleCoordinates, on projects whose files are
\* named and whose markers are used as Maven and Gradle do: the manifest a run
\* starts from or --check prints has every wanted file once, in the directory
\* it was published in, with the checksums of all that name it and its route.
THEOREM ManifestsAreExact == Spec => []ManifestExact
<1>1. ASSUME Types, Manifest(project).err = "",
             Range(manifest) = Manifest(project).artifacts,
             \A i, j \in DOMAIN manifest :
               manifest[i].path = manifest[j].path => i = j
      PROVE  ManifestExact
  <2>1. Exact(project)
    BY <1>1, ProjectsAssumption, ManifestMade DEF Types
  <2>2. \A i \in DOMAIN manifest : manifest[i] \in Range(manifest)
    BY DEF Range
  <2>3. /\ project.locked \subseteq
             {Coordinate(c) : c \in Range(project.components)}
        /\ {[path |-> a.path, marker |-> a.marker] : a \in Range(manifest)}
             = {[path |-> a.path, marker |-> a.marker] : a \in Wanted(project)}
    BY <1>1, <2>1 DEF Exact
  <2>4. \A i \in DOMAIN manifest :
          manifest[i].sums =
            UNION {a.sums : a \in {x \in Wanted(project) :
                                     x.path = manifest[i].path}}
    <3> DEFINE Sums(z) == UNION {a.sums : a \in {x \in Wanted(project) :
                                                  x.path = z}}
    <3>1. \A a \in Manifest(project).artifacts : a.sums = Sums(a.path)
      BY <2>1, Zenon DEF Exact
    <3> HIDE DEF Sums
    <3>2. \A i \in DOMAIN manifest : manifest[i].sums = Sums(manifest[i].path)
      BY <1>1, <2>2, <3>1
    <3> QED
      BY <3>2, Zenon DEF Sums
  <2> QED
    BY <1>1, <2>3, <2>4 DEF ManifestExact
<1>2. IInv /\ CheckedInv => ManifestExact
  <2>1. ASSUME IInv, CheckedInv, phase = "checked" PROVE ManifestExact
    BY <1>1, <2>1 DEF IInv, CheckedInv
  <2>2. ASSUME IInv, phase = "pass1" PROVE ManifestExact
    BY <1>1, <2>2 DEF IInv, ListInv
  <2>3. ASSUME phase \notin {"checked", "pass1"} PROVE ManifestExact
    BY <2>3 DEF ManifestExact
  <2> QED
    BY <2>1, <2>2, <2>3
<1>3. Init => CheckedInv
  BY DEF Init, CheckedInv
<1>4. IInv /\ CheckedInv /\ [Next]_vars => CheckedInv'
  BY CheckedKept
<1> QED
  BY <1>2, <1>3, <1>4, Inductive, PTL DEF Spec

\* prewarm.Run, with the manifest it is given: a success means a hit for each
\* file the project wants, and a pass that is about to succeed has counted and
\* routed every artifact.
THEOREM SuccessComplete == Spec => []SuccessMeansAllHits
<1>1. ASSUME IInv, phase = "ok"
      PROVE  hit2 = {<<IF a.marker THEN "plugins" ELSE "maven", a.path>> :
                       a \in Wanted(project)}
  <2> DEFINE A == Manifest(project).artifacts
             W == Wanted(project)
             R(a) == IF a.marker THEN "plugins" ELSE "maven"
  <2>1. /\ hit2 = Hits /\ Manifest(project).err = "" /\ Routable(A)
        /\ Range(manifest) = A /\ project \in Projects
    BY <1>1 DEF IInv, HitInv, ListInv, Types
  <2> DEFINE P(a) == [path |-> a.path, marker |-> a.marker]
  <2>2. {P(a) : a \in A} = {P(a) : a \in W}
    BY <2>1, ProjectsAssumption, ManifestMade DEF Exact
  <2>3. hit2 = {<<R(a), a.path>> : a \in A}
    BY <2>1 DEF Hits, routeCandidates, Routable
  <2> HIDE DEF A, W
  <2>4. \A a, b : P(a) = P(b) => a.path = b.path /\ a.marker = b.marker
    <3> TAKE a, b
    <3>1. P(a).path = a.path /\ P(b).path = b.path
      OBVIOUS
    <3>2. P(a).marker = a.marker /\ P(b).marker = b.marker
      OBVIOUS
    <3> HIDE DEF P
    <3> QED
      BY <3>1, <3>2
  <2> HIDE DEF P
  <2>5. /\ \A a \in A : \E b \in W : P(a) = P(b)
        /\ \A b \in W : \E a \in A : P(a) = P(b)
    BY <2>2
  <2>6. {<<R(a), a.path>> : a \in A} = {<<R(a), a.path>> : a \in W}
    BY <2>4, <2>5
  <2> QED
    BY <2>3, <2>6 DEF W
<1>2. ASSUME IInv, PassOver, ~PassFails
      PROVE  "none" \notin Range(routes)
  <2>1. Running /\ \A i \in DOMAIN manifest : Done(i)
    BY <1>2, AllDone DEF PassOver
  <2>2. DOMAIN routes = DOMAIN manifest
        /\ (phase # "pass1" => \A i \in DOMAIN manifest : routes[i] # "none")
    BY <1>2, <2>1 DEF IInv, ListInv, Running
  <2>3. \A i \in DOMAIN routes : routes[i] # "none"
    BY <2>1, <2>2 DEF Done
  <2> QED
    BY <2>3 DEF Range
<1>3. IInv => SuccessMeansAllHits
  <2>1. IInv /\ phase = "ok" => stats.hits = Len(manifest)
    BY DEF IInv, HitInv
  <2>2. IInv /\ PassOver /\ ~PassFails =>
          /\ stats.artifacts = Len(manifest)
          /\ stats.hits + stats.misses = Len(manifest)
    BY AllDone
  <2> QED
    BY <1>1, <1>2, <2>1, <2>2 DEF SuccessMeansAllHits
<1> QED
  BY <1>3, Inductive, PTL

\* routeCandidates and the checkpoint's routes: a marker is asked of the plugin
\* route and everything else of the Maven route, in both passes, resumed or
\* not.
THEOREM RoutesKept == Spec => []RoutesSeparated
<1>1. ASSUME IInv, NEW w \in Worker, pc[w] = "sent"
      PROVE  (Route(w) = "plugins") =
               (\E m \in project.markers : m.module = Job(w).path.module)
  <2>1. Types /\ ListInv /\ JobInv /\ w \in Busy /\ Running
    BY <1>1 DEF IInv, JobInv, Busy, Working, Asking
  <2>2. Job(w) \in Range(manifest) /\ Route(w) = routeCandidates(Job(w))
    BY <2>1, AtWork
  <2>3. /\ Job(w) \in Manifest(project).artifacts /\ project \in Projects
        /\ Job(w).marker => project.plugins
        /\ Manifest(project).err = ""
    BY <2>1, <2>2 DEF ListInv, Running, Routable, Types
  <2>4. Job(w).marker = (\E m \in project.markers :
                           m.module = Job(w).path.module)
    BY <2>3, ProjectsAssumption, ManifestMade DEF Exact
  <2>5. (Route(w) = "plugins") = Job(w).marker
    BY <2>2, <2>3, <2>4 DEF routeCandidates
  <2> QED
    BY <2>4, <2>5
<1>2. IInv => RoutesSeparated
  BY <1>1 DEF RoutesSeparated
<1> QED
  BY <1>2, Inductive, PTL
=============================================================================
