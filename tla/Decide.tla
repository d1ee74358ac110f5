------------------------------- MODULE Decide -------------------------------
(***************************************************************************)
(* Server.decide and what it calls: policy.Engine.Evaluate, the release    *)
(* Resolver with its cache, and OSVProvider.Query with its result cache    *)
(* and its longer-lived memory of malicious results.  Workers are handler  *)
(* goroutines, each deciding one request after the other; the caches are   *)
(* shared, and nothing is locked while an upstream is asked.               *)
(***************************************************************************)
EXTENDS Integers, FiniteSets, TTLCache

CONSTANTS
  Worker, Package,
  Kind,             \* what registry.Identify made of each package's URL
  Rule,             \* the policy rule matching each package, deny first
  Published,        \* publish time of each package
  FailOpenIntelErrors, FailOpenUnknownPackage,
  DefaultAction,    \* default_vulnerability_action
  CooldownEnabled, MinAge,
  Verdicts,         \* what OSV may hold about a package
  TTL,              \* intel.osv.cache_ttl
  Retention,        \* maliciousRetention
  ReleaseTTL,       \* release.cacheTTL
  Timeout,          \* intel.osv.timeout, the client's limit on a fetch
  MaxEntries,       \* defaultOSVCacheEntries
  MaxChanges,       \* bound: how often OSV changes its mind about a package
  MaxTime           \* bound: the clock stops there

ASSUME DecideAssumption ==
  /\ Kind \in [Package -> {"artifact", "gomod", "static", "metadata",
                           "unidentified", "unlisted"}]
  /\ Rule \in [Package -> {"none", "deny", "allow_exact", "allow_glob", "warn"}]
  /\ Published \in [Package -> Nat \ {0}]
  /\ {FailOpenIntelErrors, FailOpenUnknownPackage, CooldownEnabled}
       \subseteq BOOLEAN
  /\ DefaultAction \in {"allow", "monitor", "warn", "block"}
  /\ Verdicts \subseteq {"clean", "minor", "severe", "malicious"}
  /\ {TTL, Retention, ReleaseTTL, Timeout, MaxEntries, MaxTime}
       \subseteq Nat \ {0}
  /\ {MinAge, MaxChanges} \subseteq Nat /\ Package # {}

VARIABLES
  now,
  feed,       \* OSV's current verdict on each package, its version and age
  cache,      \* OSVProvider.cache
  malicious,  \* OSVProvider.malicious
  release,    \* Resolver.cache
  pc, pkg,    \* where each worker is, and the package it decides on
  deadline,   \* when the client times the worker's fetch out
  answer,     \* OSV's answer to the worker's fetch
  decision,   \* the worker's last decision
  told        \* history: the newest answer any query has finished with

feedVars == <<feed, now>>
cacheVars == <<cache, malicious, release, told>>
vars == <<feedVars, cacheVars, pc, pkg, deadline, answer, decision>>

NoAnswer == [verdict |-> "clean", version |-> 0]
Undecided == [action |-> "none", why |-> "none"]

Init ==
  /\ now = 1
  /\ feed = [p \in Package |->
               [verdict |-> "clean", version |-> 0, since |-> 0]]
  /\ cache = Empty /\ malicious = Empty /\ release = Empty
  /\ pc = [w \in Worker |-> "idle"]
  /\ pkg \in [Worker -> {CHOOSE p \in Package : TRUE}]
  /\ deadline = [w \in Worker |-> 0]
  /\ answer = [w \in Worker |-> NoAnswer]
  /\ decision = [w \in Worker |-> Undecided]
  /\ told = [p \in Package |->
               [verdict |-> "clean", version |-> 0, at |-> 0]]

Go(w, from, to) == pc[w] = from /\ pc' = [pc EXCEPT ![w] = to]
Decided(w, action, why) ==
  decision' = [decision EXCEPT ![w] = [action |-> action, why |-> why]]

-----------------------------------------------------------------------------
(* The policy.                                                             *)

\* Mutant of Evaluate: the cooldown ends one tick early.
EvaluateEarly(p, published) ==
  CASE Kind[p] = "unidentified" -> "unknown"
    [] Kind[p] # "unidentified" /\ Rule[p] = "deny" -> "block"
    [] Kind[p] # "unidentified" /\ Rule[p] \in {"allow_exact", "allow_glob"} ->
         "allow"
    [] Kind[p] # "unidentified" /\ Rule[p] = "warn" -> "warn"
    [] OTHER -> IF /\ CooldownEnabled /\ published # 0
                   /\ now + 1 - published < MinAge
                  THEN "block" ELSE "allow"

\* Evaluate; published is 0 until it has been looked up.
Evaluate(p, published) ==
  CASE Kind[p] = "unidentified" -> "unknown"
    [] Kind[p] # "unidentified" /\ Rule[p] = "deny" -> "block"
    [] Kind[p] # "unidentified" /\ Rule[p] \in {"allow_exact", "allow_glob"} ->
         "allow"
    [] Kind[p] # "unidentified" /\ Rule[p] = "warn" -> "warn"
    [] OTHER -> IF /\ CooldownEnabled /\ published # 0
                   /\ now - published < MinAge
                  THEN "block" ELSE "allow"

\* A matched rule other than deny.
Ruled(p) == Kind[p] # "unidentified" /\ Rule[p] \notin {"none", "deny"}
ExemptsMalware(p) == Rule[p] = "allow_exact"
SkipVulnerabilityCheck(p) == Kind[p] \in {"static", "gomod"}

\* decide waits for the publish time only if nothing else could block.
NeedsPublishTime(p) ==
  Evaluate(p, 0) = "allow" /\ ~Ruled(p) /\ CooldownEnabled

\* decide from the switch on the policy's decision to the intel query.
Switch(w, from, p, published) ==
  LET action == Evaluate(p, published)
  IN \/ /\ action = "block"
        /\ Go(w, from, "idle") /\ Decided(w, "block", "policy")
     \/ /\ action = "unknown"
        /\ Go(w, from, "idle")
        /\ Decided(w, IF FailOpenUnknownPackage THEN "warn" ELSE "block",
                   "unknown")
     \/ /\ Ruled(p) /\ (ExemptsMalware(p) \/ SkipVulnerabilityCheck(p))
        /\ Go(w, from, "idle") /\ Decided(w, action, "rule")
     \/ /\ action = "allow" /\ ~Ruled(p) /\ SkipVulnerabilityCheck(p)
        /\ Go(w, from, "idle") /\ Decided(w, "allow", "policy")
     \/ /\ action \in {"allow", "warn"} /\ ~SkipVulnerabilityCheck(p)
        /\ ~(Ruled(p) /\ ExemptsMalware(p))
        /\ Go(w, from, "query") /\ Decided(w, "none", "none")

\* decide is called, by handle or by handleExplain.
Begin(w, p) ==
  /\ pkg' = [pkg EXCEPT ![w] = p]
  /\ \/ /\ Kind[p] = "metadata"
        /\ Go(w, "idle", "idle") /\ Decided(w, "allow", "metadata")
     \/ /\ Kind[p] # "metadata" /\ NeedsPublishTime(p)
        /\ Go(w, "idle", "release") /\ Decided(w, "none", "none")
     \/ /\ Kind[p] # "metadata" /\ ~NeedsPublishTime(p)
        /\ Switch(w, "idle", p, 0)
  /\ UNCHANGED <<feedVars, cacheVars, deadline, answer>>

\* lookupFailed.
lookupFailed(w, from, why) ==
  /\ Go(w, from, "idle")
  /\ Decided(w, IF FailOpenIntelErrors THEN "warn" ELSE "block", why)

-----------------------------------------------------------------------------
(* Resolver.PublishedAt, then Evaluate again.                              *)

ReleaseHit(w) ==
  /\ Live(release, pkg[w], now)
  /\ Switch(w, "release", pkg[w], release.items[pkg[w]].value)
  /\ UNCHANGED <<feedVars, cacheVars, pkg, deadline, answer>>

\* The upstream answers; a static route has no publish time and is not asked.
ReleaseAnswered(w) ==
  /\ ~Live(release, pkg[w], now)
  /\ LET found == IF Kind[pkg[w]] = "static" THEN 0 ELSE Published[pkg[w]]
     IN /\ Switch(w, "release", pkg[w], found)
        /\ release' = LET after == AfterGet(release, pkg[w], now)
                      IN IF found = 0 THEN after
                         ELSE Set(after, pkg[w], found, ReleaseTTL, now,
                                  MaxEntries)
  /\ UNCHANGED <<feedVars, cache, malicious, told, pkg, deadline, answer>>

ReleaseFailed(w) ==
  /\ ~Live(release, pkg[w], now) /\ Kind[pkg[w]] # "static"
  /\ lookupFailed(w, "release", "release_error")
  /\ release' = AfterGet(release, pkg[w], now)
  /\ UNCHANGED <<feedVars, cache, malicious, told, pkg, deadline, answer>>

-----------------------------------------------------------------------------
(* OSVProvider.Query.                                                      *)

\* intel.Decide for an unruled package.
IntelDecide(verdict) ==
  CASE verdict = "clean" -> "allow"
    [] verdict \in {"malicious", "severe"} -> "block"
    [] verdict = "minor" -> DefaultAction

\* What decide, or ruleDecision under a rule, makes of the result.
Conclude(w, verdict) ==
  LET p == pkg[w]
  IN IF Ruled(p)
       THEN IF verdict = "malicious" THEN Decided(w, "block", "intel")
            ELSE Decided(w, Evaluate(p, 0), "rule")
       ELSE Decided(w, IntelDecide(verdict), "intel")

\* A package OSV has no ecosystem for has no findings.
QueryUnlisted(w) ==
  /\ Kind[pkg[w]] = "unlisted"
  /\ Go(w, "query", "idle") /\ Conclude(w, "clean")
  /\ UNCHANGED <<feedVars, cacheVars, pkg, deadline, answer>>

QueryHit(w) ==
  /\ Kind[pkg[w]] # "unlisted" /\ Live(cache, pkg[w], now)
  /\ Go(w, "query", "idle")
  /\ Conclude(w, cache.items[pkg[w]].value)
  /\ UNCHANGED <<feedVars, cacheVars, pkg, deadline, answer>>

QueryMiss(w) ==
  /\ Kind[pkg[w]] # "unlisted" /\ ~Live(cache, pkg[w], now)
  /\ Go(w, "query", "fetch")
  /\ cache' = AfterGet(cache, pkg[w], now)
  /\ deadline' = [deadline EXCEPT ![w] = now + Timeout]
  /\ UNCHANGED <<feedVars, malicious, release, told, pkg, answer, decision>>

\* OSV answers; the answer travels, and later ones may overtake it.
FetchAnswered(w) ==
  /\ Go(w, "fetch", "answered")
  /\ answer' = [answer EXCEPT ![w] =
                  [verdict |-> feed[pkg[w]].verdict,
                   version |-> feed[pkg[w]].version]]
  /\ UNCHANGED <<feedVars, cacheVars, pkg, deadline, decision>>

\* Mutant of FetchFailed: what is known to be malicious is not looked up.
FetchFailedForgets(w) ==
  /\ \E from \in {"fetch", "answered"} : lookupFailed(w, from, "intel_error")
  /\ answer' = [answer EXCEPT ![w] = NoAnswer]
  /\ deadline' = [deadline EXCEPT ![w] = 0]
  /\ UNCHANGED <<feedVars, cache, malicious, release, told, pkg>>

\* fetch fails, on the way there or back: a malicious result is remembered.
FetchFailed(w) ==
  /\ malicious' = AfterGet(malicious, pkg[w], now)
  /\ \E from \in {"fetch", "answered"} :
       IF Live(malicious, pkg[w], now)
         THEN /\ Go(w, from, "idle")
              /\ Conclude(w, malicious.items[pkg[w]].value)
         ELSE lookupFailed(w, from, "intel_error")
  /\ answer' = [answer EXCEPT ![w] = NoAnswer]
  /\ deadline' = [deadline EXCEPT ![w] = 0]
  /\ UNCHANGED <<feedVars, cache, release, told, pkg>>

\* cache.Set; the second cache is updated under a lock of its own.
StoreResult(w) ==
  /\ Go(w, "answered", "keep")
  /\ cache' = Set(cache, pkg[w], answer[w].verdict, TTL, now, MaxEntries)
  /\ UNCHANGED <<feedVars, malicious, release, told, pkg, deadline, answer,
                 decision>>

\* Mutant of KeepMalicious: every result is remembered for the retention.
KeepEverything(w) ==
  /\ Go(w, "keep", "idle")
  /\ malicious' = Set(malicious, pkg[w], answer[w].verdict, Retention, now,
                      MaxEntries)
  /\ Conclude(w, answer[w].verdict)
  /\ answer' = [answer EXCEPT ![w] = NoAnswer]
  /\ deadline' = [deadline EXCEPT ![w] = 0]
  /\ UNCHANGED <<feedVars, cache, release, told, pkg>>

KeepMalicious(w) ==
  /\ Go(w, "keep", "idle")
  /\ malicious' = IF answer[w].verdict = "malicious"
                    THEN Set(malicious, pkg[w], "malicious", Retention, now,
                             MaxEntries)
                    ELSE delete(malicious, pkg[w])
  /\ Conclude(w, answer[w].verdict)
  /\ told' = IF answer[w].version < told[pkg[w]].version THEN told
             ELSE [told EXCEPT ![pkg[w]] =
                     [verdict |-> answer[w].verdict,
                      version |-> answer[w].version, at |-> now]]
  /\ answer' = [answer EXCEPT ![w] = NoAnswer]
  /\ deadline' = [deadline EXCEPT ![w] = 0]
  /\ UNCHANGED <<feedVars, cache, release, pkg>>

-----------------------------------------------------------------------------
(* OSV, the clock, and everything together.                                *)

\* OSV publishes or withdraws a record; those it is never asked for are left
\* out.
FeedChanges(p, v) ==
  /\ Kind[p] = "artifact" /\ Rule[p] \notin {"deny", "allow_exact"}
  /\ feed[p].version < MaxChanges /\ feed[p].verdict # v
  /\ feed' = [feed EXCEPT ![p] = [verdict |-> v, version |-> @.version + 1,
                                  since |-> now]]
  /\ UNCHANGED <<now, cacheVars, pc, pkg, deadline, answer, decision>>

\* A fetch ends, stored or failed, by its deadline.
Tick ==
  /\ now < MaxTime
  /\ \A w \in Worker : pc[w] \in {"fetch", "answered", "keep"} =>
       now < deadline[w]
  /\ now' = now + 1
  /\ UNCHANGED <<feed, cacheVars, pc, pkg, deadline, answer, decision>>

Step(w) ==
  \/ ReleaseHit(w) \/ ReleaseAnswered(w) \/ ReleaseFailed(w)
  \/ QueryUnlisted(w) \/ QueryHit(w) \/ QueryMiss(w)
  \/ FetchAnswered(w) \/ FetchFailed(w) \/ StoreResult(w) \/ KeepMalicious(w)

Next ==
  \/ \E w \in Worker : Step(w) \/ \E p \in Package : Begin(w, p)
  \/ \E p \in Package, v \in Verdicts : FeedChanges(p, v)
  \/ Tick

Spec == Init /\ [][Next]_vars

-----------------------------------------------------------------------------
(* Properties.                                                             *)

\* Type invariant; the caches hold verdicts and publish times.
TypeOK ==
  /\ now \in 1 .. MaxTime
  /\ \A p \in Package : feed[p].verdict \in Verdicts \cup {"clean"}
  /\ \A p \in DOMAIN cache.items :
       cache.items[p].value \in Verdicts \cup {"clean"}
  /\ \A p \in DOMAIN malicious.items : malicious.items[p].value = "malicious"
  /\ \A p \in DOMAIN release.items : release.items[p].value = Published[p]
  /\ pc \in [Worker -> {"idle", "release", "query", "fetch", "answered",
                        "keep"}]
  /\ pkg \in [Worker -> Package]
  /\ \A w \in Worker : decision[w].action \in
       {"none", "allow", "monitor", "warn", "block"}

\* However sets, expiries, deletions and evictions of concurrent queries
\* interleave, a cache's eviction list names each entry once: no entry
\* escapes eviction, none is evicted for an older namesake; and each cache
\* holds only the values that are its own (TypeOK).
CachesWellFormed ==
  /\ TypeOK
  /\ WellFormed(cache, MaxEntries) /\ WellFormed(malicious, MaxEntries)
  /\ WellFormed(release, MaxEntries)

Served(w) == decision[w].action \in {"allow", "monitor", "warn"}
NewlyServed(w) == ~Served(w) /\ Served(w)'
Exempt(p) == Rule[p] = "allow_exact" \/ SkipVulnerabilityCheck(p)

\* "A malicious package is always blocked": once OSV has held a package
\* malicious for longer than the cache TTL and one fetch, no answer of OSV's
\* and no rule but an exact allow rule gets it served, whichever queries
\* were under way when OSV's verdict changed.
MalwareBlocked ==
  [][ \A w \in Worker :
        LET p == pkg'[w] IN
          /\ NewlyServed(w) /\ decision'[w].why \in {"intel", "rule"}
          /\ feed[p].verdict = "malicious" /\ ~Exempt(p)
          /\ Kind[p] = "artifact"
          => now - feed[p].since <= TTL + Timeout ]_vars

\* A failed lookup is not let through for a package whose last OSV answer
\* was malicious, for as long as the result is retained: fail_open does not
\* undo what is already known.
KnownMalwareBlocked ==
  [][ \A w \in Worker :
        LET p == pkg[w] IN
          NewlyServed(w) /\ decision'[w].why = "intel_error"
          => ~(told[p].verdict = "malicious"
               /\ now <= told[p].at + Retention) ]_vars

\* With the cooldown enabled, a package no rule matches is served only once
\* it is min_age old or, failing open, when its publish time is unavailable.
CooldownHeld ==
  [][ \A w \in Worker :
        LET p == pkg'[w] IN
          /\ NewlyServed(w) /\ decision'[w].why \notin {"release_error"}
          /\ CooldownEnabled /\ Rule[p] = "none"
          /\ Kind[p] \in {"artifact", "gomod"}
          => now - Published[p] >= MinAge ]_vars
=============================================================================
