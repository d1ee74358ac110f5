# package-firewall in TLA+

package-firewall is an HTTP proxy between package managers and their
registries. A request is identified (which package, which version), judged
(policy rules, release cooldown, OSV vulnerability data), and then served from
an artifact cache or from the upstream registry. Several replicas may share an
S3 cache and a DynamoDB table. A companion command prewarms the cache.

This directory holds TLA+ models of the parts in which something can go wrong
between two steps, TLC configurations that check them on small instances, and
TLAPS proofs of their safety properties for every instance.
`PROJECT.json` maps each definition to the lines it models.

    tlc -workers 2 -config fill_cluster.cfg MCArtifactFill
    tlapm ArtifactFill_proofs.tla

## Inventory

| Part | State | Operations | What is hard |
|---|---|---|---|
| cache-miss coordination (`proxy/fill.go`) | `fillGroup.calls`, one `fillCall` with a `done` channel per key | begin, finish, wait, acquire, poll, keepLease | leaders that fail, leave or crash; a store that outlives its handler; a lease that is lost |
| proxy serving (`proxy/proxy.go`) | the response being streamed, a temporary file | cache lookup, fetch, redirects, capture, store | freshness that ends on the way, partial bodies |
| coordinator (`coordination/dynamodb.go`) | lease and cooldown items | TryAcquire, Renew, Release, Cooldown, SetCooldown | delayed, retried and lost calls, clocks, whole seconds |
| upstream limiter (`proxy/upstream.go`) | slots and cooldowns per registry | do, waitForCooldown, acquireUpstream | slots on every error path, 429s in parallel |
| decision (`server/server.go`, `policy`) | none of its own | decide | evaluated twice around lookups that may fail |
| OSV intelligence (`intel`) | result cache, memory of malicious results | Query | answers that overtake each other, outages |
| release times (`release`) | cache of publish times | PublishedAt | stale or missing times |
| TTL cache (`cache`) | map and insertion order | Get, Set, Delete | map and order in step at the limit |
| artifact stores (`artifactcache`) | files or objects | Get, Put | crash while writing, corrupt entries |
| prewarm (`prewarm`) | worker pool, checkpoint file | Run, runPass, record | cancellation, crash and resume |
| prewarm manifest (`prewarm/gradle.go`) | none; files of the project | DiscoverGradle, ExcludeGradleCoordinates | files of sibling versions, order of the metadata |
| server shell (`server/server.go`) | the response under way, token bucket, listener | handle, handleExplain, Run | failures after the status line, deadlines, shutdown |
| URL rewriting (`proxy/rewrite.go`) | the bytes held back | rewriteStream | a match split across reads, a body that breaks off |
| audit, request metrics (`audit`, `cachemetrics`) | append-only | Log, Request | once on every path, a panic included |
| adapters, configuration, command line, explain client | none that is read back | parsing and printing | none in scope |

The parts meet as follows. The server routes, authorises, calls `decide` and
then the proxy. The proxy looks into the store, and on a miss `fill.go` decides
who downloads; the download goes through the limiter, and both use the
coordinator; metadata is rewritten on its way to the client. A lost lease ends
a fill by cancelling a context derived from the request's, so a failure of the
coordinator surfaces in the server's error path. Prewarm is an HTTP client of
the whole.

## Modules

**ArtifactFill** (with MCArtifactFill) is one cache key at several replicas.
`pc` follows the work on behalf of a request through Serve, serveCacheMiss,
serveLocalFillLeader, serveUpstream, serveAndStore and the completion, which
may run in the background store after the handler has returned. `calls` and
`closed` are fillGroup and the `done` channels, `owner` and `age` the lease
item, `keeper` and `lost` the keepLease goroutines and the fills they
cancelled. Keys share nothing but the limiter, so one key is enough. Time is
abstract: a lease item is live, due or past. Faults (crash, cancelled client,
failed or lost calls, late renewal, failed store, expiring entry) are steps of
the environment counted against `MaxFaults`.

**SingleFlight** is what fillGroup promises inside a process, without cache,
lease or network: a key has at most one leader, which is replaced only after
it has yielded. ArtifactFill implements it under the mapping `FlightPhase`.

**DynamoLease** (with MCDynamoLease) is the lease in real time. Calls are
messages with the caller's clock reading that may be applied late, twice, or
after their caller gave up. `Second` ticks make a second and the table keeps
whole seconds.

**UpstreamLimiter** (with MCUpstreamLimiter) is `Proxy.do` for one registry:
cooldown, queue, slot, request, 429, backoff, at replicas that share cooldowns
through the table. What a 429 does (the local cooldown, the write to the table,
the slot given back) is one step; the properties do not depend on its parts'
order.

**TTLCache** and **Decide** (with MCDecide) are `Server.decide` with the policy
engine's order of rules, the release resolver and `OSVProvider.Query`. Workers
are handler goroutines that share the caches. Pattern matching is abstracted:
each package has the rule that matches it and the kind its URL was given.

**Gradle** holds the manifest as pure functions from the parsed project
(lockfiles, verification metadata, flags) to a list of artifacts: which
components are selected, in which version directory a file was published,
which checksums it may have, what is excluded, and every reason to give no
manifest. `Wanted` is what the list is meant to be, defined from where the
files really are. **Prewarm** (with MCPrewarm) composes it with `prewarm.Run`:
dispatcher, workers, pacer, retries, the two passes and routes, and the
checkpoint file that survives a crash and may outlive the project it was made
for (`Edit`). `file.sha` is the fingerprint as the data it digests.

**Rewrite** is `rewriteStream`, one step per read; `Rewritten` is
replacement on the whole text, rule by rule. **Server** (with MCServer)
composes it with the server shell. `pc` follows a request through routing,
authorisation, the two lookups of decide, the cache, the upstream and the body
to the end of `handle`; `sent` and `header` are what went to the
ResponseWriter, `conn` how the connection ended, `audit` and `counted` what was
recorded. `until` is the timeout of the call the handler is in, 0 if it has
none, and `cutAt` net/http's write deadline. Time passes in every call that can
take some: the lookups, the cache, `TryAcquire`, another's fill, the upstream,
a body that the client is slow to take, and the lease's Release before an error
is told; `over` adds up what of it Validate's budget does not count
(`Uncounted`). The outcomes of decide and of the fill are choices
here; Decide, ArtifactFill and CachedEntry go into them. `Explain` is
handleExplain in one step with the token bucket in ticks' worth; `stop`,
`listener`, `errCh`, `main` are Run, its goroutine and the channel between
them. A `Scenario` fixes what is configured and asked for, so that unrelated
dimensions are not multiplied: handle and handleExplain share no variable.

**CachedEntry**, over **Redirect** (with MCCachedEntry), is the life of one
cached artifact. A fill asks the upstream, follows redirects under the route's
policy (Redirect holds the policy, what is remembered of the hops, and the part
of the cache key that depends on it; a hop may say that it selected the response
for this client where `observe` reads it, or only in a later Cache-Control field
where it does not), judges the response
(`responseBypassReason`, `npm_cache.go`), captures it and puts it into the file
store (write, sync, rename) or S3 (atomic); a reader opens the entry, stages
it, checks it once more and serves it with its Age. Restarts may lose the
directory's last write, lose unsynced content, and bring another redirect
policy. The responses are those of an honest upstream: one that comes out of
another cache has an Age or a Date. `born`, `life`, `trip` (an npm request's
round trip), `seen`, `picked` and `private` are history the code does not have.

## Runs

| Run | Shows |
|---|---|
| fill_cluster | Leads in a process never overlap and refine SingleFlight; a waiter always has somebody to wake it and is served from the cache when nothing fails; until a renewal is late at most one fill of the cluster goes on; a displaced holder's Release does not free its successor's lease; every request ends. |
| fill_once | *Violated.* Without any fault an artifact is downloaded twice: the miss is decided before the lease is acquired and not looked at again after. |
| lease_timely | Two fills never go on at once when the durations satisfy `Timely`. |
| upstream_calls | One token per response in flight on every path; retries bounded; nothing is sent inside a cooldown the request knew of, nor more than one second inside a shared one it has read; parallel 429s never shorten a cooldown; every call ends. |
| decide_malware | Malware is blocked once OSV has held it for the cache TTL plus one fetch, whatever was under way; the caches stay consistent at their limit. |
| decide_rules | Nothing younger than min_age is served without a rule; with fail_open set, what is known to be malicious stays blocked for the retention (one request at a time). |
| decide_race | *Violated.* The same for two concurrent requests: an older clean answer stored last deletes the memory. |
| prewarm_runs | The manifest is exactly the wanted files, each once, in its own version directory and with all its checksums; success means a second-pass hit for every one on its own route; markers and only markers go to the plugin route; a resumed run takes over only what was verified against the present checksums, and requests nothing recorded again; nothing is dropped; every run ends. |
| cached_entry | A hit has the bytes that were stored, none of another client's as far as the headers the code reads tell, none from an origin the policy in force does not trust; no restart or power loss leaves a partial file; a hit is decided within the TTL and npm's s-maxage; its Age is too low by no more than one cut-off fraction per conversion, and too high by no more than npm's round trip or the cut of a Date. |
| prewarm_resume | *Violated.* A BYPASS answer is written to the checkpoint before it is rejected, and the next run refuses the file. |
| server_replies | Whatever the reads and wherever the body breaks off, the client has a beginning of the text with every origin replaced, and a response whose status was written and that ends normally has all of it; each request is counted and logged once, with the status that was sent; without credentials every path off an open route looks the same; error responses carry none of the headers they replace; under a configuration that Validate accepts, the write deadline cuts a response off only after the waits that are not counted have used up the whole margin; /explain keeps its rate in every window; Run reports success only for a clean end, and returns. |
| server_lease_lost | *Violated.* A lease lost before the upstream answered is taken for a client that left: nothing is written, and a connected client gets an empty 200. |

### Bounds

- fill_cluster: three requests at two replicas give a leader and a waiter in
  one process and a rival in another. One fault reaches every recovery path,
  takeover included; the safety properties are proved for any number.
- lease_timely: two attempts, since a third only repeats the second's part;
  the durations satisfy `Timely` with equality or nearly so, and the clock runs
  for two lease durations.
- upstream_calls: two requests at the same replica or at two, over one slot
  each, give contention and sharing; delays of zero, within and above
  max_retry_after; two ticks to a second so that the cut matters.
- decide_malware: caches of one entry and two packages force evictions.
  decide_rules: one package of every kind and rule.
- prewarm_runs: `Projects` are the manifests of every combination of four
  locked components (one that lists a sibling's file, one whose file name does
  not give its version, one with nothing verified), markers and exclusions, in
  three orders of the metadata, with versions 1, 1-j and 12 that are prefixes of
  one another as strings or as versions. Beyond --check go the three of
  `Runnable`, which differ in a checksum and in the plugin route: two artifacts
  of different routes and one or two workers let one leave while the other has
  or has not yet a job; two runs, so that one resumes.
- server_replies: all bodies up to four symbols over three, the match being two
  or three symbols long, so that one is cut at every place, at every offset, and
  follows another; all write timeouts around the budget with every timeout one
  tick, which makes "just used up" differ from "fits"; a burst of two and two
  ticks to a token; four ticks, which is the longest write timeout and the time
  an empty bucket takes to fill; every set of credentials on a route inside
  another, beside it and on none.
- cached_entry: one fill and one reader, since overlapping fills meet only in
  the rename or the PutObject, which are atomic; two foreign origins and a limit
  of three requests, that is two redirects, give a trusted hop behind another
  one; two ticks to a second and three seconds reach every truncation and both
  lifetimes.
- `MaxTime`, `MaxFaults`, `MaxChanges` and `MaxRuns` end the behaviours. Where
  the bounded clock stops the model, deadlock checking is off; in Decide a
  worker can always begin another request, and it is on.

### Fairness

ArtifactFill: weak fairness of each request's own work (goroutines run; every
call to the cache, the table and the registry has a timeout or ends with its
context) and of the ageing of a lease nobody renews. Nothing makes clients
come or leave or faults happen. UpstreamLimiter: weak fairness of the clock and of each
request's work; the queue and the HTTP client have timeouts. Prewarm: weak
fairness of the dispatcher and of each worker, whose waits end with a timer or
the context. Server: weak fairness of Run and its goroutine (`Stopping`): after
a signal the shutdown timer fires. Nothing is assumed of handlers or clients.

## Proofs

The theorems hold for every value of the constants that satisfies the named
assumptions of the model; each inductive invariant was checked with TLC on the
run's instance before it was proved. The bounds (`MaxTime`, `MaxFaults`, ...)
are constants too, so the theorems hold however far they are moved.

`Arithmetic_proofs` has what the others share: the larger and the smaller of
two numbers, division and multiplication, and `LeastElement` (a set of natural
numbers that is not empty has a least element). The provers cannot apply an
induction theorem to a predicate, but they can follow a least counterexample,
and wherever a proof below needs induction it goes that way.

`ArtifactFill_proofs`, from the assumptions that every request has a replica
and that the tokens Nobody and Orphan are distinct from requests:

- `TypeCorrect`: `[]TypeOK`.
- `ProcessExclusion` and `NoLostWakeup` (`OneFillPerProcess`,
  `WaiterHasWaker`). Neither is inductive. `FillInv` is: a request is in a
  leading phase exactly while its replica's `calls` entry is its call, and a
  waiter's call is closed or is that entry.
- `ClusterExclusion` (`OneFillPerCluster`), from `KeeperInv`: an uncancelled
  fill has its keeper, and a keeper's lease is live and its own until a
  renewal is late.
- `TakeoverSafety` (`LeaseTakeover`), an action property from TypeOK.
- `WaiterServed` (`WaiterServedFromCache`), from `FlawlessInv`: without a fault
  nobody leaves or loses a lease, so a call is closed only after the store.
- `Refinement`: `Spec => ImplementsSingleFlight`, from FillInv.

`DynamoLease_proofs`, from the durations config.Validate accepts:

- `TypeCorrect`, together with the fact that a renewal follows its tick.
- `LeaseExclusion`: `Timely` implies `[]OneHolder`. The invariant relates each
  attempt's last confirmed call to the clock and to the stored expiry, through
  lemmas on truncation (`DivFacts`, `UnixMono`, `UnixSlack`).

`Timely` is stronger than what config.Validate requires (lease_duration at
least 3s, poll_interval shorter than it): poll_interval is also the timeout of
a renewal, so the longest gap between two confirmed renewals, plus the second
that is cut off and the clocks' difference, must fit into lease_duration. The
default configuration satisfies it; a poll_interval near lease_duration does
not, and then two fills may go on at once.

`UpstreamLimiter_proofs`, for any replicas, requests, slots and delays:

- `TypeCorrect` and `SlotsKept` (`TypeOK`, `SlotsMatchInFlight`). TypeOK alone
  is not inductive: that a release leaves a natural number in `inUse` takes
  `SlotInv`, by which the release functions that have not run are those of the
  requests in flight, counted with the lemmas on cardinality.
- `UpstreamKept` (`UpstreamSpared`): the invariant follows the cooldown a
  request read until it sends, through the cut to whole seconds.
- `CooldownsKept` (`CooldownsMonotone`), an action property.

`CachedEntry_proofs`, for any writers, readers, origins, redirects, lifetimes
and length of a second. `Inv` says of a response under way, a temporary file, a
stored and a staged entry what the next one needs of it (`RespOK`, `EntryOK`,
`HasOK`): the hops are covered by the key, the file under the key was synced,
the expiry is within the TTL of the store and, for npm, within the lifetime the
response had left.

- `EntriesWellFormed` (`TypeOK`), `HitsIntact` (`ServedIntact`),
  `HitsReplayable` (`OnlyReplayable`).
- `HitsFresh` and `AgesHonest` (`HitFresh`, `AgeHonest`), action properties:
  the cut of each conversion is carried as its own `Second - 1`, and, from the
  other side, `RespYoung` and `EntryYoung` say that no Age or Date so far makes
  the response older than it is but for `Overstated`.

`Server_proofs`, for any routes, scenarios, timeouts and rates, one invariant
per concern, since the concerns share few variables:

- `ExplainLimited` (`ExplainBounded`), from `BucketInv`: what was admitted
  beyond the rate and what the bucket could admit now are together at most a
  full bucket.
- `ExitsCleanly` (`CleanExit`), from `ExitInv`.
- `EachAccountedOnce` (`AccountedOnce`), from `HandleInv`: nothing is logged or
  counted before the last step, and upstream headers come only with a status of
  200 or 0.
- `TimeoutSuffices` (`WriteTimeoutSuffices`), from `TimeInv`: in each phase, the
  time since the request came is at most what the budget has for the phases so
  far and `over`, and a call's timeout keeps to that as well.
- `StrangersSeeNothing` (`NothingDisclosed`), with lemmas on the longest
  matching prefix (`PrefixesNest`, `LongestRoute`).
- `OriginsNeverEscape` (`NothingEscapes`) and `CompleteIsWhole`
  (`CompleteMeansWhole`), for bodies of any length, any symbols and any reads,
  from `StreamInv`: with w[i] the text that is meant to come of the body from
  offset i, what was written and w at the first byte held back make up w[0].
- `TypeCorrect` (`TypeOK`), which is put together from the invariants above and
  `RestInv`; that no more than `Keep` bytes are held back comes from StreamInv.

The argument for rewriteStream. `Clean(t, rs, S, w)` says step by step what is
meant: at the end of the text nothing, at a match its replacement and then what
comes behind it, else the byte and then what comes behind that. For rules that
`Fit` (none empty, no two that match at the same place, none longer than
another by more than a byte, or the shorter one could overtake it in the bytes
held back) there is exactly one such w (`CleanExists`, `CleanUnique`). `Chunk`
is the lemma about writeRewritten: on any piece of the text it writes what w has
up to where it stops, and it never stops inside a match, since a match that the
piece cuts off begins within the last `Keep` bytes. The reference `Rewritten`
applies the rules one after the other; that this is the same as all at once is
not true of all rules, and
`InTurnOrAtOnce` proves it of https and http, whose replacement begins no new
match. The recursive functions of Rewrite are unrolled (`Unrolls`) and followed
by least counterexamples. The assumption on bodies is that they are sequences
of strings (`ServerAssumption`); the rules are those of `rewriteRules`.

`Decide_proofs`, for any workers, packages, rules, durations and cache sizes.
Its first part is about cache.Cache: `DeleteFacts`, `EnforceFacts` and
`SetFacts` say what each method makes of a well-formed cache, delete's loop
being a recursive function that is followed to its least counterexample.

- `CachesKept` (`CachesWellFormed`).
- `MalwareKeptOut` (`MalwareBlocked`): an answer or a cached result that OSV
  has replaced by a malicious one was asked for before that (`FetchOK`,
  `EntryOK`).
- `CooldownKept` (`CooldownHeld`): who queries OSV has the cooldown behind it.
- `KnownMalwareKeptOut` (`KnownMalwareBlocked`), under `[]Alone`, that no two
  answers about one package are under way at once, and `RoomForAll`, that the
  memory has room for every package that may be malicious. decide_race shows
  that the code does not see to the first: the theorem says that this race and
  an overflow are the only ways to forget a malicious result. With one worker,
  as in decide_rules, `Alone` is always true.

`Prewarm_proofs`, for any projects, pools, edits, crashes and checkpoints:

- `TypeCorrect`, `TakenOverVerified` (`SkipsOnlyVerified`) and
  `NothingRepeated` (`NoRepeats`, an action property).
- `SuccessMeansManifestHit`: success means a second-pass hit for every
  artifact of the manifest, on its route, and as many counted. The invariant
  (`PassInv`) is that until something fails, every job handed out is done or
  in the hands of exactly one worker, and the counters have what is done.
- `ManifestsAreExact` (`ManifestExact`), from the list that ListInv and
  `CheckedInv` keep and from `ManifestMade`, which is about the data alone: a
  manifest without an error has every wanted file once, in its own version
  directory, with all its checksums and its marker, less what is excluded.
- `SuccessComplete` (`SuccessMeansAllHits`) and `RoutesKept`
  (`RoutesSeparated`), from the two before.

The argument for the manifest. Both loops of DiscoverGradle are folds, which
`LoopExists` unrolls over their indices; `LoopTurns` gives the records after
each turn. `Collects(p, N, r)` says that the records r are exactly those of the
pairs N of a component and a file, each path with the union of its checksums;
it holds of the empty records and every turn keeps it for one pair more
(`CollectsArtifact`, `CollectsComponent`, `CollectsProject`, by the least turn
that would not). `HomeFound` shows that the longest version a name gives is the
one it was published with, and `ManifestIs` follows the checks and the
exclusion.

`ProjectsAssumption` is what these theorems take from the data (`Conventional`),
and TLC evaluates it for every project of the runs. The code checks none of it
and relies on it: a file that is fetched (in the model a "jar", that is neither
sources nor javadoc) has the name of its own version and of no longer version
of the module, or of no known version at all, as with snapshots; and of a module with an active marker no other
version is locked. Without the last, a version of a marker's module that is
only locked is asked of the Maven route, and a file that both name gets the
route of the first of them: `RoutesSeparated`, which speaks of modules, would
not hold.

Only model-checked:

- Liveness (`EveryRequestEnds`, `EveryCallEnds`, `RunEnds`, `RunReturns`): the
  prover has neither fairness nor ENABLED.
- `KnownMalwareBlocked` without `Alone` is false (decide_race).

## Behaviours worth knowing

- fill_once, decide_race, prewarm_resume and server_lease_lost above.
- The write-timeout budget that Validate checks has no part for the publish-time
  lookup; for `TryAcquire` (`fill.go:80`), which has no timeout of its own; for
  Release, up to five seconds before handle learns of a failed fill; for waiting
  on another request's fill and reading the cache again after it; or for a
  client that takes its time over the body of a hit or a download. Any of them
  can use up the deadline of a configuration that passes.
- `README.md:341` says that redirected responses bypass storage. A route that
  enforces an allowlist stores and replays them when the last hop is on it
  (`cacheableRedirect`, `proxy.go:1015`); `OnlyReplayable` is about these.
- Of a redirecting hop only the first Cache-Control field is read
  (`proxy.go:970`): one that is private or no-store in a later field counts as
  cacheable, although the comment at `proxy.go:952` speaks of any directives.
- At most maxUpstreamRedirects - 1 redirects are followed, since CheckRedirect's
  `via` has the first request.
- The Age of an npm response counts the whole round trip (`npm_cache.go:48`), so
  a response made at its end looks older than it is.
- /explain for a purl knows no upstream path, so with the cooldown enabled the
  publish time of a PyPI, Go or Maven package is not found and the explanation
  is of a failed lookup.
- OSV is asked once per query; a result that OSV would continue on another page
  is taken as it is.
- An exclusion takes out the files published under a coordinate, not those its
  component lists: a sibling's file listed by an excluded component stays.
- A file named by a marker and by an ordinary component goes to the route of the
  one that comes first in the metadata.
- A locked component whose files are all without checksum counts as found; only
  markers need a verified file.
- The command passes prewarm a context that is never cancelled: an interrupted
  run dies where it is, and resumes from what was saved.
- The memory of a malicious result runs for seven days from the answer, not
  from the end of the cache TTL.
- The cooldown is checked before a request queues for a slot, not after.
- The shared cooldown is stored in whole seconds, cut off.
- Outside npm, a response without a Date is served with an Age that leaves out
  the time its body took to arrive.
- A process that dies during Put leaves its temporary file behind; nothing
  removes it later. It is never read.
- A slow fill replaces the entry of a faster, later one.

## Not modelled

Header filtering, URL building, path parsing in the registry adapters, policy
patterns, CVSS scores and the encoding of entries are string work without
state; the models take their outcome as a class (a kind, a rule, a verdict, a
form of a request). Walking directories, parsing lockfiles and XML, loading and
overriding the configuration, flags and wiring come before the modelled
behaviour begins. Progress events, the exposition of metrics, the wording of
explanations and the client that prints them are output nobody reads back; the
deployment files have no behaviour. Several requests at once are modelled where
they share something: the fill, the limiter, the decision's caches, the bucket;
a response shares nothing, and Server follows one.

## Plan

1. Done: every module model-checked, and every invariant and action property of
   the passing runs proved; decide_rules' `KnownMalwareBlocked` under `Alone`.
2. Left to TLC: liveness.
3. The publish-time formats and the adapters' path rules, if a property beyond
   their text turns up.
