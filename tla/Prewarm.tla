------------------------------ MODULE Prewarm ------------------------------
(***************************************************************************)
(* The prewarm command: the manifest of the project as it is now, then     *)
(* prewarm.Run, two passes over its artifacts, each a pool of workers fed  *)
(* by a dispatcher, the first one skipping and recording artifacts in a    *)
(* checkpoint file that outlives a crash and may outlive the project it    *)
(* was made for.  The firewall the requests go to is external: it answers  *)
(* what its cache makes it answer.                                         *)
(***************************************************************************)
EXTENDS Gradle

CONSTANTS
  Projects,          \* states of the project the command is tried on
  Runnable,          \* bound: those it goes beyond --check on
  Pools,             \* pools a run may have: cfg.Concurrency goroutines
  StateFile,         \* whether a checkpoint file is configured
  Paced,             \* whether min_request_interval is set
  RateLimitRetries,
  Bypassed,          \* modules the firewall at times declines to cache
  MaxRuns            \* bound: how often the command is run

Worker == UNION Pools

ASSUME PrewarmAssumption ==
  /\ \A p \in Pools : p # {} /\ IsFiniteSet(p)
  /\ MaxRuns \in Nat /\ RateLimitRetries \in Nat
  /\ StateFile \in BOOLEAN /\ Paced \in BOOLEAN
  /\ Runnable \subseteq Projects
  /\ \A p \in Projects : IsFiniteSet(Manifest(p).artifacts)

ASSUME ProjectsAssumption == \A p \in Projects : Conventional(p)

VARIABLES
  project,       \* lockfiles, verification metadata and flags
  manifest,      \* the artifacts handed to Run
  runs, phase,   \* runs started; where the last one is or how it ended
  pool,          \* the workers of the run
  next, sending, \* the dispatcher: next index, and whether jobs is open
  pc, job, tries, status,  \* per worker; status is the cache status header
  pacer,         \* workers holding requestPacer.mu
  ctx, parent,   \* "live" or "done"
  firstErr, unavailable,
  stats,         \* PassStats
  routes,        \* discoveredRoutes of the first pass
  entries,       \* checkpoint.entries
  file,          \* the checkpoint file
  cached,        \* what the firewall has in its cache: routes and paths
  fetched,       \* history: paths requested in this run's first pass
  hit2,          \* history: routes and paths found HIT in the second pass
  verified       \* history: artifacts and routes whose checksum was right

feedVars == <<next, sending>>
poolVars == <<feedVars, pc, job, tries, status, pacer>>
errVars == <<ctx, parent, firstErr, unavailable>>
passVars == <<poolVars, errVars, stats, routes>>
diskVars == <<entries, file>>
histVars == <<fetched, hit2, verified>>
runVars == <<project, manifest, pool, runs, phase>>
vars == <<runVars, passVars, diskVars, cached, histVars>>

NoStats == [artifacts |-> 0, hits |-> 0, misses |-> 0]
Running == phase \in {"pass1", "pass2"}
Checkpoint == StateFile /\ phase = "pass1"
NoFile == [sha |-> {}, completed |-> <<>>]
Job(w) == manifest[job[w]]

\* The locals of runPass as it starts; the parent context is Run's.
FreshPass ==
  /\ next' = 1 /\ sending' = "open"
  /\ pc' = [w \in Worker |-> IF w \in pool' THEN "ready" ELSE "exited"]
  /\ job' = [w \in Worker |-> 1]
  /\ tries' = [w \in Worker |-> 0] /\ status' = [w \in Worker |-> "none"]
  /\ pacer' = {}
  /\ ctx' = parent' /\ firstErr' = "none" /\ unavailable' = {}
  /\ stats' = NoStats

Init ==
  /\ project \in Projects /\ manifest = <<>> /\ pool = {}
  /\ runs = 0 /\ phase = "idle"
  /\ next = 1 /\ sending = "open"
  /\ pc = [w \in Worker |-> "ready"] /\ job = [w \in Worker |-> 1]
  /\ tries = [w \in Worker |-> 0] /\ status = [w \in Worker |-> "none"]
  /\ pacer = {}
  /\ ctx = "live" /\ parent = "live" /\ firstErr = "none" /\ unavailable = {}
  /\ stats = NoStats /\ routes = <<>>
  /\ entries = <<>> /\ file = NoFile
  /\ cached = {} /\ fetched = {} /\ hit2 = {} /\ verified = {}

-----------------------------------------------------------------------------
(* The command, Run and loadCheckpoint.                                    *)

\* Mutant of routeCandidates: markers are asked of the Maven route.
routeCandidatesMaven(artifact) == "maven"

\* An artifact has one route.
routeCandidates(artifact) ==
  IF artifact.marker /\ project.plugins THEN "plugins" ELSE "maven"

\* Mutant of fingerprintManifest: it leaves the checksums out.
fingerprintManifestPaths(artifacts) ==
  {[plugins |-> project.plugins, artifact |-> [a EXCEPT !.sums = {}]] :
     a \in artifacts}

\* The artifacts with their checksums, and the routes.
fingerprintManifest(artifacts) ==
  {[plugins |-> project.plugins, artifact |-> a] : a \in artifacts}

\* loadCheckpoint accepts the file, or there is none.
Loadable(artifacts) ==
  \/ ~StateFile \/ file = NoFile
  \/ /\ file.sha = fingerprintManifest(artifacts)
     /\ \A p \in DOMAIN file.completed :
          /\ file.completed[p].status \in {"HIT", "MISS"}
          /\ \E a \in artifacts :
               a.path = p /\ file.completed[p].route = routeCandidates(a)

Routable(artifacts) == \A a \in artifacts : a.marker => project.plugins

\* Mutant of StartRun: the file's entries are not taken over.
StartRunForgets ==
  LET m == Manifest(project)
  IN /\ ~Running /\ runs < MaxRuns /\ project \in Runnable
     /\ m.err = "" /\ Routable(m.artifacts) /\ Loadable(m.artifacts)
     /\ manifest' = SetToSeq(m.artifacts)
     /\ runs' = runs + 1 /\ phase' = "pass1"
     /\ pool' \in Pools /\ parent' = "live" /\ FreshPass
     /\ routes' = [i \in DOMAIN manifest' |-> "none"]
     /\ entries' = <<>>
     /\ fetched' = {} /\ hit2' = {}
     /\ UNCHANGED <<project, file, cached, verified>>

StartRun ==
  LET m == Manifest(project)
  IN /\ ~Running /\ runs < MaxRuns /\ project \in Runnable
     /\ m.err = "" /\ Routable(m.artifacts) /\ Loadable(m.artifacts)
     /\ manifest' = SetToSeq(m.artifacts)
     /\ runs' = runs + 1 /\ phase' = "pass1"
     /\ pool' \in Pools /\ parent' = "live" /\ FreshPass
     /\ routes' = [i \in DOMAIN manifest' |-> "none"]
     /\ entries' = IF StateFile THEN file.completed ELSE <<>>
     /\ fetched' = {} /\ hit2' = {}
     /\ UNCHANGED <<project, file, cached, verified>>

\* --check: the manifest is made and nothing is fetched.
CheckOnly ==
  LET m == Manifest(project)
  IN /\ ~Running /\ runs < MaxRuns /\ project \notin Runnable
     /\ m.err = ""
     /\ manifest' = SetToSeq(m.artifacts)
     /\ runs' = runs + 1 /\ phase' = "checked"
     /\ UNCHANGED <<project, pool, passVars, diskVars, cached, histVars>>

\* No manifest, with --check or without, or no route for its markers.
RejectProject ==
  LET m == Manifest(project)
  IN /\ ~Running /\ runs < MaxRuns
     /\ m.err # "" \/ (project \in Runnable /\ ~Routable(m.artifacts))
     /\ runs' = runs + 1 /\ phase' = "rejected" /\ manifest' = <<>>
     /\ UNCHANGED <<project, pool, passVars, diskVars, cached, histVars>>

RefuseCheckpoint ==
  LET m == Manifest(project)
  IN /\ ~Running /\ runs < MaxRuns /\ project \in Runnable
     /\ m.err = "" /\ Routable(m.artifacts) /\ ~Loadable(m.artifacts)
     /\ runs' = runs + 1 /\ phase' = "refused" /\ manifest' = <<>>
     /\ UNCHANGED <<project, pool, passVars, diskVars, cached, histVars>>

\* workers.Wait returned: the first error, then the caller's cancellation,
\* then the artifacts not found; else the next pass or the end.
PassFails == firstErr # "none" \/ parent = "done" \/ unavailable # {}
PassOver ==
  Running /\ sending = "closed" /\ \A w \in Worker : pc[w] = "exited"

EndPassFailed ==
  /\ PassOver /\ PassFails
  /\ phase' = "failed"
  /\ UNCHANGED <<project, manifest, pool, runs, passVars, diskVars, cached,
                 histVars>>

\* The pass was good but its summary, or the progress log, was not written.
OutputFails ==
  /\ PassOver /\ ~PassFails
  /\ phase' = "failed"
  /\ UNCHANGED <<project, manifest, pool, runs, passVars, diskVars, cached,
                 histVars>>

EndFirstPass ==
  /\ PassOver /\ ~PassFails /\ phase = "pass1"
  /\ phase' = "pass2"
  /\ UNCHANGED <<pool, parent>> /\ FreshPass
  /\ UNCHANGED <<project, manifest, runs, routes, diskVars, cached, histVars>>

EndSecondPass ==
  /\ PassOver /\ ~PassFails /\ phase = "pass2"
  /\ phase' = "ok"
  /\ UNCHANGED <<project, manifest, pool, runs, passVars, diskVars, cached,
                 histVars>>

-----------------------------------------------------------------------------
(* The dispatcher.                                                         *)

\* case jobs <- artifactJob{...}
Dispatch(w) ==
  /\ Running /\ sending = "open" /\ next <= Len(manifest)
  /\ pc[w] = "ready" /\ pc' = [pc EXCEPT ![w] = "got"]
  /\ job' = [job EXCEPT ![w] = next]
  /\ tries' = [tries EXCEPT ![w] = 0]
  /\ next' = next + 1
  /\ UNCHANGED <<runVars, sending, status, pacer, errVars, stats, routes,
                 diskVars, cached, histVars>>

\* The list is through, or case <-ctx.Done(); then close(jobs).
CloseJobs ==
  /\ Running /\ sending = "open"
  /\ next > Len(manifest) \/ ctx = "done"
  /\ sending' = "closed"
  /\ UNCHANGED <<runVars, next, pc, job, tries, status, pacer, errVars, stats,
                 routes, diskVars, cached, histVars>>

-----------------------------------------------------------------------------
(* A worker.                                                               *)

Go(w, from, to) == Running /\ pc[w] = from /\ pc' = [pc EXCEPT ![w] = to]

\* A step that moves only the worker.
Moves(w, from, to) ==
  /\ Go(w, from, to)
  /\ UNCHANGED <<runVars, feedVars, job, tries, status, pacer, errVars, stats,
                 routes, diskVars, cached, histVars>>

\* The second pass keeps to the route of the first.
Route(w) == IF phase = "pass2" THEN routes[job[w]] ELSE routeCandidates(Job(w))

\* Mutant of fail: the pass is not cancelled.
failUncancelled(why) ==
  /\ firstErr' = IF firstErr = "none" THEN why ELSE firstErr
  /\ UNCHANGED ctx

\* fail: the first error is kept and the pass's context cancelled.
fail(why) ==
  /\ firstErr' = IF firstErr = "none" THEN why ELSE firstErr
  /\ ctx' = "done"

Count(st) ==
  stats' = [artifacts |-> stats.artifacts + 1,
            hits |-> stats.hits + (IF st = "HIT" THEN 1 ELSE 0),
            misses |-> stats.misses + (IF st = "MISS" THEN 1 ELSE 0)]

\* range jobs ends.
WorkerExits(w) == sending = "closed" /\ Moves(w, "ready", "exited")

\* completedArtifact: the checkpoint has the path already.
Completed(w) == Checkpoint /\ Job(w).path \in DOMAIN entries

SkipCompleted(w) ==
  /\ Completed(w) /\ Go(w, "got", "ready")
  /\ Count(entries[Job(w).path].status)
  /\ routes' = [routes EXCEPT ![job[w]] = entries[Job(w).path].route]
  /\ UNCHANGED <<runVars, feedVars, job, tries, status, pacer, errVars,
                 diskVars, cached, histVars>>

FetchArtifact(w) == ~Completed(w) /\ Moves(w, "got", "pace")

Requested(w) ==
  fetched' = IF phase = "pass1" THEN fetched \cup {Job(w).path} ELSE fetched

\* requestPacer.do: its mutex is held until the response's header is there.
\* The second pass is not paced.
SendRequest(w) ==
  /\ Go(w, "pace", "sent") /\ Requested(w)
  /\ Paced /\ phase = "pass1" => pacer = {}
  /\ pacer' = IF Paced /\ phase = "pass1" THEN {w} ELSE pacer
  /\ UNCHANGED <<runVars, feedVars, job, tries, status, errVars, stats, routes,
                 diskVars, cached, hit2, verified>>

\* A 2xx answer with the right checksum, which is "s1" for every file there
\* is.  A miss is stored, as a rule.
Answered(w) ==
  LET entry == <<Route(w), Job(w).path>>
      as(st) == status' = [status EXCEPT ![w] = st]
  IN /\ Go(w, "sent", "verified") /\ "s1" \in Job(w).sums
     /\ \/ entry \in cached /\ as("HIT") /\ UNCHANGED cached
        \/ entry \notin cached /\ as("MISS")
           /\ cached' \in {cached, cached \cup {entry}}
        \/ entry \notin cached /\ Job(w).path.module \in Bypassed
           /\ as("BYPASS") /\ UNCHANGED cached
     /\ verified' = verified \cup {<<Route(w), Job(w)>>}
     /\ pacer' = pacer \ {w}
     /\ UNCHANGED <<runVars, feedVars, job, tries, errVars, stats, routes,
                    diskVars, fetched, hit2>>

\* Mutant of NotFound: the artifact is not reported.
NotFoundUnreported(w) ==
  /\ Go(w, "sent", "ready") /\ pacer' = pacer \ {w}
  /\ UNCHANGED <<runVars, feedVars, job, tries, status, errVars, stats, routes,
                 diskVars, cached, histVars>>

\* 404: reported at the end of the pass.
NotFound(w) ==
  /\ Go(w, "sent", "ready") /\ pacer' = pacer \ {w}
  /\ unavailable' = unavailable \cup {Job(w).path}
  /\ UNCHANGED <<runVars, feedVars, job, tries, status, ctx, parent, firstErr,
                 stats, routes, diskVars, cached, histVars>>

\* Mutant of RateLimited: retries are not bounded.
RateLimitedAlways(w) ==
  /\ Go(w, "sent", "wait") /\ pacer' = pacer \ {w}
  /\ tries' = [tries EXCEPT ![w] = @ + 1]
  /\ UNCHANGED <<runVars, feedVars, job, status, errVars, stats, routes,
                 diskVars, cached, histVars>>

\* 429 with retries left: wait for Retry-After.
RateLimited(w) ==
  /\ Go(w, "sent", "wait") /\ pacer' = pacer \ {w}
  /\ tries[w] < RateLimitRetries
  /\ tries' = [tries EXCEPT ![w] = @ + 1]
  /\ UNCHANGED <<runVars, feedVars, job, status, errVars, stats, routes,
                 diskVars, cached, histVars>>

\* Transport or HTTP error, a bad checksum, a cancelled request, or a 429
\* with no retries left.
FetchFailed(w) ==
  /\ Go(w, "sent", "exited") /\ pacer' = pacer \ {w}
  /\ fail("fetch")
  /\ UNCHANGED <<runVars, feedVars, job, tries, status, parent, unavailable,
                 stats, routes, diskVars, cached, histVars>>

RetryAfterWait(w) == Moves(w, "wait", "pace")

\* waitContext fails: the worker leaves without reporting anything.
WaitCancelled(w) == ctx = "done" /\ Moves(w, "wait", "exited")

\* The map after checkpoint.record, and the file that is renamed into place.
Recorded(w) ==
  [p \in DOMAIN entries \cup {Job(w).path} |->
     IF p = Job(w).path THEN [route |-> Route(w), status |-> status[w]]
     ELSE entries[p]]

record(w) ==
  /\ entries' = Recorded(w)
  /\ file' = [sha |-> fingerprintManifest(Range(manifest)),
              completed |-> entries']

\* After the checkpoint: a status that is neither HIT nor MISS is an error.
AcceptStatus(w) ==
  /\ Count(status[w])
  /\ IF status[w] \in {"HIT", "MISS"}
       THEN Go(w, "verified", "ready") /\ UNCHANGED errVars
       ELSE /\ Go(w, "verified", "exited") /\ fail("status")
            /\ UNCHANGED <<parent, unavailable>>

CompleteFirst(w) ==
  /\ phase = "pass1"
  /\ AcceptStatus(w)
  /\ routes' = [routes EXCEPT ![job[w]] = Route(w)]
  /\ IF Checkpoint THEN record(w) ELSE UNCHANGED diskVars
  /\ UNCHANGED <<runVars, feedVars, job, tries, status, pacer, cached,
                 histVars>>

\* saveLocked fails after the map was updated.
SaveFails(w) ==
  /\ Checkpoint
  /\ Go(w, "verified", "exited")
  /\ fail("save") /\ entries' = Recorded(w)
  /\ UNCHANGED <<runVars, feedVars, job, tries, status, pacer, parent,
                 unavailable, stats, routes, file, cached, histVars>>

\* Mutant of CompleteSecond: the second pass accepts what the first does.
CompleteSecondAny(w) ==
  /\ phase = "pass2"
  /\ AcceptStatus(w)
  /\ UNCHANGED <<runVars, feedVars, job, tries, status, pacer, routes,
                 diskVars, cached, histVars>>

\* requireHit.
CompleteSecond(w) ==
  /\ phase = "pass2" /\ status[w] = "HIT"
  /\ AcceptStatus(w)
  /\ hit2' = hit2 \cup {<<Route(w), Job(w).path>>}
  /\ UNCHANGED <<runVars, feedVars, job, tries, status, pacer, routes,
                 diskVars, cached, fetched, verified>>

ExpectedHit(w) ==
  /\ phase = "pass2" /\ status[w] # "HIT"
  /\ Go(w, "verified", "exited") /\ fail("expected_hit")
  /\ UNCHANGED <<runVars, feedVars, job, tries, status, pacer, parent,
                 unavailable, stats, routes, diskVars, cached, histVars>>

-----------------------------------------------------------------------------
(* The environment.                                                        *)

\* Lockfiles, metadata or flags change between two runs.
Edit ==
  /\ ~Running /\ runs \in 1 .. MaxRuns - 1 /\ project \in Runnable
  /\ project' \in Runnable \ {project} /\ phase' = "idle"
  /\ UNCHANGED <<manifest, pool, runs, passVars, diskVars, cached, histVars>>

\* The context Run was called with is cancelled.  The command passes one that
\* never is: for it a signal is a Crash.
Interrupt ==
  /\ Running /\ parent = "live"
  /\ parent' = "done" /\ ctx' = "done"
  /\ UNCHANGED <<runVars, poolVars, firstErr, unavailable, stats, routes,
                 diskVars, cached, histVars>>

\* The process dies; the file and the firewall's cache remain.
Crash ==
  /\ Running
  /\ phase' = "idle"
  /\ UNCHANGED pool /\ parent' = "live" /\ FreshPass
  /\ entries' = <<>>
  /\ UNCHANGED <<project, manifest, runs, routes, file, cached, histVars>>

\* The firewall's entry expires.
Expire ==
  /\ \E e \in cached : cached' = cached \ {e}
  /\ UNCHANGED <<runVars, passVars, diskVars, histVars>>

Step(w) ==
  \/ Dispatch(w) \/ WorkerExits(w) \/ SkipCompleted(w) \/ FetchArtifact(w)
  \/ SendRequest(w) \/ Answered(w) \/ NotFound(w) \/ RateLimited(w)
  \/ FetchFailed(w) \/ RetryAfterWait(w) \/ WaitCancelled(w)
  \/ CompleteFirst(w) \/ SaveFails(w) \/ CompleteSecond(w) \/ ExpectedHit(w)

Main ==
  \/ CloseJobs \/ EndPassFailed \/ OutputFails \/ EndFirstPass \/ EndSecondPass

Next ==
  \/ \E w \in Worker : Step(w)
  \/ Main \/ StartRun \/ CheckOnly \/ RejectProject \/ RefuseCheckpoint
  \/ Edit \/ Interrupt \/ Crash \/ Expire

Spec == Init /\ [][Next]_vars

(* Goroutines run, requests are answered or time out, waits end.           *)
FairSpec == Spec /\ WF_vars(Main) /\ \A w \in Worker : WF_vars(Step(w))

-----------------------------------------------------------------------------
(* Properties.                                                             *)

Phase == {"idle", "pass1", "pass2", "ok", "failed", "checked", "rejected",
          "refused"}
WorkerPhase == {"ready", "got", "pace", "sent", "wait", "verified", "exited"}
CacheStatus == {"HIT", "MISS", "BYPASS"}
RouteName == {"maven", "plugins"}

\* Type invariant of a prewarm run and its checkpoint.
TypeOK ==
  /\ runs \in 0 .. MaxRuns /\ phase \in Phase
  /\ Running => next \in 1 .. Len(manifest) + 1
  /\ sending \in {"open", "closed"}
  /\ pc \in [Worker -> WorkerPhase]
  /\ tries \in [Worker -> 0 .. RateLimitRetries]
  /\ status \in [Worker -> CacheStatus \cup {"none"}]
  /\ pacer \subseteq Worker
  /\ ctx \in {"live", "done"} /\ parent \in {"live", "done"}
  /\ firstErr \in {"none", "fetch", "status", "save", "expected_hit"}
  /\ stats \in [artifacts : Nat, hits : Nat, misses : Nat]
  /\ Range(routes) \subseteq RouteName \cup {"none"}
  /\ \A e \in Range(entries) \cup Range(file.completed) :
       e.route \in RouteName /\ e.status \in CacheStatus

\* A manifest lists every SHA-256-verified file of every locked component and
\* active marker exactly once, in the version directory it was published in,
\* with the checksums of all that name it and its own route, less what is
\* excluded, and nothing else: whatever order the metadata is in, whichever
\* component lists a sibling's file, and however versions extend each other.
\* There is none while something locked is not in the metadata.
ManifestExact ==
  phase = "checked" \/ (phase = "pass1" /\ next = 1) =>
    /\ project.locked \subseteq
         {Coordinate(c) : c \in Range(project.components)}
    /\ {[path |-> a.path, marker |-> a.marker] : a \in Range(manifest)}
         = {[path |-> a.path, marker |-> a.marker] : a \in Wanted(project)}
    /\ \A i \in DOMAIN manifest :
         /\ \A j \in DOMAIN manifest \ {i} :
              manifest[j].path # manifest[i].path
         /\ manifest[i].sums =
              UNION {a.sums : a \in {x \in Wanted(project) :
                                       x.path = manifest[i].path}}

\* "fails unless every included artifact is a cache HIT on the second pass":
\* however workers, retries, failures, the checkpoint, an edit of the project
\* and a cancellation interleave, the command succeeds only if each file the
\* project wants was a hit in this run, on its own route.  A pass that is going
\* to succeed dropped nothing between the dispatcher, the workers, a
\* checkpointed skip and the counters.
SuccessMeansAllHits ==
  /\ phase = "ok" =>
       /\ hit2 = {<<IF a.marker THEN "plugins" ELSE "maven", a.path>> :
                    a \in Wanted(project)}
       /\ stats.hits = Len(manifest)
  /\ PassOver /\ ~PassFails =>
       /\ stats.artifacts = Len(manifest)
       /\ stats.hits + stats.misses = Len(manifest)
       /\ "none" \notin Range(routes)

\* "A configured Gradle Plugin Portal route receives only those selected
\* markers, while every ordinary locked artifact uses the Maven route", in
\* both passes, resumed or not.
RoutesSeparated ==
  \A w \in Worker :
    pc[w] = "sent" =>
      (Route(w) = "plugins") =
        (\E m \in project.markers : m.module = Job(w).path.module)

\* What a run takes over from the checkpoint was verified against the very
\* checksums, and on the route, that the project has now.
SkipsOnlyVerified ==
  phase = "pass1" =>
    \A p \in DOMAIN entries :
      \E a \in Range(manifest) :
        a.path = p /\ <<entries[p].route, a>> \in verified

\* "an interrupted run can resume without repeating them": no first pass
\* starts requesting an artifact that the checkpoint file already holds.
NoRepeats ==
  [][ phase = "pass1" /\ phase' = "pass1" =>
        \A p \in DOMAIN file.completed : p \in fetched' => p \in fetched ]_vars

\* A run ends: the dispatcher never waits for workers that have all left, and
\* no worker waits for a dispatcher that has.
RunEnds == phase = "pass1" ~> ~Running

\* README "records completed first-pass artifacts so an interrupted run can
\* resume": a checkpoint one run leaves is accepted by the next run.
CheckpointResumable == phase # "refused"
=============================================================================
