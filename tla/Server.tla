------------------------------- MODULE Server -------------------------------
(***************************************************************************)
(* The server shell (server/server.go): routing, authorisation, what handle*)
(* does with the outcome of decide and of Proxy.Serve until the client has *)
(* its response, the audit log has its event and the metrics their count;  *)
(* the write timeout that config.Validate fits around all that; the rate   *)
(* limit of /explain; and Run with its shutdown.  Decide, ArtifactFill and *)
(* CachedEntry go into what is one step here.                              *)
(*                                                                         *)
(* handle and handleExplain share no variable: the bucket is only used by  *)
(* the one, everything of a response only by the other.  A behaviour is a  *)
(* scenario: one proxied request, with the server's end around it or not,  *)
(* or any number of explain requests.                                      *)
(***************************************************************************)
EXTENDS Rewrite

CONSTANTS
  Routes,          \* path prefix -> ecosystem and allow_anonymous
  Scenarios,       \* what is configured and what comes: see Scenario
  Bodies,          \* bodies of registry metadata
  File,            \* the body of any artifact
  RequestTimeout, OSVTimeout, ReadTimeout,  \* in ticks
  Burst, Unit,     \* explainBurst; ticks it takes to earn a token
  MaxTime          \* bound: the clock stops there

Ecosystem == {"npm", "pypi", "maven", "go", "static"}
Credential == {"none", "bearer", "basic", "wrong"}
Config == [write : Nat, osv : BOOLEAN, cache : BOOLEAN, cooldown : BOOLEAN,
           cluster : BOOLEAN]
Form == {"plain", "method", "query", "range", "conditional",
         "request_cache_control", "request_body", "representation"}

NoRoute == [ecosystem |-> "none", anonymous |-> FALSE]

\* config.Validate on the routes: a prefix has one route, and only mirrors of
\* static files may be open to everybody.
ValidRoutes ==
  /\ DOMAIN Routes # {} /\ DOMAIN Routes \subseteq Seq(STRING)
  /\ \A p \in DOMAIN Routes :
       /\ Routes[p].ecosystem \in Ecosystem /\ Routes[p].anonymous \in BOOLEAN
       /\ Routes[p].anonymous => Routes[p].ecosystem = "static"

ASSUME ServerAssumption ==
  /\ ValidRoutes
  /\ \A s \in Scenarios :
       /\ s.traffic \in {"proxy", "explain"} /\ s.signals \in BOOLEAN
       /\ s.auth \subseteq {"bearer", "basic"} /\ s.cfg \in Config
       /\ s.path \in Seq(STRING) \ {<<>>}
       /\ s.cred \in Credential /\ s.form \in Form
  /\ Bodies \cup {File} \subseteq Seq(STRING)
  /\ {RequestTimeout, OSVTimeout, ReadTimeout, Burst, Unit} \subseteq Nat \ {0}
  /\ MaxTime \in Nat

VARIABLES
  traffic,   \* "proxy" or "explain": which of the handlers is busy
  signals,   \* whether the server may come to its end
  auth,      \* the kinds of credentials that are configured
  cfg,       \* write timeout; whether OSV, cache, cooldown and coordination
             \* are enabled
  now,
  req, pc,   \* the request and where its handler is
  route,     \* the route it matched, or NoRoute
  until,     \* when the call the handler is in times out
  cutAt,     \* when net/http's write deadline passes
  waited,    \* history: the request waited for another one's fill
  over,      \* history: ticks it spent where the budget counts none
  resp,      \* content type and encoding of the response being relayed
  header,    \* whose headers are in w.Header()
  sent,      \* the status given to w.WriteHeader, 0 before
  conn,      \* the client's connection
  failure,   \* the error Serve returned
  audit,     \* the events logged
  counted,   \* the statuses given to metrics.Request
  tokens, last,  \* explainRate, in ticks' worth
  excess,    \* history: admissions beyond the rate, the worst window's
  stop, listener, errCh, main, result  \* Run and its goroutine

confVars == <<traffic, signals, auth, cfg>>
respVars == <<resp, header, sent, failure>>
logVars == <<audit, counted>>
bucketVars == <<tokens, last, excess>>
runVars == <<stop, listener, errCh, main, result>>
callVars == <<route, until, cutAt, waited, over>>
vars == <<streamVars, confVars, now, req, pc, callVars, respVars, conn,
          logVars, bucketVars, runVars>>

-----------------------------------------------------------------------------
(* Configuration.                                                          *)

\* The parts Validate adds up.
RequestBudget(c) ==
  RequestTimeout + (IF c.osv THEN OSVTimeout ELSE 0)
    + (IF c.cache THEN ReadTimeout ELSE 0)

\* Mutant of durationBudgetFits: a budget that uses up the total fits.
durationBudgetFitsExactly(total, budget) == budget <= total

\* Every part is positive and must leave something of the total.
durationBudgetFits(total, budget) == budget < total

Validate(c) == c.write > 0 /\ durationBudgetFits(c.write, RequestBudget(c))

Init ==
  /\ Idle
  /\ \E s \in Scenarios :
       /\ Validate(s.cfg) /\ cfg = s.cfg /\ auth = s.auth
       /\ traffic = s.traffic /\ signals = s.signals
       /\ req = [path |-> s.path, cred |-> s.cred, form |-> s.form]
  /\ now = 0 /\ pc = "idle" /\ route = NoRoute
  /\ until = 0 /\ cutAt = 0 /\ waited = FALSE /\ over = 0
  /\ resp = [type |-> "none", encoding |-> "identity"]
  /\ header = "own" /\ sent = 0 /\ conn = "open" /\ failure = "none"
  /\ audit = <<>> /\ counted = <<>>
  /\ tokens = Burst * Unit /\ last = 0 /\ excess = 0
  /\ stop = FALSE /\ listener = "up" /\ errCh = "empty"
  /\ main = "serving" /\ result = "none"

-----------------------------------------------------------------------------
(* Routing and authorisation.                                              *)

Matching(path) == {p \in DOMAIN Routes : IsPrefix(p, path)}

\* Mutant of matchRoute: the routes are not sorted by length.
matchRouteUnsorted(path) ==
  IF Matching(path) = {} THEN NoRoute
  ELSE Routes[CHOOSE p \in Matching(path) :
                \A o \in Matching(path) : Len(p) <= Len(o)]

\* The longest prefix comes first.
matchRoute(path) ==
  IF Matching(path) = {} THEN NoRoute
  ELSE Routes[CHOOSE p \in Matching(path) :
                \A o \in Matching(path) : Len(o) <= Len(p)]

\* An npm tarball outside every prefix belongs to an npm route.
matchNPMTarballFallback(path) ==
  IF Last(path) = "tgz" /\ \E p \in DOMAIN Routes : Routes[p].ecosystem = "npm"
    THEN [ecosystem |-> "npm", anonymous |-> FALSE]
    ELSE NoRoute

RouteOf(path) ==
  IF matchRoute(path) # NoRoute THEN matchRoute(path)
  ELSE matchNPMTarballFallback(path)

\* registry.Identify, as far as handle looks at it.
Kind(path) == IF Last(path) \in {"tgz", "zip"} THEN "artifact" ELSE "metadata"

\* authReady holds once config.Validate has seen the secrets.
authorized(cred) == auth = {} \/ cred \in auth

\* A route may be open; an unmatched path is not.
MayPass == (route # NoRoute /\ route.anonymous) \/ authorized(req.cred)

-----------------------------------------------------------------------------
(* handle, up to the call of Serve.                                        *)

Running == main # "returned"
Go(from, to) == Running /\ pc = from /\ pc' = to
Reply(status) == sent' = status
\* net/http ends the response, if its client is still there.
Close(how) == conn' = IF conn = "open" THEN how ELSE conn
Log(event) == audit' = Append(audit, event)
Request(status) == counted' = Append(counted, status)
Within(d) == until' = now + d
Onwards == UNCHANGED <<streamVars, confVars, now, req, route, cutAt, waited,
                       over, respVars, conn, logVars, bucketVars, runVars>>

Arrive ==
  /\ traffic = "proxy" /\ listener = "up" /\ main = "serving"
  /\ Go("idle", "routed")
  /\ route' = RouteOf(req.path) /\ cutAt' = now + cfg.write
  /\ UNCHANGED <<streamVars, confVars, now, req, until, waited, over, respVars,
                 conn, logVars, bucketVars, runVars>>

\* writeJSON and return, before anything was decided.
Refuse(status) ==
  /\ Go("routed", "done")
  /\ Reply(status) /\ Request(status) /\ Close("ended")
  /\ UNCHANGED <<streamVars, confVars, now, req, callVars, resp, header,
                 failure, audit, bucketVars, runVars>>

Unauthorized == ~MayPass /\ Refuse(401)

NotFound ==
  MayPass /\ route = NoRoute /\ Refuse(404)

\* decide begins; metadata is not judged, static files are only by policy.
\* A publish time that is cached needs no lookup.
Admit ==
  /\ MayPass /\ route # NoRoute
  /\ LET judged == /\ Kind(req.path) = "artifact"
                   /\ route.ecosystem # "static"
     IN \/ judged /\ cfg.cooldown /\ Go("routed", "release")
           /\ Within(RequestTimeout)
        \/ judged /\ Go("routed", "intel")
           /\ Within(IF cfg.osv THEN OSVTimeout ELSE 0)
        \/ ~judged /\ Go("routed", "decided") /\ Within(0)
  /\ Onwards

\* The publish time is found; or the lookup fails open, which is decided.
ReleaseKnown ==
  /\ \/ Go("release", "intel") /\ Within(IF cfg.osv THEN OSVTimeout ELSE 0)
     \/ Go("release", "decided") /\ Within(0)
  /\ Onwards

IntelKnown ==
  /\ Go("intel", "decided")
  /\ Within(0)
  /\ Onwards

\* The decision is to block; the event has no status of the upstream.
Blocked ==
  /\ Kind(req.path) = "artifact"
  /\ Running /\ pc \in {"release", "decided"} /\ pc' = "done"
  /\ Log([action |-> "block", status |-> 0])
  /\ Reply(403) /\ Request(403) /\ Close("ended")
  /\ UNCHANGED <<streamVars, confVars, now, req, callVars, resp, header,
                 failure, bucketVars, runVars>>

-----------------------------------------------------------------------------
(* Proxy.Serve.                                                            *)

\* The reason to bypass the cache, in cacheKey's order; "" if there is a key.
cacheKey ==
  IF ~cfg.cache THEN "cache_disabled"
  ELSE IF req.form = "method" THEN "method"
  ELSE IF Kind(req.path) # "artifact" THEN "not_exact_artifact"
  ELSE IF req.form # "plain" THEN req.form ELSE ""

Bypass ==
  /\ cacheKey # "" /\ Go("decided", "upstream")
  /\ Within(RequestTimeout)
  /\ Onwards

Lookup ==
  /\ cacheKey = "" /\ Go("decided", "lookup")
  /\ Within(ReadTimeout)
  /\ Onwards

\* serveCached: the entry was staged; its headers and bytes go out, with no
\* timeout.  200 is the status of any response that is relayed.
Hit ==
  /\ Go("lookup", "body")
  /\ body' = File /\ resp' = [type |-> "other", encoding |-> "identity"]
  /\ header' = "upstream" /\ Reply(200) /\ until' = 0
  /\ UNCHANGED <<at, pending, out, confVars, now, req, route, cutAt, waited,
                 over, failure, conn, logVars, bucketVars, runVars>>

\* Not there, or not readable: this request fills, or calls TryAcquire first,
\* without a timeout.
Lead ==
  /\ IF cfg.cluster
       THEN Go("lookup", "acquire") /\ until' = 0
       ELSE Go("lookup", "upstream") /\ Within(RequestTimeout)
  /\ Onwards

Acquired ==
  /\ Go("acquire", "upstream") /\ Within(RequestTimeout)
  /\ Onwards

\* Somebody else fills, here or in another replica; there is no timeout but
\* the client's patience.
Wait ==
  /\ Go("lookup", "wait") \/ Go("acquire", "wait")
  /\ until' = 0 /\ waited' = TRUE
  /\ UNCHANGED <<streamVars, confVars, now, req, route, cutAt, over, respVars,
                 conn, logVars, bucketVars, runVars>>

\* The other fill is over, or a poll interval: look again.
WaitOver ==
  /\ Go("wait", "lookup") /\ Within(ReadTimeout)
  /\ Onwards

Fails(from, why) ==
  /\ Go(from, "failed") /\ failure' = why
  /\ UNCHANGED <<streamVars, confVars, now, req, callVars, resp, header, sent,
                 conn, logVars, bucketVars, runVars>>

\* TryAcquire returns an error, and Serve Result{}.
AcquireFails == Fails("acquire", "error")

\* Proxy.do returns an error, and Serve Result{}.
UpstreamFails ==
  \E why \in {"queue", "timeout", "error"} : Fails("upstream", why)

\* The client's context ends whatever Serve waits for.
Cancelled ==
  /\ conn = "gone"
  /\ \E from \in {"acquire", "upstream", "wait"} : Fails(from, "canceled")

\* Once upstream, the request holds the lease if its call has a timeout: a
\* hit, a wait and a TryAcquire have none.
Leased == cacheKey = "" /\ cfg.cluster /\ until > 0

\* keepLease could not renew and cancels the fill; the client is still there.
LeaseLost ==
  Leased /\ \E from \in {"upstream", "body"} : Fails(from, "canceled")

rewritableRoute == route.ecosystem \in {"npm", "pypi"}
\* By the content type: JSON and HTML are registry metadata.
shouldRewrite(type) == rewritableRoute /\ type = "json"
rules == IF shouldRewrite(resp.type)
           THEN rewriteRules(route.ecosystem) ELSE <<>>

\* A body that was to be rewritten but is compressed all the same.
Unreadable(r) == shouldRewrite(r.type) /\ r.encoding # "identity"

\* The response's headers are copied before its encoding is looked at.
Responds(r, b) ==
  /\ header' = "upstream" /\ resp' = r /\ body' = b
  /\ \/ ~Unreadable(r) /\ Go("upstream", "body") /\ Reply(200)
        /\ UNCHANGED failure
     \/ Unreadable(r) /\ Go("upstream", "failed") /\ failure' = "error"
        /\ UNCHANGED sent
  /\ UNCHANGED <<at, pending, out, confVars, now, req, callVars, conn, logVars,
                 bucketVars, runVars>>

\* Bytes arrive and are written, which takes as long as the client takes.
Stream ==
  /\ Running /\ pc = "body" /\ conn = "open" /\ ReadChunk(rules)
  /\ UNCHANGED <<confVars, now, req, pc, callVars, respVars, conn, logVars,
                 bucketVars, runVars>>

\* Mutant of BodyFails: a read error ends the copy like the end of the body.
BodyFailsQuietly ==
  /\ Go("body", "done")
  /\ Log([action |-> "allow", status |-> sent]) /\ Request(sent)
  /\ Close("ended")
  /\ UNCHANGED <<streamVars, confVars, now, req, callVars, respVars,
                 bucketVars, runVars>>

\* Reading the body or writing it fails; what was held back is dropped.
BodyFails ==
  \/ \E why \in {"timeout", "error"} : Fails("body", why)
  \/ conn = "gone" /\ Fails("body", "canceled")

\* The end of the body: handle logs and counts the upstream's status.
Complete ==
  /\ conn = "open" /\ ReadEOF(rules)
  /\ Go("body", "done")
  /\ Log([action |-> "allow", status |-> sent]) /\ Request(sent)
  /\ Close("ended")
  /\ UNCHANGED <<confVars, now, req, callVars, respVars, bucketVars, runVars>>

-----------------------------------------------------------------------------
(* handle, when Serve failed.                                              *)

upstreamErrorResponse ==
  CASE failure = "queue" -> 503 [] failure = "timeout" -> 504 [] OTHER -> 502

proxyErrorStatus ==
  IF failure = "canceled" THEN 499 ELSE upstreamErrorResponse

\* Mutant of FailedBefore: the headers copied so far stay.
FailedBeforeUncleared ==
  /\ sent = 0 /\ failure # "canceled" /\ Go("failed", "done")
  /\ Reply(upstreamErrorResponse) /\ UNCHANGED header
  /\ Log([action |-> "allow", status |-> upstreamErrorResponse])
  /\ Request(proxyErrorStatus) /\ Close("ended")
  /\ UNCHANGED <<streamVars, confVars, now, req, callVars, resp, failure,
                 bucketVars, runVars>>

\* Nothing has gone out: the headers are cleared and the error is told.
FailedBefore ==
  /\ sent = 0 /\ failure # "canceled" /\ Go("failed", "done")
  /\ Reply(upstreamErrorResponse) /\ header' = "own"
  /\ Log([action |-> "allow", status |-> upstreamErrorResponse])
  /\ Request(proxyErrorStatus) /\ Close("ended")
  /\ UNCHANGED <<streamVars, confVars, now, req, callVars, resp, failure,
                 bucketVars, runVars>>

\* A cancellation before the status line: handle returns without a word.
FailedCancelled ==
  /\ sent = 0 /\ failure = "canceled" /\ Go("failed", "done")
  /\ Log([action |-> "allow", status |-> 499])
  /\ Request(proxyErrorStatus) /\ Close("ended")
  /\ UNCHANGED <<streamVars, confVars, now, req, callVars, respVars,
                 bucketVars, runVars>>

\* Mutant of FailedAfter: the panic comes before the log.
FailedAfterPanicsFirst ==
  /\ sent # 0 /\ Go("failed", "done")
  /\ Request(proxyErrorStatus) /\ Close("aborted")
  /\ UNCHANGED <<streamVars, confVars, now, req, callVars, respVars, audit,
                 bucketVars, runVars>>

\* The client has a part of the body: panic(http.ErrAbortHandler).
FailedAfter ==
  /\ sent # 0 /\ Go("failed", "done")
  /\ Log([action |-> "allow", status |-> sent])
  /\ Request(proxyErrorStatus) /\ Close("aborted")
  /\ UNCHANGED <<streamVars, confVars, now, req, callVars, respVars,
                 bucketVars, runVars>>

-----------------------------------------------------------------------------
(* handleExplain.                                                          *)

Target ==
  {s.path : s \in {x \in Scenarios : x.traffic = "explain"}}
    \cup {<<"purl">>, <<"invalid">>}

\* explainTarget: a purl, or a URL that is routed as handle routes it.
explainTarget(t) ==
  IF t = <<"purl">> THEN [ok |-> TRUE, anonymous |-> FALSE, artifact |-> TRUE]
  ELSE [ok |-> t # <<"invalid">> /\ RouteOf(t) # NoRoute,
        anonymous |-> RouteOf(t).anonymous, artifact |-> Kind(t) = "artifact"]

\* Mutant of allow: the time is noted only when a token is spent.
allowForgetful ==
  LET refilled == Min({Burst * Unit, tokens + (now - last)})
  IN /\ last' = IF refilled < Unit THEN last ELSE now
     /\ tokens' = IF refilled < Unit THEN refilled ELSE refilled - Unit

\* Mutant of allow: time goes on earning tokens when the bucket is full.
allowUncapped ==
  LET refilled == tokens + (now - last)
  IN /\ last' = now
     /\ tokens' = IF refilled < Unit THEN refilled ELSE refilled - Unit

\* tokenBucket.allow, under its mutex.
allow ==
  LET refilled == Min({Burst * Unit, tokens + (now - last)})
  IN /\ last' = now
     /\ tokens' = IF refilled < Unit THEN refilled ELSE refilled - Unit

Explain(t, cred, method) ==
  LET target == explainTarget(t)
      may == (target.ok /\ target.anonymous) \/ authorized(cred)
      admitted == tokens + (now - last) >= Unit
  IN /\ Running /\ traffic = "explain"
     /\ req' = [path |-> t, cred |-> cred, form |-> "plain"]
     /\ IF ~may THEN Reply(401) /\ UNCHANGED bucketVars
        ELSE IF method # "GET"
          THEN Reply(405) /\ UNCHANGED bucketVars
        ELSE /\ allow
             /\ excess' = IF admitted THEN excess + Unit ELSE excess
             /\ Reply(IF ~admitted THEN 429
                      ELSE IF target.ok /\ target.artifact THEN 200 ELSE 400)
     /\ UNCHANGED <<streamVars, confVars, now, pc, callVars, resp, header,
                    failure, conn, logVars, runVars>>

-----------------------------------------------------------------------------
(* Run.                                                                    *)

Busy == pc \notin {"idle", "done"}

\* SIGTERM or SIGINT.
Signal ==
  /\ signals /\ Running /\ ~stop /\ stop' = TRUE
  /\ UNCHANGED <<streamVars, confVars, now, req, pc, callVars, respVars, conn,
                 logVars, bucketVars, listener, errCh, main, result>>

\* ListenAndServe fails by itself and the error is put into the channel.
ListenFails ==
  /\ signals /\ Running
  /\ listener = "up" /\ listener' = "failed" /\ errCh' = "err"
  /\ UNCHANGED <<streamVars, confVars, now, req, pc, callVars, respVars, conn,
                 logVars, bucketVars, stop, main, result>>

\* case <-ctx.Done(): Shutdown closes the listener.
Shutdown ==
  /\ stop /\ main = "serving" /\ main' = "stopping"
  /\ listener' = IF listener = "up" THEN "closed" ELSE listener
  /\ UNCHANGED <<streamVars, confVars, now, req, pc, callVars, respVars, conn,
                 logVars, bucketVars, stop, errCh, result>>

\* ListenAndServe returns ErrServerClosed.
ListenEnds ==
  /\ listener = "closed" /\ errCh = "empty" /\ errCh' = "nil"
  /\ UNCHANGED <<streamVars, confVars, now, req, pc, callVars, respVars, conn,
                 logVars, bucketVars, stop, listener, main, result>>

\* Mutant of ShutdownEnds: the deadline passes for success.
ShutdownEndsQuietly ==
  /\ main = "stopping" /\ main' = "stopped" /\ result' = "ok"
  /\ UNCHANGED <<streamVars, confVars, now, req, pc, callVars, respVars, conn,
                 logVars, bucketVars, stop, listener, errCh>>

\* Mutant of ShutdownEnds: it waits for the handlers without a deadline.
ShutdownEndsPatient ==
  /\ main = "stopping" /\ ~Busy /\ main' = "stopped" /\ result' = "ok"
  /\ UNCHANGED <<streamVars, confVars, now, req, pc, callVars, respVars, conn,
                 logVars, bucketVars, stop, listener, errCh>>

\* Shutdown returns: no handler is left, or shutdown_timeout has passed.
ShutdownEnds ==
  /\ main = "stopping" /\ main' = "stopped"
  /\ result' \in {"deadline"} \cup (IF Busy THEN {} ELSE {"ok"})
  /\ UNCHANGED <<streamVars, confVars, now, req, pc, callVars, respVars, conn,
                 logVars, bucketVars, stop, listener, errCh>>

\* Run returns what it has from Shutdown and from the channel, and the
\* process ends with whatever was still under way.
Return ==
  /\ main = "stopped" \/ main = "serving"
  /\ errCh # "empty"
  /\ main' = "returned"
  /\ result' = IF errCh = "err" \/ result = "deadline" THEN "error" ELSE "ok"
  /\ conn' = IF Busy /\ conn = "open" THEN "killed" ELSE conn
  /\ UNCHANGED <<streamVars, confVars, now, req, pc, callVars, respVars,
                 logVars, bucketVars, stop, listener, errCh>>

-----------------------------------------------------------------------------
(* Clients and the clock.                                                  *)

ClientLeaves ==
  /\ Running /\ Busy /\ conn = "open" /\ conn' = "gone"
  /\ UNCHANGED <<streamVars, confVars, now, req, pc, callVars, respVars,
                 logVars, bucketVars, runVars>>

\* The write deadline passes: nothing that is written arrives any more.
CutOff ==
  /\ Running /\ Busy /\ conn = "open" /\ now >= cutAt /\ conn' = "cut"
  /\ UNCHANGED <<streamVars, confVars, now, req, pc, callVars, respVars,
                 logVars, bucketVars, runVars>>

\* A fill that failed gives its lease back before handle learns of it.
Releasing == pc = "failed" /\ Leased

\* The time RequestBudget leaves out: the publish-time lookup; TryAcquire and
\* Release; waiting for another's fill, and looking into the cache again; and
\* a body whose client is slow to take it, or whose lease is released when it
\* has been copied and is not to be stored.
Uncounted ==
  \/ pc \in {"release", "acquire", "wait"} \/ Releasing
  \/ pc = "lookup" /\ waited
  \/ pc = "body" /\ now >= until

\* Time passes in calls that have a timeout, never beyond it, and in the
\* others.
Tick ==
  /\ now < MaxTime /\ now' = now + 1
  /\ \/ traffic = "explain"
     \/ pc \in {"acquire", "wait", "body"} \/ Releasing
     \/ pc \in {"release", "intel", "lookup", "upstream"} /\ now < until
  /\ over' = IF Uncounted THEN over + 1 ELSE over
  /\ excess' = Max({0, excess - 1})
  /\ UNCHANGED <<streamVars, confVars, req, pc, route, until, cutAt, waited,
                 respVars, conn, logVars, tokens, last, runVars>>

Respond ==
  \E encoding \in {"identity", "gzip"} :
    \/ Kind(req.path) = "artifact"
       /\ Responds([type |-> "other", encoding |-> encoding], File)
    \/ Kind(req.path) = "metadata"
       /\ \E b \in Bodies :
            Responds([type |-> "json", encoding |-> encoding], b)

Work ==
  \/ Unauthorized \/ NotFound \/ Admit \/ ReleaseKnown \/ IntelKnown \/ Blocked
  \/ Bypass \/ Lookup \/ Hit \/ Lead \/ Acquired \/ WaitOver
  \/ AcquireFails \/ UpstreamFails \/ Cancelled \/ Respond \/ Stream
  \/ BodyFails \/ Complete
  \/ FailedBefore \/ FailedCancelled \/ FailedAfter

Stopping == Shutdown \/ ListenEnds \/ ShutdownEnds \/ Return

Next ==
  \/ Arrive \/ Work \/ Wait \/ LeaseLost \/ ClientLeaves \/ CutOff \/ Tick
  \/ \E t \in Target, cred \in Credential, method \in {"GET", "POST"} :
       Explain(t, cred, method)
  \/ Stopping \/ Signal \/ ListenFails

Spec == Init /\ [][Next]_vars

(* Run's goroutines run and the shutdown timer fires.                      *)
FairSpec == Spec /\ WF_vars(Stopping)

-----------------------------------------------------------------------------
(* Properties.                                                             *)

\* Type invariant of a request, its response and the server around it.
TypeOK ==
  /\ traffic \in {"proxy", "explain"} /\ signals \in BOOLEAN
  /\ auth \subseteq {"bearer", "basic"} /\ cfg \in Config
  /\ now \in 0 .. MaxTime
  /\ pc \in {"idle", "routed", "release", "intel", "decided", "lookup", "wait",
             "acquire", "upstream", "body", "failed", "done"}
  /\ until \in Nat /\ cutAt \in Nat /\ waited \in BOOLEAN /\ over \in Nat
  /\ at \in 0 .. Len(body) /\ Len(pending) <= Keep(rules)
  /\ header \in {"own", "upstream"}
  /\ conn \in {"open", "ended", "aborted", "gone", "cut", "killed"}
  /\ failure \in {"none", "queue", "timeout", "error", "canceled"}
  /\ tokens \in 0 .. Burst * Unit /\ last \in 0 .. now
  /\ listener \in {"up", "closed", "failed"}
  /\ errCh \in {"empty", "nil", "err"}
  /\ main \in {"serving", "stopping", "stopped", "returned"}
  /\ result \in {"none", "ok", "deadline", "error"}

\* However the upstream's body is cut into reads, and wherever it breaks off,
\* what has reached the client is the beginning of the text with all its
\* download origins replaced, rule by rule; of a body that cannot be
\* rewritten it gets nothing.
NothingEscapes ==
  resp.type = "json" /\ rewritableRoute =>
    IF resp.encoding = "identity"
      THEN IsPrefix(out, Rewritten(body, rewriteRules(route.ecosystem)))
      ELSE out = <<>>

\* A response whose status the handler has written, and that ends as if it
\* were complete, is complete: no held-back byte, failed read, timeout, or
\* lease lost while the body is relayed shortens it unnoticed.  (A lease lost
\* before that is FailureShows' business.)  And an answer of the firewall's
\* own carries no header (a Content-Encoding, a Content-Length) of the response
\* it replaces, which would misdescribe it.
CompleteMeansWhole ==
  /\ conn = "ended" /\ sent = 200 /\ traffic = "proxy" =>
       out = Rewritten(body, rules)
  /\ sent >= 400 => header = "own"

\* On every path through handle, the aborted one included, a request is
\* counted once, and once it was decided on it is in the audit log once, with
\* the status the client was sent or 499.
AccountedOnce ==
  pc = "done" =>
    /\ Len(counted) = 1
    /\ Len(audit) = IF sent \in {401, 404} THEN 0 ELSE 1
    /\ \A i \in DOMAIN audit :
         audit[i].status = IF audit[i].action = "block" THEN 0
                           ELSE IF sent = 0 THEN 499 ELSE sent

\* Whoever has no valid credentials sees 401 from every path that is not on a
\* route open to everybody, served or not, proxied or explained, and costs no
\* decision, no token and no upstream request: nothing tells a route from no
\* route.  Of two nested routes the closer one counts.
NothingDisclosed ==
  LET open == \E p \in Matching(req.path) :
                /\ Routes[p].anonymous
                /\ \A o \in Matching(req.path) : IsPrefix(o, p)
  IN ~open /\ auth # {} /\ req.cred \notin auth =>
       /\ sent \in {0, 401} /\ audit = <<>> /\ body = <<>>
       /\ pc \in {"idle", "routed", "done"}

\* What config.Validate accepts is enough for what it counts: as long as every
\* call that has a timeout keeps it, the write deadline cuts a response off
\* only after the waits that the budget leaves out (Uncounted) have used up
\* the whole margin between the two, which is never nothing.
WriteTimeoutSuffices ==
  conn = "cut" => over >= Max({1, cfg.write - RequestBudget(cfg)})

\* In no window of time does /explain admit more than the burst and the rate
\* times the window: it is not a query pump, however callers time themselves.
ExplainBounded == excess <= Burst * Unit

\* Run reports success only when the listener was shut down and no client
\* lost its connection to the exit.
CleanExit ==
  main = "returned" /\ result = "ok" => listener = "closed" /\ conn # "killed"

\* After a signal Run returns, whatever the handlers do and whichever of the
\* signal and a failing listener comes first.
RunReturns == stop \/ errCh = "err" ~> main = "returned"

\* "a cut-off packument then reads as a whole one; aborting resets the
\* connection instead" (server.go): to a client that is still connected a
\* failed request never looks like a complete success.
FailureShows ==
  pc = "done" /\ conn = "ended" /\ failure # "none" => sent >= 500
=============================================================================
