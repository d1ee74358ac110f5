--------------------------- MODULE Server_proofs ---------------------------
(***************************************************************************)
(* What the server shell promises for any routes, scenarios, timeouts and  *)
(* rates: the accounting, the write timeout, the rate limit of /explain,   *)
(* what strangers see, the exit, and the text that rewriteStream lets out, *)
(* for any body and any cutting of it into reads.                          *)
(***************************************************************************)
EXTENDS Server, Arithmetic_proofs, SequenceTheorems

-----------------------------------------------------------------------------
(* The rate limit: what was admitted beyond the rate and what the bucket   *)
(* could admit now make up no more than a full bucket.                     *)

Full == Burst * Unit

BucketInv ==
  /\ now \in Nat /\ last \in Nat /\ tokens \in Nat /\ excess \in Nat
  /\ last <= now /\ tokens <= Full
  /\ excess = 0 \/ excess + tokens + (now - last) <= Full

-----------------------------------------------------------------------------
(* The exit.                                                               *)

ExitInv ==
  /\ listener = "closed" => main # "serving"
  /\ errCh = "nil" => listener = "closed"
  /\ errCh \in {"empty", "nil", "err"}
  /\ main = "stopped" => result \in {"ok", "deadline"}
  /\ main = "stopped" /\ result = "ok" => ~Busy
  /\ conn = "killed" => main = "returned"
  /\ CleanExit

-----------------------------------------------------------------------------
(* The accounting: nothing is logged or counted before handle is done.     *)

HandleInv ==
  /\ traffic \in {"proxy", "explain"}
  /\ traffic = "explain" =>
       pc = "idle" /\ header = "own" /\ body = <<>>
  /\ pc # "done" => audit = <<>> /\ counted = <<>>
  /\ pc \in {"idle", "routed"} => body = <<>>
  /\ pc \notin {"body", "failed", "done"} =>
       header = "own" /\ (traffic = "proxy" => sent = 0)
  /\ pc = "body" => sent = 200
  /\ pc = "failed" => sent \in {0, 200}
  /\ sent >= 400 => header = "own"
  /\ sent \in Nat
  /\ AccountedOnce

-----------------------------------------------------------------------------
(* The write timeout: how late it may be in each phase of a request.  What *)
(* it spends where the budget counts nothing is in over.                   *)

OSV == IF cfg.osv THEN OSVTimeout ELSE 0
Read == IF cfg.cache THEN ReadTimeout ELSE 0

\* By the time t the request has used up no more than d ticks, the o ticks
\* aside that nobody counts.
Spent(t, o, d) == t + cfg.write <= cutAt + o + d

\* Where a request may be, at time n with a timeout at u, after o such ticks;
\* w says whether it has waited.
Phase(p, n, u, w, o) ==
  /\ p \in {"routed", "release"} => Spent(n, o, 0)
  /\ p = "intel" => Spent(n, o, OSV) /\ Spent(u, o, OSV)
  /\ p = "decided" => Spent(n, o, OSV)
  /\ p = "lookup" => /\ Spent(n, o, OSV + Read)
                     /\ ~w => Spent(u, o, OSV + Read)
  /\ p \in {"acquire", "wait"} => Spent(n, o, OSV + Read)
  /\ p = "wait" => w
  /\ p \in {"upstream", "body"} => /\ Spent(n, o, RequestBudget(cfg))
                                  /\ Spent(u, o, RequestBudget(cfg))
  /\ p = "failed" => Spent(n, o, RequestBudget(cfg))

Phases == {"idle", "routed", "release", "intel", "decided", "lookup", "wait",
           "acquire", "upstream", "body", "failed", "done"}

TimeInv ==
  /\ now \in Nat /\ until \in Nat /\ cutAt \in Nat /\ pc \in Phases
  /\ cfg \in Config /\ Validate(cfg) /\ waited \in BOOLEAN /\ over \in Nat
  /\ traffic = "explain" => pc = "idle"
  /\ Phase(pc, now, until, waited, over)
  /\ conn = "cut" => cfg.write <= over + RequestBudget(cfg)

-----------------------------------------------------------------------------
(* What strangers see.                                                     *)

Open(path) ==
  \E p \in Matching(path) :
    Routes[p].anonymous /\ \A o \in Matching(path) : IsPrefix(o, p)

\* What paths are made of.  The provers do not find that the two words that
\* are no path are strings.
Word == STRING \cup {"purl", "invalid"}

\* Somebody without valid credentials asks for what is not open.
Stranger == ~Open(req.path) /\ auth # {} /\ req.cred \notin auth

DiscloseInv ==
  /\ req.path \in Seq(Word)
  /\ pc # "idle" => route = RouteOf(req.path)
  /\ Stranger => /\ sent \in {0, 401} /\ audit = <<>> /\ body = <<>>
                 /\ pc \in {"idle", "routed", "done"}

-----------------------------------------------------------------------------
(* Steps by what they leave alone.                                         *)

\* The steps of handle.
Handling == Arrive \/ Work \/ Wait \/ LeaseLost

\* The steps of Run, of the client and of net/http.
Around == ClientLeaves \/ CutOff \/ Stopping \/ Signal \/ ListenFails

Explaining ==
  \E t \in Target, cred \in Credential, method \in {"GET", "POST"} :
    Explain(t, cred, method)

\* handle runs while Run has not returned, ends connections only in its own
\* ways, and begins only while the server accepts requests.
LEMMA HandlingShape ==
  ASSUME Handling
  PROVE  /\ Running /\ UNCHANGED <<confVars, now, req, bucketVars, runVars>>
         /\ conn' \in {conn, "ended", "aborted"}
         /\ Busy' => Busy \/ main = "serving"
<1> USE DEF Go, Running, Onwards, Fails, Close, Busy, callVars, respVars,
            logVars, streamVars
<1>1. CASE Arrive \/ Wait \/ LeaseLost
  BY <1>1 DEF Arrive, Wait, LeaseLost
<1>2. CASE Unauthorized \/ NotFound \/ Admit \/ ReleaseKnown \/ IntelKnown
           \/ Blocked
  BY <1>2 DEF Unauthorized, NotFound, Refuse, Admit, ReleaseKnown, IntelKnown,
              Blocked
<1>3. CASE Bypass \/ Lookup \/ Hit \/ Lead \/ Acquired \/ WaitOver
           \/ AcquireFails \/ UpstreamFails \/ Cancelled
  BY <1>3 DEF Bypass, Lookup, Hit, Lead, Acquired, WaitOver, AcquireFails,
              UpstreamFails, Cancelled
<1>4. CASE Respond \/ Stream \/ BodyFails \/ Complete
  BY <1>4 DEF Respond, Responds, Stream, BodyFails, Complete
<1>5. CASE FailedBefore \/ FailedCancelled \/ FailedAfter
  BY <1>5 DEF FailedBefore, FailedCancelled, FailedAfter
<1> QED
  BY <1>1, <1>2, <1>3, <1>4, <1>5 DEF Handling, Work

\* What goes on around the handler leaves it alone.
LEMMA AroundShape ==
  ASSUME Around
  PROVE  UNCHANGED <<streamVars, confVars, now, req, pc, callVars, respVars,
                     logVars, bucketVars>>
  BY DEF Around, ClientLeaves, CutOff, Stopping, Shutdown, ListenEnds,
         ShutdownEnds, Return, Signal, ListenFails

\* The steps of the server.
LEMMA Steps == Next => Handling \/ Around \/ Explaining \/ Tick
  BY DEF Next, Handling, Around, Explaining

-----------------------------------------------------------------------------
(* ExplainBounded.                                                         *)

\* A full bucket is a number and has a token.
LEMMA FullBucket == Full \in Nat /\ Unit \in Nat \ {0} /\ Unit <= Full
<1>1. Burst \in Nat \ {0} /\ Unit \in Nat \ {0}
  BY ServerAssumption
<1>2. Unit * 1 <= Unit * Burst
  BY <1>1, TimesMono
<1>3. Unit * Burst = Full /\ Full \in Nat /\ Unit * 1 = Unit
  BY <1>1, TimesComm DEF Full
<1> QED
  BY <1>1, <1>2, <1>3

\* Neither time nor a request earns more than the bucket holds.
LEMMA BucketStep == BucketInv /\ [Next]_vars => BucketInv'
<1> SUFFICES ASSUME BucketInv, [Next]_vars PROVE BucketInv'
  OBVIOUS
<1>1. CASE UNCHANGED <<now, bucketVars>>
  BY <1>1 DEF BucketInv, bucketVars
<1>2. CASE Tick
  <2>1. /\ now' = now + 1 /\ UNCHANGED <<last, tokens>>
        /\ excess' = Max({0, excess - 1})
    BY <1>2 DEF Tick
  <2> DEFINE x == excess - 1
  <2>2. x \in Int
    BY DEF BucketInv
  <2>3. Max({0, x}) \in {0, x} /\ Max({0, x}) >= 0 /\ Max({0, x}) >= x
    BY <2>2, MaxPair
  <2>4. excess' \in Nat /\ (excess' = 0 \/ excess' = excess - 1)
    BY <2>1, <2>2, <2>3 DEF BucketInv
  <2> QED
    BY <2>1, <2>4, FullBucket DEF BucketInv
<1>3. ASSUME NEW t, NEW cred, NEW method, Explain(t, cred, method)
      PROVE  BucketInv'
  <2> DEFINE have == tokens + (now - last)
             refilled == Min({Full, have})
  <2>1. have \in Nat /\ now' = now
    BY <1>3 DEF Explain, BucketInv
  <2>2. CASE UNCHANGED bucketVars
    BY <2>1, <2>2 DEF BucketInv, bucketVars
  <2>3. CASE ~UNCHANGED bucketVars
    <3>1. allow /\ excess' = IF have >= Unit THEN excess + Unit ELSE excess
      BY <1>3, <2>3 DEF Explain
    <3>2. /\ last' = now
          /\ tokens' = IF refilled < Unit THEN refilled ELSE refilled - Unit
      BY <3>1 DEF allow, Full
    <3> HIDE DEF have
    <3>3. refilled \in {Full, have} /\ refilled <= Full /\ refilled <= have
      BY <2>1, FullBucket, MinPair
    <3> HIDE DEF refilled
    <3>4. /\ refilled \in Nat /\ tokens' \in Nat /\ excess' \in Nat
          /\ excess' + tokens' <= excess + refilled
      BY <2>1, <3>1, <3>2, <3>3, FullBucket DEF BucketInv
    <3>5. excess + refilled <= Full
      BY <2>1, <3>3, FullBucket DEF BucketInv, have
    <3>6. excess \in Nat /\ now \in Nat
      BY DEF BucketInv
    <3>7. excess' + tokens' <= Full /\ tokens' <= Full
      <4> DEFINE e == excess'
                 k == tokens'
      <4>1. e \in Nat /\ k \in Nat /\ e + k <= excess + refilled
        BY <3>4
      <4> HIDE DEF e, k
      <4>2. e + k <= Full /\ k <= Full
        BY <3>4, <3>5, <3>6, <4>1, FullBucket
      <4> QED
        BY <4>2 DEF e, k
    <3>8. excess' + tokens' + (now' - last') <= Full
      BY <2>1, <3>2, <3>4, <3>6, <3>7
    <3> QED
      BY <2>1, <3>2, <3>4, <3>6, <3>7, <3>8 DEF BucketInv
  <2> QED
    BY <2>2, <2>3
<1> QED
  BY <1>1, <1>2, <1>3, Steps, HandlingShape, AroundShape DEF Explaining, vars

\* The bucket is full at the start.
LEMMA BucketInit == Init => BucketInv
  BY FullBucket DEF Init, BucketInv, Full

\* ExplainBounded: in no window of time does /explain admit more than the
\* burst and what the rate allows, whenever its callers call.
THEOREM ExplainLimited == Spec => []ExplainBounded
<1>1. BucketInv => ExplainBounded
  BY FullBucket DEF BucketInv, ExplainBounded, Full
<1> QED
  BY <1>1, BucketInit, BucketStep, PTL DEF Spec

-----------------------------------------------------------------------------
(* CleanExit.                                                              *)

\* Run returns success only after a shutdown that waited for its handlers.
LEMMA ExitStep == ExitInv /\ [Next]_vars => ExitInv'
<1> SUFFICES ASSUME ExitInv, [Next]_vars PROVE ExitInv'
  OBVIOUS
<1> USE DEF ExitInv, CleanExit
<1>1. CASE UNCHANGED <<pc, conn, runVars>>
  BY <1>1 DEF runVars, Busy
<1>2. CASE Handling
  BY <1>2, HandlingShape DEF runVars, Running
<1>3. CASE ClientLeaves \/ CutOff
  BY <1>3 DEF ClientLeaves, CutOff, Running, runVars, Busy
<1>4. CASE Stopping \/ Signal \/ ListenFails
  BY <1>4 DEF Stopping, Shutdown, ListenEnds, ShutdownEnds, Return, Signal,
              ListenFails, Running, Busy
<1>5. CASE Explaining \/ Tick
  BY <1>1, <1>5 DEF Explaining, Explain, Tick
<1> QED
  BY <1>1, <1>2, <1>3, <1>4, <1>5, Steps DEF Around, vars

\* ExitInv holds from the start.
LEMMA ExitInit == Init => ExitInv
  BY DEF Init, ExitInv, CleanExit

\* CleanExit: when Run reports success the listener was shut down and the exit
\* broke no client's connection.
THEOREM ExitsCleanly == Spec => []CleanExit
<1>1. ExitInv => CleanExit
  BY DEF ExitInv
<1> QED
  BY <1>1, ExitInit, ExitStep, PTL DEF Spec

-----------------------------------------------------------------------------
(* AccountedOnce.                                                          *)

\* One entry is appended to an empty log.
LEMMA OneEntry ==
  ASSUME NEW e
  PROVE  /\ Len(Append(<<>>, e)) = 1 /\ DOMAIN Append(<<>>, e) = {1}
         /\ Append(<<>>, e)[1] = e
  OBVIOUS

\* handle goes on, with nothing logged or counted yet.
LEMMA GoesOn ==
  ASSUME HandleInv, UNCHANGED <<traffic, logVars>>, pc' # "done", pc # "done",
         traffic = "proxy", pc' \notin {"idle", "routed"},
         pc' \notin {"body", "failed"} => header' = "own" /\ sent' = 0,
         pc' = "body" => sent' = 200,
         pc' = "failed" => sent' \in {0, 200}
  PROVE  HandleInv'
  BY DEF HandleInv, AccountedOnce, logVars

\* handle is done: one count, and one event unless it refused.
LEMMA IsDone ==
  ASSUME HandleInv, UNCHANGED traffic, pc # "done", pc' = "done",
         traffic = "proxy", NEW status, Request(status),
         sent' \in Nat, sent' >= 400 => header' = "own",
         \/ audit' = audit /\ sent' \in {401, 404}
         \/ \E e : /\ Log(e) /\ sent' \notin {401, 404}
                   /\ e.status = IF e.action = "block" THEN 0
                                 ELSE IF sent' = 0 THEN 499 ELSE sent'
  PROVE  HandleInv'
<1>1. audit = <<>> /\ counted = <<>>
  BY DEF HandleInv
<1>2. Len(counted') = 1
  BY <1>1, OneEntry DEF Request
<1>3. CASE audit' = audit /\ sent' \in {401, 404}
  BY <1>1, <1>2, <1>3 DEF HandleInv, AccountedOnce
<1>4. CASE \E e : /\ Log(e) /\ sent' \notin {401, 404}
                  /\ e.status = IF e.action = "block" THEN 0
                                ELSE IF sent' = 0 THEN 499 ELSE sent'
  <2>1. PICK e : /\ audit' = Append(<<>>, e) /\ sent' \notin {401, 404}
                 /\ e.status = IF e.action = "block" THEN 0
                               ELSE IF sent' = 0 THEN 499 ELSE sent'
    BY <1>1, <1>4 DEF Log
  <2>2. Len(audit') = 1 /\ DOMAIN audit' = {1} /\ audit'[1] = e
    BY <2>1, OneEntry
  <2>3. AccountedOnce'
    BY <1>2, <2>1, <2>2 DEF AccountedOnce
  <2> QED
    BY <2>3 DEF HandleInv
<1> QED
  BY <1>3, <1>4

\* Every step of handle either goes on or is the last.
LEMMA HandleStep == HandleInv /\ [Next]_vars => HandleInv'
<1> SUFFICES ASSUME HandleInv, [Next]_vars PROVE HandleInv'
  OBVIOUS
<1>0. /\ pc # "idle" => traffic = "proxy"
      /\ pc \notin {"idle", "body", "failed", "done"} =>
           header = "own" /\ sent = 0
      /\ pc = "body" => sent = 200
      /\ pc = "failed" => sent \in {0, 200}
      /\ sent >= 400 => header = "own"
  BY DEF HandleInv
<1> USE DEF Go, Onwards, Reply
<1>1. CASE Arrive
  BY <1>1 DEF Arrive, HandleInv, AccountedOnce, confVars, respVars, logVars,
              streamVars
<1>2. CASE Admit \/ ReleaseKnown \/ IntelKnown \/ Bypass \/ Lookup \/ Lead
           \/ Acquired \/ Wait \/ WaitOver
  <2>1. /\ pc \in {"routed", "release", "intel", "decided", "lookup", "wait",
                   "acquire"}
        /\ pc' \in {"release", "intel", "decided", "lookup", "upstream", "wait",
                    "acquire"}
        /\ UNCHANGED <<confVars, respVars, logVars>>
    BY <1>2 DEF Admit, ReleaseKnown, IntelKnown, Bypass, Lookup, Lead,
                Acquired, Wait, WaitOver
  <2> QED
    BY <1>0, <2>1, GoesOn DEF confVars, respVars
<1>3. CASE Unauthorized \/ NotFound
  <2>1. PICK status \in {401, 404} :
          /\ pc = "routed" /\ pc' = "done" /\ sent' = status /\ Request(status)
          /\ UNCHANGED <<confVars, header, audit>>
    BY <1>3 DEF Unauthorized, NotFound, Refuse
  <2> QED
    BY <1>0, <2>1, IsDone DEF confVars
<1>4. CASE Blocked
  <2> DEFINE e == [action |-> "block", status |-> 0]
  <2>1. /\ pc \in {"release", "decided"} /\ pc' = "done" /\ sent' = 403
        /\ Request(403) /\ Log(e) /\ UNCHANGED <<confVars, header>>
    BY <1>4 DEF Blocked
  <2>2. e.action = "block" /\ e.status = 0
    OBVIOUS
  <2> HIDE DEF e
  <2> QED
    BY <1>0, <2>1, <2>2, IsDone DEF confVars
<1>5. CASE Hit \/ Respond
  <2>1. /\ pc \in {"lookup", "upstream"} /\ UNCHANGED <<confVars, logVars>>
        /\ \/ pc' = "body" /\ sent' = 200
           \/ pc' = "failed" /\ sent' = sent
    BY <1>5 DEF Hit, Respond, Responds
  <2> QED
    BY <1>0, <2>1, GoesOn DEF confVars
<1>6. CASE AcquireFails \/ UpstreamFails \/ Cancelled \/ LeaseLost
           \/ BodyFails
  <2>1. /\ pc \in {"acquire", "upstream", "wait", "body"} /\ pc' = "failed"
        /\ UNCHANGED <<confVars, logVars, header, sent>>
    BY <1>6 DEF AcquireFails, UpstreamFails, Cancelled, LeaseLost, BodyFails,
                Fails
  <2> QED
    BY <1>0, <2>1, GoesOn DEF confVars
<1>7. CASE Stream
  <2>1. pc = "body" /\ UNCHANGED <<confVars, pc, respVars, logVars>>
    BY <1>7 DEF Stream
  <2> QED
    BY <1>0, <2>1, GoesOn DEF confVars, respVars
<1>8. CASE Complete \/ FailedAfter
  <2> DEFINE e == [action |-> "allow", status |-> sent]
  <2>1. /\ pc \in {"body", "failed"} /\ pc' = "done" /\ sent # 0 /\ Log(e)
        /\ \E status : Request(status)
        /\ UNCHANGED <<confVars, respVars>>
    BY <1>8 DEF Complete, FailedAfter, HandleInv
  <2>2. sent = 200 /\ traffic = "proxy"
    BY <2>1 DEF HandleInv
  <2>3. e.action = "allow" /\ e.status = sent
    OBVIOUS
  <2> HIDE DEF e
  <2> QED
    BY <2>1, <2>2, <2>3, IsDone DEF confVars, respVars
<1>9. CASE FailedBefore
  <2> DEFINE s == upstreamErrorResponse
             e == [action |-> "allow", status |-> s]
  <2>1. s \in {502, 503, 504}
    BY DEF upstreamErrorResponse
  <2>2. /\ pc = "failed" /\ pc' = "done" /\ sent' = s /\ Log(e)
        /\ header' = "own" /\ Request(proxyErrorStatus) /\ UNCHANGED confVars
    BY <1>9 DEF FailedBefore
  <2> HIDE DEF s
  <2>3. e.action = "allow" /\ e.status = s
    OBVIOUS
  <2> HIDE DEF e
  <2> QED
    BY <1>0, <2>1, <2>2, <2>3, IsDone DEF confVars
<1>10. CASE FailedCancelled
  <2> DEFINE e == [action |-> "allow", status |-> 499]
  <2>1. /\ pc = "failed" /\ pc' = "done" /\ sent = 0 /\ Log(e)
        /\ Request(proxyErrorStatus) /\ UNCHANGED <<confVars, respVars>>
    BY <1>10 DEF FailedCancelled
  <2>2. e.action = "allow" /\ e.status = 499
    OBVIOUS
  <2> HIDE DEF e
  <2> QED
    BY <1>0, <2>1, <2>2, IsDone DEF confVars, respVars
<1>11. CASE Explaining
  <2>1. /\ traffic = "explain" /\ sent' \in {200, 400, 401, 405, 429}
        /\ UNCHANGED <<streamVars, confVars, pc, header, logVars>>
    BY <1>11 DEF Explaining, Explain
  <2> QED
    BY <2>1 DEF HandleInv, AccountedOnce, streamVars, confVars, logVars
<1>12. CASE UNCHANGED <<streamVars, confVars, pc, respVars, logVars>>
  BY <1>12 DEF HandleInv, AccountedOnce, streamVars, confVars, respVars, logVars
<1>13. CASE Tick \/ Around \/ UNCHANGED vars
  BY <1>12, <1>13, AroundShape DEF Tick, vars
<1> QED
  BY <1>1, <1>2, <1>3, <1>4, <1>5, <1>6, <1>7, <1>8, <1>9, <1>10, <1>11, <1>13,
     Steps DEF Handling, Work

\* HandleInv holds from the start.
LEMMA HandleInit == Init => HandleInv
  BY ServerAssumption DEF Init, Idle, HandleInv, AccountedOnce

\* AccountedOnce: on every path through handle, the panic included, the request
\* is counted once and a decision is logged once, with the client's status.
THEOREM EachAccountedOnce == Spec => []AccountedOnce
<1>1. HandleInv => AccountedOnce
  BY DEF HandleInv
<1> QED
  BY <1>1, HandleInit, HandleStep, PTL DEF Spec

-----------------------------------------------------------------------------
(* WriteTimeoutSuffices.                                                   *)

\* The timeouts are numbers, they make up the budget, and it fits.
LEMMA Budget ==
  ASSUME TimeInv
  PROVE  /\ OSV \in Nat /\ Read \in Nat /\ RequestTimeout \in Nat
         /\ RequestBudget(cfg) = RequestTimeout + OSV + Read
         /\ cfg.write \in Nat /\ RequestBudget(cfg) < cfg.write
  BY ServerAssumption DEF TimeInv, OSV, Read, RequestBudget, Validate,
     durationBudgetFits, Config

\* A request gets on, within its time.
LEMMA InTime ==
  ASSUME TimeInv, UNCHANGED <<traffic, cfg, now, cutAt, over>>,
         waited' \in BOOLEAN, conn' = "cut" => conn = "cut",
         until' \in Nat, pc' \in Phases, pc # "idle",
         Phase(pc', now, until', waited', over)
  PROVE  TimeInv'
  BY DEF TimeInv, Phase, Spent, OSV, Read, RequestBudget, Validate,
         durationBudgetFits

\* What of a budget is spent in time is so in a larger one, and a call that
\* has its part of the budget keeps to what is left.
LEMMA SpentMore ==
  ASSUME TimeInv, NEW d \in Nat, NEW e \in Nat, Spent(now, over, d)
  PROVE  /\ Spent(now, over, d + e) /\ Spent(now + e, over, d + e)
         /\ Spent(0, over, d + e)
<1>1. /\ now \in Nat /\ cutAt \in Nat /\ over \in Nat /\ cfg.write \in Nat
      /\ now + cfg.write <= cutAt + over + d
  BY Budget DEF TimeInv, Spent
<1> QED
  BY <1>1 DEF Spent

\* No call takes longer than the budget has for it.
LEMMA TimeStep == TimeInv /\ [Next]_vars => TimeInv'
<1> SUFFICES ASSUME TimeInv, [Next]_vars PROVE TimeInv'
  OBVIOUS
<1>0. /\ now \in Nat /\ until \in Nat /\ cutAt \in Nat /\ over \in Nat
      /\ waited \in BOOLEAN /\ cfg \in Config
      /\ Phase(pc, now, until, waited, over)
  BY DEF TimeInv
<1>1. CASE Arrive
  <2>1. /\ traffic = "proxy" /\ pc' = "routed" /\ cutAt' = now + cfg.write
        /\ UNCHANGED <<traffic, cfg, now, until, waited, over, conn>>
    BY <1>1 DEF Arrive, Go, confVars
  <2>2. cutAt' \in Nat /\ now + cfg.write <= cutAt' + over + 0
    BY <2>1, <1>0, Budget
  <2>3. Phase(pc, now, until, waited, over)'
    BY <2>1, <2>2 DEF Phase, Spent
  <2> QED
    BY <2>1, <2>2, <2>3 DEF TimeInv, Validate, durationBudgetFits,
       RequestBudget, Phases
<1>2. CASE Admit \/ ReleaseKnown \/ IntelKnown
  <2>1. PICK d \in {RequestTimeout, OSV, 0} :
          /\ until' = now + d /\ pc \in {"routed", "release", "intel"}
          /\ UNCHANGED <<traffic, cfg, now, cutAt, waited, over, conn>>
          /\ \/ pc = "routed" /\ pc' = "release"
             \/ pc \in {"routed", "release"} /\ pc' = "intel" /\ d = OSV
             \/ pc' = "decided"
    BY <1>2 DEF Admit, ReleaseKnown, IntelKnown, Go, Within, Onwards, confVars,
                OSV
  <2>2. until' \in Nat /\ pc' \in Phases
    BY <2>1, <1>0, Budget DEF Phases
  <2>3. CASE pc \in {"routed", "release"}
    <3>1. Spent(now, over, 0)
      BY <1>0, <2>3 DEF Phase
    <3>2. 0 \in Nat /\ OSV \in Nat /\ 0 + OSV = OSV
      BY Budget
    <3>3. Spent(now, over, OSV) /\ Spent(now + OSV, over, OSV)
      BY <3>1, <3>2, SpentMore
    <3>4. Phase(pc', now, until', waited', over)
      BY <2>1, <3>1, <3>3 DEF Phase
    <3> QED
      BY <1>0, <2>1, <2>2, <3>4, InTime
  <2>4. CASE pc = "intel"
    <3>1. Phase(pc', now, until', waited', over)
      BY <1>0, <2>1, <2>4 DEF Phase
    <3> QED
      BY <1>0, <2>1, <2>2, <3>1, InTime
  <2> QED
    BY <2>1, <2>3, <2>4
<1>3. CASE Bypass \/ Lookup
  <2>1. PICK d \in {RequestTimeout, Read} :
          /\ until' = now + d /\ pc = "decided"
          /\ UNCHANGED <<traffic, cfg, now, cutAt, waited, over, conn>>
          /\ \/ pc' = "upstream" /\ d = RequestTimeout
             \/ pc' = "lookup" /\ d = Read
    BY <1>3 DEF Bypass, Lookup, cacheKey, Go, Within, Onwards, confVars, Read
  <2>2. until' \in Nat /\ pc' \in Phases
    BY <2>1, <1>0, Budget DEF Phases
  <2>3. Spent(now, over, OSV)
    BY <1>0, <2>1 DEF Phase
  <2>4. /\ Spent(now, over, OSV + Read) /\ Spent(now + Read, over, OSV + Read)
        /\ Spent(now + RequestTimeout, over, OSV + RequestTimeout)
    BY <2>3, Budget, SpentMore
  <2>5. /\ Spent(now, over, RequestBudget(cfg))
        /\ Spent(now + RequestTimeout, over, RequestBudget(cfg))
    BY <1>0, <2>4, Budget DEF Spent
  <2>6. Phase(pc', now, until', waited', over)
    BY <2>1, <2>4, <2>5 DEF Phase
  <2> QED
    BY <1>0, <2>1, <2>2, <2>6, InTime
<1>4. CASE Lead \/ Acquired \/ WaitOver \/ Hit \/ Wait
  <2>1. /\ pc \in {"lookup", "acquire", "wait"} /\ waited' \in BOOLEAN
        /\ UNCHANGED <<traffic, cfg, now, cutAt, over, conn>>
        /\ \/ pc' = "acquire" /\ until' = 0
           \/ pc' = "upstream" /\ until' = now + RequestTimeout
           \/ pc' = "lookup" /\ until' = now + ReadTimeout /\ pc = "wait"
              /\ UNCHANGED waited
           \/ pc' = "body" /\ until' = 0
           \/ pc' = "wait" /\ until' = 0 /\ waited'
    BY <1>0, <1>4 DEF Lead, Acquired, WaitOver, Hit, Wait, Go, Within, Onwards,
                      confVars
  <2>2. until' \in Nat /\ pc' \in Phases
    BY <2>1, <1>0, ServerAssumption DEF Phases
  <2>3. Spent(now, over, OSV + Read) /\ (pc = "wait" => waited)
    BY <1>0, <2>1 DEF Phase
  <2>4. /\ OSV + Read \in Nat /\ RequestTimeout \in Nat
        /\ RequestBudget(cfg) = (OSV + Read) + RequestTimeout
    BY Budget
  <2>5. /\ Spent(now, over, RequestBudget(cfg))
        /\ Spent(now + RequestTimeout, over, RequestBudget(cfg))
        /\ Spent(0, over, RequestBudget(cfg))
    BY <2>3, <2>4, SpentMore
  <2>6. Phase(pc', now, until', waited', over)
    BY <2>1, <2>3, <2>5 DEF Phase
  <2> QED
    BY <1>0, <2>1, <2>2, <2>6, InTime
<1>5. CASE AcquireFails \/ UpstreamFails \/ Cancelled \/ LeaseLost
           \/ BodyFails \/ Respond \/ Stream
  <2>1. /\ pc \in {"acquire", "upstream", "wait", "body"}
        /\ pc' \in {"body", "failed"}
        /\ pc \in {"acquire", "wait"} => pc' = "failed"
        /\ UNCHANGED <<traffic, cfg, now, cutAt, until, waited, over, conn>>
    BY <1>5 DEF AcquireFails, UpstreamFails, Cancelled, LeaseLost, BodyFails,
                Fails, Respond, Responds, Stream, Go, confVars, callVars
  <2>2. Spent(now, over, RequestBudget(cfg))
    <3>1. CASE pc \in {"acquire", "wait"}
      <4>1. /\ OSV + Read \in Nat /\ RequestTimeout \in Nat
            /\ RequestBudget(cfg) = (OSV + Read) + RequestTimeout
        BY Budget
      <4> QED
        BY <1>0, <3>1, <4>1, SpentMore DEF Phase
    <3>2. CASE pc \in {"upstream", "body"}
      BY <1>0, <3>2 DEF Phase
    <3> QED
      BY <2>1, <3>1, <3>2
  <2>3. Phase(pc', now, until', waited', over)
    BY <1>0, <2>1, <2>2 DEF Phase
  <2> QED
    BY <1>0, <2>1, <2>3, InTime DEF Phases
<1>6. CASE Unauthorized \/ NotFound \/ Blocked \/ Complete \/ FailedBefore
           \/ FailedCancelled \/ FailedAfter
  <2>1. /\ pc # "idle" /\ pc' = "done"
        /\ UNCHANGED <<traffic, cfg, now, cutAt, until, waited, over>>
        /\ conn' \in {conn, "ended", "aborted"}
    BY <1>6 DEF Unauthorized, NotFound, Refuse, Blocked, Complete, FailedBefore,
                FailedCancelled, FailedAfter, Go, Close, confVars, callVars
  <2>2. Phase(pc', now, until', waited', over)
    BY <2>1 DEF Phase
  <2> QED
    BY <1>0, <2>1, <2>2, InTime DEF Phases
<1>7. CASE Tick
  <2>1. /\ now' = now + 1
        /\ UNCHANGED <<traffic, cfg, pc, until, cutAt, waited, conn>>
        /\ \/ traffic = "explain"
           \/ pc \in {"acquire", "wait", "body", "failed"}
           \/ /\ pc \in {"intel", "release", "lookup", "upstream"}
              /\ now < until
        /\ over' = IF Uncounted THEN over + 1 ELSE over
    BY <1>7 DEF Tick, Releasing, confVars
  <2>2. /\ pc \in {"release", "acquire", "wait"} => Uncounted
        /\ traffic # "explain" /\ pc = "failed" => Uncounted
        /\ pc = "lookup" /\ waited => Uncounted
        /\ pc = "body" /\ ~(now < until) => Uncounted
    <3>1. traffic # "explain" /\ pc = "failed" => Releasing
      BY <1>7 DEF Tick
    <3>2. ~(now < until) => now >= until
      BY <1>0
    <3> QED
      BY <3>1, <3>2 DEF Uncounted
  <2>3. over' \in Nat /\ over <= over' /\ (Uncounted => over' = over + 1)
    BY <1>0, <2>1
  <2>4. ASSUME NEW d \in Nat
        PROVE  /\ Uncounted /\ Spent(now, over, d) => Spent(now + 1, over', d)
               /\ Spent(until, over, d) => Spent(until, over', d)
               /\ now < until /\ Spent(until, over, d) =>
                    Spent(now + 1, over', d)
    BY <1>0, <2>3, Budget DEF Spent
  <2>5. /\ RequestBudget(cfg) \in Nat /\ OSV + Read \in Nat /\ OSV \in Nat
        /\ 0 \in Nat
    BY Budget
  <2>6. Phase(pc, now + 1, until, waited, over')
    <3>1. CASE traffic = "explain"
      BY <3>1 DEF TimeInv, Phase
    <3>2. CASE traffic # "explain"
      <4>1. CASE pc \in {"release", "intel"}
        BY <1>0, <2>1, <2>2, <2>4, <2>5, <3>2, <4>1 DEF Phase
      <4>2. CASE pc = "lookup"
        BY <1>0, <2>1, <2>2, <2>4, <2>5, <3>2, <4>2 DEF Phase
      <4>3. CASE pc \in {"acquire", "wait"}
        BY <1>0, <2>1, <2>2, <2>4, <2>5, <3>2, <4>3 DEF Phase
      <4>4. CASE pc \in {"upstream", "body", "failed"}
        BY <1>0, <2>1, <2>2, <2>4, <2>5, <3>2, <4>4 DEF Phase
      <4> QED
        BY <2>1, <3>2, <4>1, <4>2, <4>3, <4>4
    <3> QED
      BY <3>1, <3>2
  <2>7. Phase(pc, now, until, waited, over)'
    BY <2>1, <2>6 DEF Phase, Spent, OSV, Read, RequestBudget
  <2>8. conn = "cut" => cfg.write <= over' + RequestBudget(cfg)
    BY <1>0, <2>3, <2>5, Budget DEF TimeInv
  <2> QED
    BY <1>0, <2>1, <2>3, <2>7, <2>8 DEF TimeInv, Validate, durationBudgetFits,
       RequestBudget
<1>8. CASE CutOff
  <2>1. /\ Busy /\ now >= cutAt
        /\ UNCHANGED <<traffic, cfg, now, cutAt, until, waited, over, pc>>
    BY <1>8 DEF CutOff, confVars, callVars
  <2>2. cfg.write <= over + RequestBudget(cfg)
    <3>1. \E d \in {0, OSV, OSV + Read, RequestBudget(cfg)} : Spent(now, over, d)
      BY <1>0, <2>1 DEF Phase, Busy, TimeInv, Phases
    <3> QED
      BY <1>0, <2>1, <3>1, Budget DEF Spent
  <2> QED
    BY <2>1, <2>2 DEF TimeInv, Phase, Spent, OSV, Read, RequestBudget, Validate,
       durationBudgetFits
<1>9. CASE /\ UNCHANGED <<traffic, cfg, now, cutAt, until, waited, over, pc>>
           /\ conn' = "cut" => conn = "cut"
  BY <1>9 DEF TimeInv, Phase, Spent, OSV, Read, RequestBudget, Validate,
     durationBudgetFits
<1>10. CASE ClientLeaves \/ Stopping \/ Signal \/ ListenFails \/ UNCHANGED vars
  BY <1>9, <1>10 DEF ClientLeaves, Stopping, Shutdown, ListenEnds,
     ShutdownEnds, Return, Signal, ListenFails, confVars, callVars, vars
<1>11. CASE Explaining
  BY <1>9, <1>11 DEF Explaining, Explain, confVars, callVars
<1> QED
  BY <1>1, <1>2, <1>3, <1>4, <1>5, <1>6, <1>7, <1>8, <1>10, <1>11
  DEF Next, Work, Explaining

\* TimeInv holds from the start: only valid configurations start.
LEMMA TimeInit == Init => TimeInv
<1> SUFFICES ASSUME Init PROVE TimeInv
  OBVIOUS
<1>1. cfg \in Config /\ Validate(cfg)
  BY ServerAssumption DEF Init
<1>2. /\ pc = "idle" /\ now = 0 /\ until = 0 /\ cutAt = 0 /\ waited = FALSE
      /\ over = 0 /\ conn = "open"
  BY DEF Init
<1> QED
  BY <1>1, <1>2 DEF TimeInv, Phase, Phases

\* WriteTimeoutSuffices: a configuration that Validate accepts cuts a response
\* off only after the waits that its budget does not count have used up all
\* that the write timeout leaves beyond it.
THEOREM TimeoutSuffices == Spec => []WriteTimeoutSuffices
<1>1. TimeInv => WriteTimeoutSuffices
  <2> SUFFICES ASSUME TimeInv, conn = "cut"
               PROVE  over >= Max({1, cfg.write - RequestBudget(cfg)})
    BY DEF WriteTimeoutSuffices
  <2> DEFINE margin == cfg.write - RequestBudget(cfg)
  <2>1. /\ over \in Nat /\ margin \in Int /\ 1 \in Int /\ margin >= 1
        /\ over >= margin
    BY Budget DEF TimeInv
  <2> HIDE DEF margin
  <2>2. /\ Max({1, margin}) \in {1, margin}
        /\ Max({1, margin}) >= 1 /\ Max({1, margin}) >= margin
    BY <2>1, MaxPair
  <2>3. over >= Max({1, margin})
    BY <2>1, <2>2
  <2> QED
    BY <2>3 DEF margin
<1> QED
  BY <1>1, TimeInit, TimeStep, PTL DEF Spec

-----------------------------------------------------------------------------
(* NothingDisclosed.                                                       *)

\* Of two beginnings of one path the shorter one begins the longer.
LEMMA PrefixesNest ==
  ASSUME NEW t \in Seq(Word), NEW p \in Seq(Word), NEW o \in Seq(Word),
         IsPrefix(p, t), IsPrefix(o, t), Len(o) <= Len(p)
  PROVE  IsPrefix(o, p)
<1>1. ASSUME NEW q \in Seq(Word), IsPrefix(q, t)
      PROVE  Len(q) <= Len(t) /\ \A i \in 1 .. Len(q) : q[i] = t[i]
  <2>1. Len(q) <= Len(t) /\ SubSeq(q, 1, Len(q)) = SubSeq(t, 1, Len(q))
    BY <1>1 DEF IsPrefix
  <2>2. ASSUME NEW i \in 1 .. Len(q) PROVE q[i] = t[i]
    <3>1. SubSeq(q, 1, Len(q))[i] = q[i] /\ SubSeq(t, 1, Len(q))[i] = t[i]
      BY <2>1
    <3> QED
      BY <2>1, <3>1
  <2> QED
    BY <2>1, <2>2
<1>2. \A i \in 1 .. Len(o) : o[i] = p[i]
  BY <1>1
<1>3. SubSeq(o, 1, Len(o)) = SubSeq(p, 1, Len(o))
  BY <1>2
<1> QED
  BY <1>3 DEF IsPrefix

\* Of the routes that match a path one is the longest.
LEMMA LongestRoute ==
  ASSUME NEW t \in Seq(Word), Matching(t) # {}
  PROVE  \E p \in Matching(t) : \A o \in Matching(t) : Len(o) <= Len(p)
<1>1. \A p \in Matching(t) : Len(p) \in Nat /\ Len(p) <= Len(t)
  BY ServerAssumption DEF Matching, IsPrefix, ValidRoutes
<1> DEFINE gap == {Len(t) - Len(p) : p \in Matching(t)}
<1>2. gap \in SUBSET Nat /\ gap # {}
  BY <1>1
<1>3. PICK m \in gap : \A x \in gap : m <= x
  BY <1>2, LeastElement
<1>4. PICK p \in Matching(t) : m = Len(t) - Len(p)
  OBVIOUS
<1>5. ASSUME NEW o \in Matching(t) PROVE Len(o) <= Len(p)
  <2>1. m <= Len(t) - Len(o)
    BY <1>3
  <2>2. Len(o) \in Nat /\ Len(p) \in Nat /\ Len(t) \in Nat
    BY <1>1
  <2> QED
    BY <1>4, <2>1, <2>2
<1> QED
  BY <1>5

\* A path that is routed as open to everybody lies on an open route, and on
\* no closer one that is not.
LEMMA RouteOpen ==
  ASSUME NEW t \in Seq(Word), RouteOf(t).anonymous
  PROVE  Open(t)
<1>1. matchRoute(t) # NoRoute /\ matchRoute(t).anonymous
  BY DEF RouteOf, matchNPMTarballFallback, NoRoute
<1>2. Matching(t) # {}
  BY <1>1 DEF matchRoute
<1> DEFINE p == CHOOSE p \in Matching(t) :
                  \A o \in Matching(t) : Len(o) <= Len(p)
<1>3. p \in Matching(t) /\ \A o \in Matching(t) : Len(o) <= Len(p)
  BY <1>2, LongestRoute
<1>4. Routes[p].anonymous
  BY <1>1, <1>2 DEF matchRoute
<1> HIDE DEF p
<1>5. ASSUME NEW o \in Matching(t) PROVE IsPrefix(o, p)
  <2>1. p \in Seq(Word) /\ o \in Seq(Word)
    BY <1>3, ServerAssumption DEF Matching, ValidRoutes, Word
  <2> QED
    BY <1>3, <2>1, PrefixesNest DEF Matching
<1> QED
  BY <1>3, <1>4, <1>5 DEF Open

\* A stranger is answered 401 and nothing else, from any path.
LEMMA DiscloseStep ==
  HandleInv /\ DiscloseInv /\ [Next]_vars => DiscloseInv'
<1> SUFFICES ASSUME HandleInv, DiscloseInv, [Next]_vars PROVE DiscloseInv'
  OBVIOUS
<1>1. CASE UNCHANGED <<streamVars, confVars, req, pc, route, respVars, logVars>>
  <2>1. UNCHANGED <<body, auth, req, pc, route, sent, audit>>
    BY <1>1 DEF streamVars, confVars, respVars, logVars
  <2> QED
    BY <2>1 DEF DiscloseInv, Stranger
<1>2. CASE Arrive
  <2>1. /\ pc = "idle" /\ pc' = "routed" /\ route' = RouteOf(req.path)
        /\ traffic = "proxy"
        /\ UNCHANGED <<body, auth, req, sent, audit>>
    BY <1>2 DEF Arrive, Go, streamVars, confVars, respVars, logVars
  <2>2. sent = 0 /\ audit = <<>> /\ body = <<>>
    BY <2>1 DEF HandleInv
  <2> QED
    BY <2>1, <2>2 DEF DiscloseInv
<1>3. ASSUME Handling, ~Arrive PROVE DiscloseInv'
  <2>1. UNCHANGED <<auth, req, route>> /\ pc \notin {"idle", "done"}
        /\ pc' # "idle"
    BY <1>3, HandlingShape, ZenonT(60)
       DEF Handling, Work, Unauthorized, NotFound, Refuse,
       Admit, ReleaseKnown, IntelKnown, Blocked, Bypass, Lookup, Hit, Lead,
       Acquired, Wait, WaitOver, AcquireFails, UpstreamFails, Cancelled,
       LeaseLost, Fails, Respond,
       Responds, Stream, BodyFails, Complete, FailedBefore, FailedCancelled,
       FailedAfter, Go, Onwards, confVars, callVars
  <2>2. ASSUME Stranger
        PROVE  /\ sent' = 401 /\ audit' = <<>> /\ body' = <<>> /\ pc' = "done"
    <3>1. pc = "routed" /\ audit = <<>> /\ body = <<>>
          /\ route = RouteOf(req.path)
      BY <2>1, <2>2 DEF DiscloseInv
    <3>2. ~MayPass
      BY <2>2, <3>1, RouteOpen DEF MayPass, authorized, Stranger, DiscloseInv
    <3>3. Unauthorized
      BY <1>3, <3>1, <3>2 DEF Handling, Work, NotFound, Admit, ReleaseKnown,
         IntelKnown, Blocked, Bypass, Lookup, Hit, Lead, Acquired, Wait,
         WaitOver, AcquireFails,
         UpstreamFails, Cancelled, LeaseLost, Fails, Respond, Responds, Stream,
         BodyFails, Complete, FailedBefore, FailedCancelled, FailedAfter, Go
    <3> QED
      BY <3>1, <3>3 DEF Unauthorized, Refuse, Go, Reply, streamVars
  <2>3. Stranger' => Stranger
    BY <2>1 DEF Stranger
  <2> QED
    BY <2>1, <2>2, <2>3, SMTT(60) DEF DiscloseInv
<1>4. ASSUME NEW t \in Target, NEW cred, NEW method, Explain(t, cred, method)
      PROVE  DiscloseInv'
  <2>1. t \in Seq(Word)
    <3>1. ASSUME NEW S, NEW x \in S PROVE <<x>> \in Seq(S)
      OBVIOUS
    <3>2. <<"purl">> \in Seq(Word) /\ <<"invalid">> \in Seq(Word)
      BY <3>1 DEF Word
    <3>3. \A s \in Scenarios : s.path \in Seq(Word)
      BY ServerAssumption DEF Word
    <3> QED
      BY <3>2, <3>3 DEF Target
  <2>2. /\ traffic = "explain" /\ req'.path = t /\ req'.cred = cred
        /\ UNCHANGED <<body, auth, pc, audit>>
        /\ ~((explainTarget(t).ok /\ explainTarget(t).anonymous)
                \/ authorized(cred)) => sent' = 401
    BY <1>4 DEF Explain, streamVars, confVars, logVars, Reply
  <2>3. pc = "idle" /\ body = <<>> /\ audit = <<>>
    BY <2>2 DEF HandleInv
  <2>4. explainTarget(t).ok /\ explainTarget(t).anonymous => Open(t)
    BY <2>1, RouteOpen DEF explainTarget
  <2>5. Stranger' => ~Open(t) /\ ~authorized(cred)
    BY <2>2 DEF Stranger, authorized
  <2> QED
    BY <2>1, <2>2, <2>3, <2>4, <2>5 DEF DiscloseInv
<1>5. CASE Tick \/ Around \/ UNCHANGED vars
  BY <1>1, <1>5, AroundShape DEF Tick, callVars, vars
<1> QED
  BY <1>2, <1>3, <1>4, <1>5, Steps DEF Explaining

\* NothingDisclosed: without valid credentials every path that is not open,
\* routed or not, proxied or explained, answers 401 and does nothing.
THEOREM StrangersSeeNothing == Spec => []NothingDisclosed
<1>1. ASSUME Init PROVE DiscloseInv
  <2>1. req.path \in Seq(Word)
    BY <1>1, ServerAssumption DEF Init, Word
  <2> QED
    BY <1>1, <2>1 DEF Init, Idle, DiscloseInv
<1>2. DiscloseInv => NothingDisclosed
  BY DEF DiscloseInv, NothingDisclosed, Stranger, Open
<1> QED
  BY <1>1, <1>2, HandleInit, HandleStep, DiscloseStep, PTL DEF Spec
-----------------------------------------------------------------------------
(* What rewriteStream computes.                                            *)

\* What a recursion that walks up a list makes of its steps: from s it stops
\* with base[s], or writes pre[s] and goes on at nxt[s].
Unrolled(halt, base, pre, nxt, f, s) ==
  IF s \in halt THEN base[s]
  ELSE [out |-> pre[s] \o f[nxt[s]].out, end |-> f[nxt[s]].end]

IsUnrolled(n, halt, base, pre, nxt, f) ==
  f = [s \in 0 .. n |-> Unrolled(halt, base, pre, nxt, f, s)]

\* There is a function that does so.
LEMMA Unrolls ==
  ASSUME NEW n \in Nat, NEW halt, NEW base, NEW pre, NEW nxt,
         \A s \in 0 .. n : s \in halt \/ nxt[s] \in s + 1 .. n
  PROVE  \E f : IsUnrolled(n, halt, base, pre, nxt, f)
<1> DEFINE Is(f, m) ==
             /\ f = [s \in n - m .. n |-> f[s]]
             /\ \A s \in n - m .. n : f[s] = Unrolled(halt, base, pre, nxt, f, s)
           Bad == {m \in 0 .. n : ~\E f : Is(f, m)}
<1>1. Bad = {}
  <2> SUFFICES ASSUME Bad # {} PROVE FALSE
    OBVIOUS
  <2>1. Bad \in SUBSET Nat
    OBVIOUS
  <2>2. PICK m \in Bad : \A x \in Bad : m <= x
    <3> HIDE DEF Bad
    <3> QED
      BY <2>1, LeastElement
  <2>3. m \in 0 .. n /\ ~\E f : Is(f, m)
    OBVIOUS
  <2>4. CASE m = 0
    <3> DEFINE f == [s \in n .. n |-> base[s]]
    <3>1. n - 0 = n /\ \A s \in n .. n : s = n
      OBVIOUS
    <3>2. n \in halt /\ n \in n .. n
      <4>1. n \in 0 .. n /\ ~\E x \in n + 1 .. n : TRUE
        OBVIOUS
      <4> QED
        BY <4>1
    <3>3. \A s \in n .. n : f[s] = Unrolled(halt, base, pre, nxt, f, s)
      BY <3>1, <3>2 DEF Unrolled
    <3>4. Is(f, 0)
      BY <3>1, <3>3
    <3> QED
      BY <2>3, <2>4, <3>4
  <2>5. CASE m # 0
    <3>1. m - 1 \in 0 .. n /\ m - 1 \notin Bad
      <4>1. m - 1 \in 0 .. n /\ ~(m <= m - 1)
        BY <2>3, <2>5
      <4> HIDE DEF Bad
      <4> QED
        BY <2>2, <4>1
    <3>2. PICK old : Is(old, m - 1)
      BY <3>1
    <3> DEFINE k == n - m
               f == [s \in k .. n |->
                       IF s = k THEN Unrolled(halt, base, pre, nxt, old, s)
                       ELSE old[s]]
    <3>3. k \in 0 .. n /\ n - (m - 1) = k + 1
      BY <2>3
    <3>4. ASSUME NEW s \in k .. n
          PROVE  f[s] = Unrolled(halt, base, pre, nxt, f, s)
      <4>1. s \in halt \/ (nxt[s] \in k + 1 .. n /\ f[nxt[s]] = old[nxt[s]])
        <5>1. k \in Int /\ s \in Int /\ k <= s /\ s \in 0 .. n
          BY <3>3
        <5> HIDE DEF k
        <5>2. CASE s \notin halt
          <6>1. nxt[s] \in s + 1 .. n
            BY <5>1, <5>2
          <6> DEFINE x == nxt[s]
          <6> HIDE DEF x
          <6>2. x \in k + 1 .. n /\ x \in k .. n /\ x # k
            BY <5>1, <6>1 DEF x
          <6>3. f[x] = old[x]
            BY <6>2
          <6> QED
            BY <6>2, <6>3 DEF x
        <5> QED
          BY <5>2
      <4>2. f[s] = Unrolled(halt, base, pre, nxt, old, s)
        <5>1. CASE s = k
          BY <5>1
        <5>2. CASE s # k
          <6>1. s \in k + 1 .. n
            BY <3>3, <5>2
          <6> QED
            BY <3>2, <3>3, <5>2, <6>1
        <5> QED
          BY <5>1, <5>2
      <4> HIDE DEF f
      <4> QED
        BY <4>1, <4>2 DEF Unrolled
    <3>5. f = [s \in k .. n |-> f[s]]
      OBVIOUS
    <3> HIDE DEF f
    <3>6. Is(f, m)
      BY <3>4, <3>5
    <3> QED
      BY <2>3, <3>6
  <2> QED
    BY <2>4, <2>5
<1>2. n \in 0 .. n /\ n - n = 0
  OBVIOUS
<1>3. PICK f : Is(f, n)
  BY <1>1, <1>2
<1>4. f = [s \in 0 .. n |-> f[s]]
  BY <1>2, <1>3
<1>5. \A s \in 0 .. n : f[s] = Unrolled(halt, base, pre, nxt, f, s)
  BY <1>2, <1>3
<1>6. f = [s \in 0 .. n |-> Unrolled(halt, base, pre, nxt, f, s)]
  BY <1>4, <1>5, Zenon
<1> QED
  BY <1>6 DEF IsUnrolled

\* What such a function makes of an offset.
Unrolling(halt, base, pre, nxt, f, s) ==
  /\ s \in halt => f[s] = base[s]
  /\ s \notin halt => f[s].out = pre[s] \o f[nxt[s]].out
  /\ s \notin halt => f[s].end = f[nxt[s]].end

LEMMA UnrolledAt ==
  ASSUME NEW n, NEW halt, NEW base, NEW pre, NEW nxt, NEW f,
         IsUnrolled(n, halt, base, pre, nxt, f), NEW s \in 0 .. n
  PROVE  Unrolling(halt, base, pre, nxt, f, s)
<1>1. f[s] = Unrolled(halt, base, pre, nxt, f, s)
  BY Zenon DEF IsUnrolled
<1>2. s \in halt => f[s] = base[s]
  BY <1>1 DEF Unrolled
<1>3. ASSUME s \notin halt
      PROVE  f[s].out = pre[s] \o f[nxt[s]].out /\ f[s].end = f[nxt[s]].end
  <2> DEFINE a == pre[s] \o f[nxt[s]].out
             b == f[nxt[s]].end
  <2>1. f[s] = [out |-> a, end |-> b]
    BY <1>1, <1>3 DEF Unrolled
  <2> HIDE DEF a, b
  <2>2. f[s].out = a /\ f[s].end = b
    BY <2>1
  <2> QED
    BY <2>2 DEF a, b
<1> QED
  BY <1>2, <1>3 DEF Unrolling

-----------------------------------------------------------------------------
(* Slices.                                                                 *)

\* The bytes between two offsets.
LEMMA SliceIs ==
  ASSUME NEW S, NEW t \in Seq(S), NEW a \in 0 .. Len(t), NEW b \in a .. Len(t)
  PROVE  /\ Slice(t, a, b) \in Seq(S) /\ Len(Slice(t, a, b)) = b - a
         /\ \A i \in 1 .. b - a : Slice(t, a, b)[i] = t[a + i]
<1>1. Len(t) \in Nat /\ \A i \in 1 .. Len(t) : t[i] \in S
  BY ElementOfSeq, LenProperties
<1>2. a + 1 \in Int /\ b \in Int /\ \A i \in a + 1 .. b : t[i] \in S
  BY <1>1
<1>3. /\ SubSeq(t, a + 1, b) \in Seq(S)
      /\ Len(SubSeq(t, a + 1, b)) = IF a + 1 <= b THEN b - (a + 1) + 1 ELSE 0
      /\ \A i \in 1 .. b - (a + 1) + 1 :
           SubSeq(t, a + 1, b)[i] = t[a + 1 + i - 1]
  BY <1>2, SubSeqProperties
<1> QED
  BY <1>1, <1>3 DEF Slice

\* Nothing lies between an offset and itself.
LEMMA SliceEmpty ==
  ASSUME NEW t, NEW a \in Nat
  PROVE  Slice(t, a, a) = <<>>
  BY SubSeqEmpty DEF Slice

\* Slices that meet make one.
LEMMA SliceJoin ==
  ASSUME NEW S, NEW t \in Seq(S), NEW a \in 0 .. Len(t), NEW b \in a .. Len(t),
         NEW c \in b .. Len(t)
  PROVE  Slice(t, a, b) \o Slice(t, b, c) = Slice(t, a, c)
<1>1. Len(t) \in Nat
  BY LenProperties
<1>2. a + 1 \in 1 .. Len(t) + 1 /\ b \in (a + 1) - 1 .. Len(t)
  BY <1>1
<1> QED
  BY <1>2, ConcatAdjacentSubSeq DEF Slice

\* A slice of a slice.
LEMMA SliceOfSlice ==
  ASSUME NEW S, NEW t \in Seq(S), NEW c \in 0 .. Len(t), NEW e \in c .. Len(t),
         NEW i \in 0 .. e - c, NEW j \in i .. e - c
  PROVE  Slice(Slice(t, c, e), i, j) = Slice(t, c + i, c + j)
<1>1. Len(t) \in Nat
  BY LenProperties
<1> DEFINE d == Slice(t, c, e)
           x == Slice(d, i, j)
           y == Slice(t, c + i, c + j)
<1>2. /\ d \in Seq(S) /\ Len(d) = e - c
      /\ \A k \in 1 .. e - c : d[k] = t[c + k]
  BY SliceIs
<1> HIDE DEF d
<1>3. i \in 0 .. Len(d) /\ j \in i .. Len(d)
  BY <1>1, <1>2
<1>4. x \in Seq(S) /\ Len(x) = j - i /\ \A k \in 1 .. j - i : x[k] = d[i + k]
  BY <1>2, <1>3, SliceIs, ZenonT(60)
<1>5. c + i \in 0 .. Len(t) /\ c + j \in c + i .. Len(t)
  BY <1>1
<1>6. /\ y \in Seq(S) /\ Len(y) = (c + j) - (c + i)
      /\ \A k \in 1 .. (c + j) - (c + i) : y[k] = t[(c + i) + k]
  BY <1>5, SliceIs
<1> HIDE DEF x, y
<1>7. (c + j) - (c + i) = j - i
  OBVIOUS
<1>8. ASSUME NEW k \in 1 .. j - i PROVE x[k] = y[k]
  <2>1. i + k \in 1 .. e - c /\ c + (i + k) = (c + i) + k
    BY <1>1
  <2> QED
    BY <1>2, <1>4, <1>6, <1>7, <2>1
<1>9. x = y
  BY <1>4, <1>6, <1>7, <1>8, SeqEqual
<1> QED
  BY <1>9 DEF x, y, d

\* The whole of it.
LEMMA SliceAll ==
  ASSUME NEW S, NEW t \in Seq(S)
  PROVE  Slice(t, 0, Len(t)) = t
  BY SubSeqFull DEF Slice

-----------------------------------------------------------------------------
(* The text that is meant to come out.                                     *)

\* old begins at offset i of t.
Begins(t, old, i) ==
  i + Len(old) <= Len(t) /\ \A j \in DOMAIN old : t[i + j] = old[j]

\* Rules that can be looked for in a stream: none is empty, of two of them
\* only one matches at a place, and no two differ much in length.  A rule that
\* is longer by two could begin in the bytes held back for it and be
\* overtaken by the shorter one.
Fit(rs, S) ==
  /\ Len(rs) \in Nat /\ DOMAIN rs = 1 .. Len(rs)
  /\ \A r \in DOMAIN rs :
       /\ rs[r].old \in Seq(S) /\ rs[r].new \in Seq(S)
       /\ Len(rs[r].old) >= 1
  /\ \A r, q \in DOMAIN rs :
       /\ Len(rs[r].old) <= Len(rs[q].old) + 1
       /\ r # q => \E j \in DOMAIN rs[r].old \cap DOMAIN rs[q].old :
                     rs[r].old[j] # rs[q].old[j]

\* A match lies within the text.
LEMMA MatchEnds ==
  ASSUME NEW S, NEW rs, Fit(rs, S), NEW t \in Seq(S), NEW i \in Nat,
         NEW r \in DOMAIN rs, Begins(t, rs[r].old, i)
  PROVE  i + Len(rs[r].old) \in i + 1 .. Len(t)
<1>1. rs[r].old \in Seq(S) /\ Len(rs[r].old) >= 1
  BY DEF Fit
<1>2. Len(rs[r].old) \in Nat /\ Len(t) \in Nat
  BY <1>1, LenProperties
<1>3. i + Len(rs[r].old) <= Len(t)
  BY DEF Begins
<1> QED
  BY <1>1, <1>2, <1>3

\* Only one rule matches at a place.
LEMMA MatchUnique ==
  ASSUME NEW S, NEW rs, Fit(rs, S), NEW t, NEW i,
         NEW r \in DOMAIN rs, Begins(t, rs[r].old, i),
         NEW q \in DOMAIN rs, Begins(t, rs[q].old, i)
  PROVE  r = q
<1> SUFFICES ASSUME r # q PROVE FALSE
  OBVIOUS
<1>1. PICK j \in DOMAIN rs[r].old \cap DOMAIN rs[q].old :
             rs[r].old[j] # rs[q].old[j]
  BY DEF Fit
<1> QED
  BY <1>1 DEF Begins

\* w[i] is what becomes of t from offset i on.
Clean(t, rs, S, w) ==
  /\ w \in [0 .. Len(t) -> Seq(S)]
  /\ w[Len(t)] = <<>>
  /\ \A i \in 0 .. Len(t) : \A r \in DOMAIN rs :
       Begins(t, rs[r].old, i) =>
         w[i] = rs[r].new \o w[i + Len(rs[r].old)]
  /\ \A i \in 0 .. Len(t) - 1 :
       (\A r \in DOMAIN rs : ~Begins(t, rs[r].old, i)) =>
         w[i] = Slice(t, i, i + 1) \o w[i + 1]

LEMMA CleanExists ==
  ASSUME NEW S, NEW rs, Fit(rs, S), NEW t \in Seq(S)
  PROVE  \E w : Clean(t, rs, S, w)
<1> DEFINE n == Len(t)
           Some(s) == \E r \in DOMAIN rs : Begins(t, rs[r].old, s)
           rule(s) == CHOOSE r \in DOMAIN rs : Begins(t, rs[r].old, s)
           halt == {n}
           base == [s \in 0 .. n |-> [out |-> <<>>, end |-> s]]
           pre == [s \in 0 .. n |-> IF Some(s) THEN rs[rule(s)].new
                                    ELSE Slice(t, s, s + 1)]
           nxt == [s \in 0 .. n |-> IF Some(s) THEN s + Len(rs[rule(s)].old)
                                    ELSE s + 1]
<1>1. n \in Nat
  BY LenProperties
<1>2. ASSUME NEW s \in 0 .. n, Some(s)
      PROVE  /\ rule(s) \in DOMAIN rs /\ Begins(t, rs[rule(s)].old, s)
             /\ s + Len(rs[rule(s)].old) \in s + 1 .. n
             /\ s # n
  <2>1. rule(s) \in DOMAIN rs /\ Begins(t, rs[rule(s)].old, s)
    BY <1>2
  <2>2. s + Len(rs[rule(s)].old) \in s + 1 .. n
    <3> HIDE DEF rule
    <3> QED
      BY <1>1, <2>1, MatchEnds
  <2> QED
    BY <1>1, <2>1, <2>2
<1> HIDE DEF rule
<1>3. \A s \in 0 .. n : s \in halt \/ nxt[s] \in s + 1 .. n
  <2> SUFFICES ASSUME NEW s \in 0 .. n, s # n PROVE nxt[s] \in s + 1 .. n
    OBVIOUS
  <2>1. CASE Some(s)
    BY <1>2, <2>1
  <2>2. CASE ~Some(s)
    BY <1>1, <2>2
  <2> QED
    BY <2>1, <2>2
<1>4. PICK f : IsUnrolled(n, halt, base, pre, nxt, f)
  <2> HIDE DEF halt, base, pre, nxt, n
  <2> QED
    BY <1>1, <1>3, Unrolls
<1> DEFINE w == [s \in 0 .. n |-> f[s].out]
<1>5. ASSUME NEW s \in 0 .. n
      PROVE  /\ s \in halt => f[s] = base[s]
             /\ s \notin halt => f[s].out = pre[s] \o f[nxt[s]].out
  <2> HIDE DEF halt, base, pre, nxt, n
  <2>1. Unrolling(halt, base, pre, nxt, f, s)
    BY <1>4, UnrolledAt
  <2> QED
    BY <2>1 DEF Unrolling
<1>6. w[n] = <<>>
  <2>1. n \in 0 .. n /\ n \in halt /\ base[n].out = <<>>
    BY <1>1
  <2> HIDE DEF halt, base, pre, nxt, n
  <2> QED
    BY <1>5, <2>1
<1>7. ASSUME NEW s \in 0 .. n, s # n
      PROVE  w[s] = pre[s] \o w[nxt[s]]
  <2>1. s \notin halt
    BY <1>7
  <2>2. nxt[s] \in 0 .. n
    <3>1. nxt[s] \in s + 1 .. n
      BY <1>3, <2>1
    <3> HIDE DEF nxt
    <3> QED
      BY <1>1, <3>1
  <2> HIDE DEF halt, base, pre, nxt, n
  <2> QED
    BY <1>5, <2>1, <2>2
<1>8. \A s \in 0 .. n : pre[s] \in Seq(S) \/ s = n
  <2> SUFFICES ASSUME NEW s \in 0 .. n, s # n PROVE pre[s] \in Seq(S)
    OBVIOUS
  <2>1. CASE Some(s)
    <3>1. pre[s] = rs[rule(s)].new /\ rule(s) \in DOMAIN rs
      BY <1>2, <2>1
    <3> QED
      BY <3>1 DEF Fit
  <2>2. CASE ~Some(s)
    <3>1. pre[s] = Slice(t, s, s + 1)
      BY <2>2
    <3>2. s \in 0 .. Len(t) /\ s + 1 \in s .. Len(t)
      BY <1>1
    <3> QED
      BY <3>1, <3>2, SliceIs
  <2> QED
    BY <2>1, <2>2
<1>9. \A s \in 0 .. n : w[s] \in Seq(S)
  <2> DEFINE Bad == {m \in 0 .. n : w[n - m] \notin Seq(S)}
  <2>1. Bad = {}
    <3> SUFFICES ASSUME Bad # {} PROVE FALSE
      OBVIOUS
    <3>1. Bad \in SUBSET Nat
      OBVIOUS
    <3>2. PICK m \in Bad : \A x \in Bad : m <= x
      <4> HIDE DEF Bad
      <4> QED
        BY <3>1, LeastElement
    <3> DEFINE s == n - m
    <3>3. m \in 0 .. n /\ s \in 0 .. n /\ w[s] \notin Seq(S)
      BY <1>1
    <3>4. s # n
      BY <1>6, <3>3, EmptySeq
    <3> HIDE DEF w, pre, halt, base
    <3>5. nxt[s] \in s + 1 .. n
      BY <1>3, <3>3, <3>4 DEF halt
    <3> DEFINE x == nxt[s]
    <3> HIDE DEF nxt
    <3>6. n - x \in 0 .. n /\ n - x < m /\ n - (n - x) = x
      <4>1. x \in s + 1 .. n
        BY <3>5
      <4> HIDE DEF x
      <4> QED
        BY <1>1, <3>3, <4>1
    <3>7. w[x] \in Seq(S)
      <4>1. n - x \notin Bad
        <5> HIDE DEF Bad, x
        <5> QED
          BY <1>1, <3>2, <3>3, <3>6
      <4> HIDE DEF x
      <4> QED
        BY <3>6, <4>1
    <3>8. pre[s] \in Seq(S)
      BY <1>8, <3>3, <3>4
    <3>9. w[s] = pre[s] \o w[x]
      BY <1>7, <3>3, <3>4
    <3> HIDE DEF s, x
    <3> QED
      BY <3>3, <3>7, <3>8, <3>9, ConcatProperties
  <2> SUFFICES ASSUME NEW s \in 0 .. n PROVE w[s] \in Seq(S)
    OBVIOUS
  <2>2. n - s \in 0 .. n /\ n - (n - s) = s
    BY <1>1
  <2> HIDE DEF w
  <2> QED
    BY <2>1, <2>2
<1>10. w \in [0 .. n -> Seq(S)]
  BY <1>9
<1>11. ASSUME NEW i \in 0 .. n, NEW r \in DOMAIN rs,
              Begins(t, rs[r].old, i)
       PROVE  w[i] = rs[r].new \o w[i + Len(rs[r].old)]
  <2>1. Some(i)
    BY <1>11
  <2>2. rule(i) = r /\ i # n
    BY <1>2, <1>11, <2>1, MatchUnique
  <2>3. pre[i] = rs[r].new /\ nxt[i] = i + Len(rs[r].old)
    BY <2>1, <2>2
  <2> HIDE DEF w, pre, nxt
  <2> QED
    BY <1>7, <2>2, <2>3
<1>12. ASSUME NEW i \in 0 .. n - 1,
              \A r \in DOMAIN rs : ~Begins(t, rs[r].old, i)
       PROVE  w[i] = Slice(t, i, i + 1) \o w[i + 1]
  <2>1. i \in 0 .. n /\ i # n /\ ~Some(i)
    BY <1>1, <1>12
  <2>2. pre[i] = Slice(t, i, i + 1) /\ nxt[i] = i + 1
    BY <2>1
  <2> HIDE DEF w, pre, nxt
  <2> QED
    BY <1>7, <2>1, <2>2
<1> HIDE DEF w
<1> QED
  BY <1>6, <1>10, <1>11, <1>12 DEF Clean

\* No match begins between a and b.
Bare(t, rs, a, b) ==
  \A i \in a .. b - 1 : \A r \in DOMAIN rs : ~Begins(t, rs[r].old, i)

\* What lies between a and b stays as it is.
Kept(t, w, a, b) == w[a] = Slice(t, a, b) \o w[b]

\* Where nothing matches, the text stays.
LEMMA Skip ==
  ASSUME NEW S, NEW rs, NEW t \in Seq(S), NEW w, Clean(t, rs, S, w),
         NEW a \in 0 .. Len(t), NEW b \in a .. Len(t), Bare(t, rs, a, b)
  PROVE  Kept(t, w, a, b)
<1>1. Len(t) \in Nat /\ a \in Nat /\ b \in Nat /\ b - a \in Nat
  BY LenProperties
<1>2. \A i \in 0 .. Len(t) : w[i] \in Seq(S)
  BY SMTT(60) DEF Clean
<1> DEFINE Bad == {m \in 0 .. b - a : w[a] # Slice(t, a, a + m) \o w[a + m]}
<1>3. Bad = {}
  <2> SUFFICES ASSUME Bad # {} PROVE FALSE
    OBVIOUS
  <2>1. Bad \in SUBSET Nat
    <3>1. Bad \subseteq 0 .. b - a
      OBVIOUS
    <3> HIDE DEF Bad
    <3> QED
      BY <1>1, <3>1
  <2>2. PICK m \in Bad : \A x \in Bad : m <= x
    <3> HIDE DEF Bad
    <3> QED
      BY <2>1, LeastElement
  <2>3. m \in 0 .. b - a /\ w[a] # Slice(t, a, a + m) \o w[a + m]
    OBVIOUS
  <2>4. m # 0
    <3>1. Slice(t, a, a) = <<>> /\ a + 0 = a /\ w[a] \in Seq(S)
      BY <1>1, <1>2, SliceEmpty
    <3>2. <<>> \o w[a] = w[a]
      BY <3>1, ConcatEmptySeq
    <3> QED
      BY <2>3, <3>1, <3>2
  <2> DEFINE k == m - 1
             c == a + k
  <2>5. k \in 0 .. b - a /\ k < m
    BY <1>1, <2>3, <2>4
  <2>6. w[a] = Slice(t, a, c) \o w[c]
    <3>1. k \notin Bad
      <4> HIDE DEF Bad, k
      <4> QED
        BY <1>1, <2>2, <2>3, <2>5
    <3> HIDE DEF k
    <3> QED
      BY <2>5, <3>1
  <2>7. /\ c \in a .. b - 1 /\ c \in 0 .. Len(t) - 1 /\ c + 1 = a + m
        /\ c \in a .. Len(t) /\ c + 1 \in c .. Len(t) /\ c + 1 \in 0 .. Len(t)
        /\ c \in 0 .. Len(t)
    BY <1>1, <2>3, <2>4
  <2> HIDE DEF c, k
  <2>8. w[c] = Slice(t, c, c + 1) \o w[c + 1]
    BY <2>7 DEF Clean, Bare
  <2>9. /\ Slice(t, a, c) \in Seq(S) /\ Slice(t, c, c + 1) \in Seq(S)
        /\ w[c + 1] \in Seq(S)
    BY <1>2, <2>7, SliceIs
  <2>10. Slice(t, a, c) \o Slice(t, c, c + 1) = Slice(t, a, c + 1)
    BY <2>7, SliceJoin
  <2>11. (Slice(t, a, c) \o Slice(t, c, c + 1)) \o w[c + 1]
           = Slice(t, a, c) \o (Slice(t, c, c + 1) \o w[c + 1])
    <3> DEFINE x == Slice(t, a, c)
               y == Slice(t, c, c + 1)
               z == w[c + 1]
    <3> HIDE DEF x, y, z
    <3>1. x \in Seq(S) /\ y \in Seq(S) /\ z \in Seq(S)
      BY <2>9 DEF x, y, z
    <3>2. (x \o y) \o z = x \o (y \o z)
      BY <3>1, ConcatAssociative, SMTT(60)
    <3> QED
      BY <3>2 DEF x, y, z
  <2> QED
    BY <2>3, <2>6, <2>7, <2>8, <2>10, <2>11
<1>4. b - a \in 0 .. b - a /\ a + (b - a) = b
  BY <1>1
<1> QED
  BY <1>3, <1>4 DEF Kept

-----------------------------------------------------------------------------
(* writeRewritten.                                                         *)

Hits(data, rs, s) ==
  UNION {{<<i, r>> : i \in Matches(data, rs[r].old, s)} :
           r \in DOMAIN rs}

FirstHit(data, rs, s) ==
  CHOOSE h \in Hits(data, rs, s) : \A g \in Hits(data, rs, s) :
    h[1] < g[1] \/ (h[1] = g[1] /\ h[2] <= g[2])

Written(data, rs, keep, final, write, s) ==
  IF Hits(data, rs, s) = {}
    THEN LET end == EndOf(data, s, keep, final)
         IN [out |-> Slice(data, s, end), end |-> end]
    ELSE LET h == FirstHit(data, rs, s)
             rest == write[h[1] + Len(rs[h[2]].old)]
         IN [out |-> Slice(data, s, h[1]) \o rs[h[2]].new \o rest.out,
             end |-> rest.end]

IsWrite(data, rs, keep, final, write) ==
  write = [s \in 0 .. Len(data) |->
             Written(data, rs, keep, final, write, s)]

\* What a hit is.
LEMMA HitIs ==
  ASSUME NEW S, NEW rs, Fit(rs, S), NEW data \in Seq(S),
         NEW s \in 0 .. Len(data)
  PROVE  /\ \A h \in Hits(data, rs, s) : \E i, r : h = <<i, r>>
         /\ \A i, r : <<i, r>> \in Hits(data, rs, s) <=>
              /\ r \in DOMAIN rs /\ i \in Nat /\ s <= i
              /\ Begins(data, rs[r].old, i)
<1>1. Len(data) \in Nat
  BY LenProperties
<1>2. \A h \in Hits(data, rs, s) : \E i, r : h = <<i, r>>
  BY DEF Hits
<1>3. ASSUME NEW i, NEW r
      PROVE  <<i, r>> \in Hits(data, rs, s) <=>
               r \in DOMAIN rs /\ i \in Matches(data, rs[r].old, s)
  BY DEF Hits
<1>4. ASSUME NEW i, NEW r \in DOMAIN rs
      PROVE  i \in Matches(data, rs[r].old, s) <=>
               i \in Nat /\ s <= i /\ Begins(data, rs[r].old, i)
  <2>1. Len(rs[r].old) \in Nat
    <3>1. rs[r].old \in Seq(S)
      BY DEF Fit
    <3> QED
      BY <3>1, LenProperties
  <2> DEFINE l == Len(rs[r].old)
             n == Len(data)
  <2>2. i \in s .. n - l <=> i \in Nat /\ s <= i /\ i + l <= n
    <3>1. l \in Nat /\ n \in Nat /\ s \in Nat
      BY <1>1, <2>1
    <3> HIDE DEF l, n
    <3> QED
      BY <3>1
  <2> QED
    BY <2>2 DEF Matches, Begins
<1> QED
  BY <1>2, <1>3, <1>4

\* The first hit: nothing matches before it.
LEMMA FirstHitIs ==
  ASSUME NEW S, NEW rs, Fit(rs, S), NEW data \in Seq(S),
         NEW s \in 0 .. Len(data), Hits(data, rs, s) # {}
  PROVE  \E i \in s .. Len(data), r \in DOMAIN rs :
           /\ FirstHit(data, rs, s) = <<i, r>>
           /\ Begins(data, rs[r].old, i)
           /\ \A j \in s .. i - 1 : \A q \in DOMAIN rs :
                ~Begins(data, rs[q].old, j)
<1> DEFINE H == Hits(data, rs, s)
           P == {i \in Nat : \E r : <<i, r>> \in H}
<1>1. /\ \A h \in H : \E i, r : h = <<i, r>>
      /\ \A i, r : <<i, r>> \in H <=>
           /\ r \in DOMAIN rs /\ i \in Nat /\ s <= i
           /\ Begins(data, rs[r].old, i)
  BY HitIs
<1>2. PICK h0 \in H : TRUE
  OBVIOUS
<1>3. PICK i0, r0 : h0 = <<i0, r0>>
  BY <1>1
<1> HIDE DEF H
<1>4. P # {} /\ P \in SUBSET Nat
  BY <1>1, <1>2, <1>3
<1>5. PICK i \in P : \A x \in P : i <= x
  <2> HIDE DEF P
  <2> QED
    BY <1>4, LeastElement
<1> DEFINE R == {r \in DOMAIN rs : <<i, r>> \in H}
<1>6. R # {} /\ R \in SUBSET Nat
  <2>1. PICK r1 : <<i, r1>> \in H
    BY <1>5
  <2>2. r1 \in R
    BY <1>1, <2>1
  <2>3. R \subseteq DOMAIN rs
    OBVIOUS
  <2>4. DOMAIN rs \subseteq Nat
    BY DEF Fit
  <2> HIDE DEF R
  <2> QED
    BY <2>2, <2>3, <2>4
<1>7. PICK r \in R : \A x \in R : r <= x
  <2> HIDE DEF R
  <2> QED
    BY <1>6, LeastElement
<1>8. i \in Nat /\ r \in Nat /\ <<i, r>> \in H
  BY <1>5, <1>6, <1>7
<1>9. ASSUME NEW g \in H
      PROVE  <<i, r>>[1] < g[1] \/ (<<i, r>>[1] = g[1] /\ <<i, r>>[2] <= g[2])
  <2>1. PICK x, q : g = <<x, q>>
    BY <1>1
  <2>2. x \in P /\ q \in DOMAIN rs
    BY <1>1, <2>1
  <2>3. x \in Nat /\ i <= x
    BY <1>5, <2>2
  <2>4. x = i => q \in R
    BY <2>1, <2>2
  <2>5. x = i => r <= q
    BY <1>7, <2>4
  <2> QED
    BY <1>8, <2>1, <2>3, <2>5
<1> DEFINE Least(h) == \A g \in H : h[1] < g[1] \/ (h[1] = g[1] /\ h[2] <= g[2])
<1>10. <<i, r>> \in H /\ Least(<<i, r>>)
  BY <1>8, <1>9
<1>11. FirstHit(data, rs, s) \in H /\ Least(FirstHit(data, rs, s))
  <2> DEFINE h == CHOOSE h \in H : Least(h)
  <2>1. h \in H /\ Least(h)
    BY <1>10
  <2>2. FirstHit(data, rs, s) = h
    BY DEF FirstHit, H
  <2> QED
    BY <2>1, <2>2
<1> DEFINE f == FirstHit(data, rs, s)
<1> HIDE DEF f
<1>12. PICK x, q : f = <<x, q>>
  BY <1>1, <1>11 DEF f
<1>13. /\ x \in Nat /\ s <= x /\ q \in DOMAIN rs
       /\ Begins(data, rs[q].old, x)
  BY <1>1, <1>11, <1>12 DEF f
<1>14. x \in s .. Len(data)
  <2>1. x + Len(rs[q].old) \in x + 1 .. Len(data) /\ Len(data) \in Nat
    BY <1>13, MatchEnds, LenProperties
  <2> DEFINE l == x + Len(rs[q].old)
  <2> HIDE DEF l
  <2>2. l \in x + 1 .. Len(data)
    BY <2>1 DEF l
  <2> QED
    BY <1>13, <2>1, <2>2
<1>15. ASSUME NEW j \in s .. x - 1, NEW p \in DOMAIN rs,
              Begins(data, rs[p].old, j)
       PROVE  FALSE
  <2>1. j \in Nat /\ s <= j /\ j < x
    BY <1>13
  <2>2. <<j, p>> \in H
    BY <1>1, <1>15, <2>1
  <2>3. f[1] < <<j, p>>[1] \/ f[1] = <<j, p>>[1]
    BY <1>11, <2>2 DEF f
  <2> QED
    BY <1>12, <1>13, <2>1, <2>3
<1> QED
  BY <1>12, <1>13, <1>14, <1>15 DEF f

\* The search goes on behind a match until there is none, so writeRewritten
\* returns.
LEMMA WriteExists ==
  ASSUME NEW S, NEW rs, Fit(rs, S), NEW data \in Seq(S), NEW keep,
         NEW final
  PROVE  \E write : IsWrite(data, rs, keep, final, write)
<1> DEFINE n == Len(data)
           h(s) == FirstHit(data, rs, s)
           e(s) == EndOf(data, s, keep, final)
           halt == {s \in 0 .. n : Hits(data, rs, s) = {}}
           base == [s \in 0 .. n |-> [out |-> Slice(data, s, e(s)),
                                      end |-> e(s)]]
           pre == [s \in 0 .. n |-> Slice(data, s, h(s)[1])
                                      \o rs[h(s)[2]].new]
           nxt == [s \in 0 .. n |-> h(s)[1] + Len(rs[h(s)[2]].old)]
<1>1. n \in Nat
  BY LenProperties
<1>2. \A s \in 0 .. n : s \in halt \/ nxt[s] \in s + 1 .. n
  <2> SUFFICES ASSUME NEW s \in 0 .. n, s \notin halt
               PROVE  nxt[s] \in s + 1 .. n
    OBVIOUS
  <2>1. PICK i \in s .. Len(data), r \in DOMAIN rs :
          /\ FirstHit(data, rs, s) = <<i, r>>
          /\ Begins(data, rs[r].old, i)
    BY FirstHitIs
  <2>2. i \in Nat /\ s <= i
    BY <1>1
  <2>3. i + Len(rs[r].old) \in i + 1 .. n
    BY <2>1, <2>2, MatchEnds
  <2>4. nxt[s] = i + Len(rs[r].old)
    BY <2>1
  <2> DEFINE x == i + Len(rs[r].old)
  <2> HIDE DEF x
  <2>5. x \in i + 1 .. n /\ nxt[s] = x
    BY <2>3, <2>4 DEF x
  <2> HIDE DEF nxt, n
  <2>6. x \in s + 1 .. n
    BY <1>1, <2>2, <2>5
  <2> QED
    BY <2>5, <2>6
<1>3. PICK f : IsUnrolled(n, halt, base, pre, nxt, f)
  <2> HIDE DEF halt, base, pre, nxt, n
  <2> QED
    BY <1>1, <1>2, Unrolls
<1>4. ASSUME NEW s \in 0 .. n
      PROVE  Unrolled(halt, base, pre, nxt, f, s)
               = Written(data, rs, keep, final, f, s)
  <2>1. CASE Hits(data, rs, s) = {}
    BY <2>1 DEF Unrolled, Written
  <2>2. CASE Hits(data, rs, s) # {}
    BY <2>2 DEF Unrolled, Written
  <2> QED
    BY <2>1, <2>2, SMTT(60)
<1>5. f = [s \in 0 .. n |-> Unrolled(halt, base, pre, nxt, f, s)]
  <2> HIDE DEF halt, base, pre, nxt
  <2> QED
    BY <1>3 DEF IsUnrolled
<1>6. f = [s \in 0 .. n |-> Written(data, rs, keep, final, f, s)]
  <2> HIDE DEF halt, base, pre, nxt
  <2> QED
    BY <1>4, <1>5, Zenon
<1> QED
  BY <1>6 DEF IsWrite

\* How it goes: up to the first match, the replacement, and on behind it; or
\* to the end.
Runs(data, rs, keep, final, write, s) ==
  \/ /\ \A j \in s .. Len(data) : \A q \in DOMAIN rs :
          ~Begins(data, rs[q].old, j)
     /\ write[s].end = EndOf(data, s, keep, final)
     /\ write[s].out = Slice(data, s, EndOf(data, s, keep, final))
  \/ \E i \in s .. Len(data), r \in DOMAIN rs :
       /\ Begins(data, rs[r].old, i)
       /\ \A j \in s .. i - 1 : \A q \in DOMAIN rs :
            ~Begins(data, rs[q].old, j)
       /\ write[s].out = (Slice(data, s, i) \o rs[r].new)
                           \o write[i + Len(rs[r].old)].out
       /\ write[s].end = write[i + Len(rs[r].old)].end

LEMMA WriteRuns ==
  ASSUME NEW S, NEW rs, Fit(rs, S), NEW data \in Seq(S), NEW keep,
         NEW final
  PROVE  \E write :
           /\ writeRewritten(data, rs, keep, final) = write[0]
           /\ \A s \in 0 .. Len(data) :
                Runs(data, rs, keep, final, write, s)
<1>1. Len(data) \in Nat
  BY LenProperties
<1> DEFINE write == CHOOSE write : IsWrite(data, rs, keep, final, write)
<1>2. IsWrite(data, rs, keep, final, write)
  BY WriteExists
<1>3. writeRewritten(data, rs, keep, final) = write[0]
  BY DEF writeRewritten, IsWrite, Written, Hits, FirstHit
<1> HIDE DEF write
<1>4. ASSUME NEW s \in 0 .. Len(data)
      PROVE  Runs(data, rs, keep, final, write, s)
  <2>1. write[s] = Written(data, rs, keep, final, write, s)
    BY <1>2, Zenon DEF IsWrite
  <2>2. CASE Hits(data, rs, s) = {}
    <3> DEFINE end == EndOf(data, s, keep, final)
               text == Slice(data, s, end)
    <3>1. write[s] = [out |-> text, end |-> end]
      BY <2>1, <2>2 DEF Written
    <3>2. ASSUME NEW j \in s .. Len(data), NEW q \in DOMAIN rs
          PROVE  ~Begins(data, rs[q].old, j)
      <4>1. j \in Nat /\ s <= j
        BY <1>1
      <4>2. <<j, q>> \notin Hits(data, rs, s)
        BY <2>2
      <4> QED
        BY <4>1, <4>2, HitIs
    <3> HIDE DEF end, text
    <3>3. write[s].out = text /\ write[s].end = end
      BY <3>1, SMTT(60)
    <3> QED
      BY <3>2, <3>3 DEF Runs, end, text
  <2>3. CASE Hits(data, rs, s) # {}
    <3>1. PICK i \in s .. Len(data), r \in DOMAIN rs :
            /\ FirstHit(data, rs, s) = <<i, r>>
            /\ Begins(data, rs[r].old, i)
            /\ \A j \in s .. i - 1 : \A q \in DOMAIN rs :
                 ~Begins(data, rs[q].old, j)
      BY <2>3, FirstHitIs
    <3> DEFINE rest == write[i + Len(rs[r].old)]
               text == (Slice(data, s, i) \o rs[r].new) \o rest.out
               end == rest.end
    <3>2. write[s] = [out |-> text, end |-> end]
      BY <2>1, <2>3, <3>1 DEF Written
    <3> HIDE DEF text, end
    <3>3. write[s].out = text /\ write[s].end = end
      BY <3>2
    <3> QED
      BY <3>1, <3>3 DEF Runs, text, end
  <2> QED
    BY <2>2, <2>3
<1> QED
  BY <1>3, <1>4

\* Three pieces, put together from either side.
Regrouped(p, q, v) == (p \o q) \o v = p \o (q \o v)

LEMMA ConcatThree ==
  ASSUME NEW S, NEW p \in Seq(S), NEW q \in Seq(S), NEW v \in Seq(S)
  PROVE  Regrouped(p, q, v)
  BY ConcatAssociative, SMTT(60) DEF Regrouped

\* Four pieces, put together from either side.
Joined(p, q, u, v) == ((p \o q) \o u) \o v = p \o (q \o (u \o v))

LEMMA ConcatFour ==
  ASSUME NEW S, NEW p \in Seq(S), NEW q \in Seq(S), NEW u \in Seq(S),
         NEW v \in Seq(S)
  PROVE  Joined(p, q, u, v)
<1> DEFINE pq == p \o q
           uv == u \o v
<1>1. pq \in Seq(S) /\ uv \in Seq(S)
  BY ConcatProperties
<1> HIDE DEF pq, uv
<1>2. Regrouped(pq, u, v) /\ Regrouped(p, q, uv)
  BY <1>1, ConcatThree
<1>3. (pq \o u) \o v = pq \o uv
  BY <1>2, Zenon DEF Regrouped, uv
<1>4. pq \o uv = p \o (q \o uv)
  BY <1>2, Zenon DEF Regrouped, pq
<1> QED
  BY <1>3, <1>4, Zenon DEF Joined, pq, uv

\* The matches in a piece of the text are those that lie in it.
LEMMA MatchInPiece ==
  ASSUME NEW S, NEW t \in Seq(S), NEW c \in 0 .. Len(t), NEW e \in c .. Len(t),
         NEW old \in Seq(S), NEW j \in Nat
  PROVE  Begins(Slice(t, c, e), old, j) <=>
           Begins(t, old, c + j) /\ c + j + Len(old) <= e
<1> DEFINE d == Slice(t, c, e)
           l == Len(old)
<1>1. /\ Len(t) \in Nat /\ l \in Nat /\ DOMAIN old = 1 .. l
      /\ c \in Nat /\ e \in Nat /\ c <= e /\ e <= Len(t)
  BY LenProperties
<1>2. Len(d) = e - c /\ \A k \in 1 .. e - c : d[k] = t[c + k]
  BY SliceIs
<1> HIDE DEF d, l
<1>3. j + l <= e - c <=> c + j + l <= e
  BY <1>1
<1>4. c + j + l <= e => c + j + l <= Len(t)
  BY <1>1
<1>5. ASSUME c + j + l <= e, NEW k \in 1 .. l
      PROVE  d[j + k] = t[(c + j) + k]
  <2>1. j + k \in 1 .. e - c /\ c + (j + k) = (c + j) + k
    BY <1>1, <1>5
  <2> QED
    BY <1>2, <2>1
<1>6. Begins(d, old, j) <=>
        j + l <= e - c /\ \A k \in 1 .. l : d[j + k] = old[k]
  BY <1>1, <1>2 DEF Begins, l
<1>7. Begins(t, old, c + j) <=>
        c + j + l <= Len(t) /\ \A k \in 1 .. l : t[(c + j) + k] = old[k]
  BY <1>1 DEF Begins, l
<1>8. Begins(d, old, j) <=> Begins(t, old, c + j) /\ c + j + l <= e
  BY <1>3, <1>4, <1>5, <1>6, <1>7
<1> QED
  BY <1>8 DEF d, l

\* What a call of writeRewritten may return for the bytes of t from c to e.
Good(t, w, S, c, e, keep, final, s, done) ==
  /\ done.end \in s .. e - c /\ done.out \in Seq(S)
  /\ done.out \o w[c + done.end] = w[c + s]
  /\ ~final => (e - c) - done.end <= keep
  /\ final => done.end = e - c

\* However the text is cut, nothing of it is lost, repeated or left as it was.
LEMMA Chunk ==
  ASSUME NEW S, NEW rs, Fit(rs, S), NEW t \in Seq(S), NEW w,
         Clean(t, rs, S, w), NEW c \in 0 .. Len(t), NEW e \in c .. Len(t),
         NEW keep \in Nat, \A r \in DOMAIN rs : Len(rs[r].old) - 1 <= keep,
         NEW final \in BOOLEAN, final => e = Len(t)
  PROVE  Good(t, w, S, c, e, keep, final, 0,
              writeRewritten(Slice(t, c, e), rs, keep, final))
<1> DEFINE data == Slice(t, c, e)
           n == e - c
           tail(r) == Len(rs[r].old)
<1>1. /\ Len(t) \in Nat /\ c \in Nat /\ e \in Nat /\ n \in Nat /\ e <= Len(t)
      /\ c + n = e
  BY LenProperties
<1>2. data \in Seq(S) /\ Len(data) = n
  BY SliceIs
<1>3. \A i \in 0 .. Len(t) : w[i] \in Seq(S)
  BY DEF Clean
<1>4. ASSUME NEW r \in DOMAIN rs
      PROVE  /\ rs[r].old \in Seq(S) /\ rs[r].new \in Seq(S)
             /\ tail(r) \in Nat /\ tail(r) >= 1 /\ tail(r) - 1 <= keep
  <2>1. /\ rs[r].old \in Seq(S) /\ rs[r].new \in Seq(S)
        /\ tail(r) >= 1 /\ tail(r) - 1 <= keep
    BY DEF Fit
  <2> QED
    BY <2>1, LenProperties
<1>5. \A r, q \in DOMAIN rs : tail(q) <= tail(r) + 1
  BY DEF Fit
<1>6. ASSUME NEW r \in DOMAIN rs, NEW j \in Nat
      PROVE  Begins(data, rs[r].old, j) <=>
               Begins(t, rs[r].old, c + j) /\ c + j + tail(r) <= e
  BY <1>4, MatchInPiece
<1>7. PICK write :
        /\ writeRewritten(data, rs, keep, final) = write[0]
        /\ \A s \in 0 .. Len(data) : Runs(data, rs, keep, final, write, s)
  <2> HIDE DEF data
  <2> QED
    BY <1>2, WriteRuns
<1> HIDE DEF data, tail
\* A stretch of the piece without a match is one of the text, if a match
\* that begins in it also ends in the piece.
<1>8. ASSUME NEW a \in 0 .. n, NEW b \in a .. n,
             \A j \in a .. b - 1 : \A q \in DOMAIN rs :
               /\ ~Begins(data, rs[q].old, j)
               /\ Begins(t, rs[q].old, c + j) => c + j + tail(q) <= e
      PROVE  /\ w[c + a] = Slice(data, a, b) \o w[c + b]
             /\ Slice(data, a, b) \in Seq(S)
  <2>1. /\ c + a \in 0 .. Len(t) /\ c + b \in c + a .. Len(t)
        /\ a \in 0 .. Len(data) /\ b \in a .. Len(data)
    BY <1>1, <1>2
  <2>2. ASSUME NEW i \in c + a .. (c + b) - 1, NEW q \in DOMAIN rs
        PROVE  ~Begins(t, rs[q].old, i)
    <3> DEFINE j == i - c
    <3>1. j \in a .. b - 1 /\ j \in Nat /\ c + j = i
      BY <1>1
    <3> HIDE DEF j
    <3> QED
      BY <1>6, <1>8, <3>1
  <2>3. w[c + a] = Slice(t, c + a, c + b) \o w[c + b]
    <3> DEFINE x == c + a
               y == c + b
    <3>1. x \in 0 .. Len(t) /\ y \in x .. Len(t)
      BY <2>1
    <3>2. Bare(t, rs, x, y)
      BY <2>2 DEF Bare
    <3> HIDE DEF x, y
    <3>3. Kept(t, w, x, y)
      BY <3>1, <3>2, Skip
    <3> QED
      BY <3>3 DEF Kept, x, y
  <2>4. Slice(data, a, b) = Slice(t, c + a, c + b)
    BY SliceOfSlice DEF data
  <2>5. Slice(data, a, b) \in Seq(S)
    BY <1>2, <2>1, SliceIs
  <2> QED
    BY <2>3, <2>4, <2>5
<1> DEFINE Fine(s) == Good(t, w, S, c, e, keep, final, s, write[s])
<1>9. ASSUME NEW s \in 0 .. n, \A x \in s + 1 .. n : Fine(x)
      PROVE  Fine(s)
  <2>1. Runs(data, rs, keep, final, write, s)
    BY <1>2, <1>7
  <2>2. CASE /\ \A j \in s .. Len(data) : \A q \in DOMAIN rs :
                  ~Begins(data, rs[q].old, j)
             /\ write[s].end = EndOf(data, s, keep, final)
             /\ write[s].out = Slice(data, s, EndOf(data, s, keep, final))
    <3> DEFINE end == EndOf(data, s, keep, final)
    <3>1. /\ end \in s .. n /\ (final => end = n)
          /\ ~final => n - end <= keep /\ (end = s \/ end = n - keep)
      <4>1. CASE final
        BY <1>1, <1>2, <4>1 DEF EndOf
      <4>2. CASE ~final
        <5>1. end = Max({s, n - keep})
          BY <1>2, <4>2 DEF EndOf
        <5> DEFINE k == n - keep
        <5>2. k \in Int /\ s \in Int
          BY <1>1
        <5> HIDE DEF k
        <5>3. Max({s, k}) \in {s, k} /\ Max({s, k}) >= s /\ Max({s, k}) >= k
          BY <5>2, MaxPair
        <5> DEFINE m == Max({s, k})
        <5> HIDE DEF m
        <5>4. m \in {s, k} /\ m >= s /\ m >= k
          BY <5>3 DEF m
        <5>5. m \in s .. n /\ n - m <= keep /\ (m = s \/ m = n - keep)
          BY <1>1, <5>2, <5>4 DEF k
        <5>6. end = m
          BY <5>1 DEF m, k
        <5> HIDE DEF end
        <5> QED
          BY <4>2, <5>5, <5>6
      <4> QED
        BY <4>1, <4>2
    <3> HIDE DEF end
    <3>2. ASSUME NEW j \in s .. end - 1, NEW q \in DOMAIN rs,
                 Begins(t, rs[q].old, c + j)
          PROVE  c + j + tail(q) <= e
      <4>1. j \in Nat /\ tail(q) \in Nat /\ tail(q) - 1 <= keep
        BY <1>4
      <4>2. CASE final
        <5>1. (c + j) + tail(q) <= Len(t)
          BY <3>2 DEF Begins, tail
        <5> QED
          BY <1>1, <4>1, <4>2, <5>1
      <4>3. CASE ~final
        <5>1. end = n - keep \/ end = s
          BY <3>1, <4>3
        <5>2. end = n - keep
          BY <1>1, <3>1, <4>1, <5>1
        <5> QED
          BY <1>1, <4>1, <5>2
      <4> QED
        BY <4>2, <4>3
    <3>3. ASSUME NEW j \in s .. end - 1, NEW q \in DOMAIN rs
          PROVE  ~Begins(data, rs[q].old, j)
      <4>1. j \in s .. Len(data)
        BY <1>1, <1>2, <3>1
      <4> QED
        BY <2>2, <4>1
    <3>4. /\ w[c + s] = Slice(data, s, end) \o w[c + end]
          /\ Slice(data, s, end) \in Seq(S)
      BY <1>8, <3>1, <3>2, <3>3
    <3>5. write[s].end = end /\ write[s].out = Slice(data, s, end)
      BY <2>2 DEF end
    <3> QED
      BY <3>1, <3>4, <3>5 DEF Good
  <2>3. ASSUME NEW i \in s .. Len(data), NEW r \in DOMAIN rs,
               Begins(data, rs[r].old, i),
               \A j \in s .. i - 1 : \A q \in DOMAIN rs :
                 ~Begins(data, rs[q].old, j),
               write[s].out = (Slice(data, s, i) \o rs[r].new)
                                \o write[i + Len(rs[r].old)].out,
               write[s].end = write[i + Len(rs[r].old)].end
        PROVE  Fine(s)
    <3> DEFINE x == i + tail(r)
               end == write[x].end
               rest == write[x].out
    <3>1. i \in Nat /\ i \in s .. n /\ s <= i /\ tail(r) \in Nat
          /\ tail(r) >= 1
      BY <1>1, <1>2, <1>4
    <3>2. Begins(t, rs[r].old, c + i) /\ c + i + tail(r) <= e
      BY <1>6, <2>3, <3>1
    <3>3. /\ x \in s + 1 .. n /\ c + x = (c + i) + tail(r)
          /\ c + i \in 0 .. Len(t) /\ c + x \in 0 .. Len(t)
      BY <1>1, <3>1, <3>2, SMTT(60)
    <3>4. Fine(x)
      <4> HIDE DEF x, Fine
      <4> QED
        BY <1>9, <3>3
    <3>5. ASSUME NEW j \in s .. i - 1, NEW q \in DOMAIN rs
          PROVE  c + j + tail(q) <= e
      <4>1. tail(q) \in Nat /\ tail(q) <= tail(r) + 1
        BY <1>4, <1>5
      <4> QED
        BY <1>1, <3>1, <3>2, <4>1, SMTT(60)
    <3>6. /\ w[c + s] = Slice(data, s, i) \o w[c + i]
          /\ Slice(data, s, i) \in Seq(S)
      BY <1>8, <2>3, <3>1, <3>5
    <3>7. w[c + i] = rs[r].new \o w[c + x]
      <4> DEFINE a == c + i
      <4>1. a \in 0 .. Len(t) /\ Begins(t, rs[r].old, a)
        BY <3>2, <3>3
      <4> HIDE DEF a
      <4>2. w[a] = rs[r].new \o w[a + Len(rs[r].old)]
        BY <4>1 DEF Clean
      <4> QED
        BY <3>3, <4>2 DEF a, tail
    <3> HIDE DEF x
    <3>8. /\ end \in x .. n /\ rest \in Seq(S) /\ rest \o w[c + end] = w[c + x]
          /\ ~final => n - end <= keep
          /\ final => end = n
      BY <3>4 DEF Good
    <3> HIDE DEF end, rest
    <3>9. end \in s .. n /\ c + end \in 0 .. Len(t)
      BY <1>1, <3>1, <3>3, <3>8
    <3>10. /\ write[s].out = (Slice(data, s, i) \o rs[r].new) \o rest
           /\ write[s].end = end
      BY <2>3 DEF rest, end, x, tail
    <3> DEFINE p == Slice(data, s, i)
               q == rs[r].new
               v == w[c + end]
    <3>11. p \in Seq(S) /\ q \in Seq(S) /\ v \in Seq(S)
      BY <1>3, <1>4, <3>6, <3>9
    <3>12. w[c + s] = p \o (q \o (rest \o v))
      BY <3>6, <3>7, <3>8
    <3>13. write[s].out = (p \o q) \o rest
      BY <3>10
    <3> HIDE DEF p, q, v
    <3>14. ((p \o q) \o rest) \o v = p \o (q \o (rest \o v))
      <4>1. rest \in Seq(S)
        BY <3>8
      <4>2. Joined(p, q, rest, v)
        BY <3>11, <4>1, ConcatFour
      <4> QED
        BY <4>2 DEF Joined
    <3>15. p \o q \in Seq(S)
      BY <3>11, ConcatProperties
    <3>16. (p \o q) \o rest \in Seq(S)
      BY <3>8, <3>15, ConcatProperties
    <3>17. write[s].out \in Seq(S) /\ write[s].out \o v = w[c + s]
      BY <3>12, <3>13, <3>14, <3>16
    <3> QED
      BY <3>8, <3>9, <3>10, <3>17 DEF Good, v
  <2> QED
    BY <2>1, <2>2, <2>3 DEF Runs
<1>10. \A s \in 0 .. n : Fine(s)
  <2> HIDE DEF Fine, n
  <2> DEFINE Bad == {m \in 0 .. n : ~Fine(n - m)}
  <2>1. Bad = {}
    <3> SUFFICES ASSUME Bad # {} PROVE FALSE
      OBVIOUS
    <3>1. Bad \in SUBSET Nat
      OBVIOUS
    <3>2. PICK m \in Bad : \A x \in Bad : m <= x
      <4> HIDE DEF Bad
      <4> QED
        BY <3>1, LeastElement
    <3>3. m \in 0 .. n /\ n - m \in 0 .. n /\ ~Fine(n - m)
      BY <1>1
    <3>4. ASSUME NEW x \in (n - m) + 1 .. n PROVE Fine(x)
      <4>1. n - x \in 0 .. n /\ ~(m <= n - x) /\ n - (n - x) = x
        BY <1>1, <3>3
      <4>2. n - x \notin Bad
        <5> HIDE DEF Bad
        <5> QED
          BY <3>2, <4>1
      <4> QED
        BY <4>1, <4>2
    <3> QED
      BY <1>9, <3>3, <3>4
  <2> SUFFICES ASSUME NEW s \in 0 .. n PROVE Fine(s)
    OBVIOUS
  <2>2. n - s \in 0 .. n /\ n - (n - s) = s
    BY <1>1
  <2> QED
    BY <2>1, <2>2
<1>11. 0 \in 0 .. n
  BY <1>1
<1> QED
  BY <1>7, <1>10, <1>11 DEF data

-----------------------------------------------------------------------------
(* What is meant to come out is determined, and so is its rest.            *)

LEMMA CleanUnique ==
  ASSUME NEW S, NEW rs, Fit(rs, S), NEW t \in Seq(S),
         NEW w, Clean(t, rs, S, w), NEW v, Clean(t, rs, S, v),
         NEW k \in 0 .. Len(t)
  PROVE  w[k] = v[k]
<1> DEFINE n == Len(t)
<1>1. n \in Nat
  BY LenProperties
<1>2. ASSUME NEW s \in 0 .. n, \A x \in s + 1 .. n : w[x] = v[x]
      PROVE  w[s] = v[s]
  <2>1. CASE \E r \in DOMAIN rs : Begins(t, rs[r].old, s)
    <3>1. PICK r \in DOMAIN rs : Begins(t, rs[r].old, s)
      BY <2>1
    <3>2. s \in Nat
      BY <1>1
    <3> DEFINE x == s + Len(rs[r].old)
    <3>3. x \in s + 1 .. n
      BY <3>1, <3>2, MatchEnds
    <3>4. w[s] = rs[r].new \o w[x] /\ v[s] = rs[r].new \o v[x]
      BY <3>1 DEF Clean
    <3> HIDE DEF x
    <3> QED
      BY <1>2, <3>3, <3>4
  <2>2. CASE ~\E r \in DOMAIN rs : Begins(t, rs[r].old, s)
    <3>1. CASE s = n
      BY <3>1 DEF Clean
    <3>2. CASE s # n
      <4>1. s \in 0 .. n - 1 /\ s + 1 \in s + 1 .. n
        BY <1>1, <3>2
      <4>2. /\ w[s] = Slice(t, s, s + 1) \o w[s + 1]
            /\ v[s] = Slice(t, s, s + 1) \o v[s + 1]
        BY <2>2, <4>1 DEF Clean
      <4> QED
        BY <1>2, <4>1, <4>2
    <3> QED
      BY <3>1, <3>2
  <2> QED
    BY <2>1, <2>2
<1> DEFINE Bad == {m \in 0 .. n : w[n - m] # v[n - m]}
<1>3. Bad = {}
  <2> SUFFICES ASSUME Bad # {} PROVE FALSE
    OBVIOUS
  <2> HIDE DEF n
  <2>1. Bad \in SUBSET Nat
    OBVIOUS
  <2>2. PICK m \in Bad : \A x \in Bad : m <= x
    <3> HIDE DEF Bad
    <3> QED
      BY <2>1, LeastElement
  <2>3. m \in 0 .. n /\ n - m \in 0 .. n /\ w[n - m] # v[n - m]
    BY <1>1
  <2>4. ASSUME NEW x \in (n - m) + 1 .. n PROVE w[x] = v[x]
    <3>1. n - x \in 0 .. n /\ ~(m <= n - x) /\ n - (n - x) = x
      BY <1>1, <2>3
    <3>2. n - x \notin Bad
      <4> HIDE DEF Bad
      <4> QED
        BY <2>2, <3>1
    <3> QED
      BY <3>1, <3>2
  <2> QED
    BY <1>2, <2>3, <2>4
<1>4. n - k \in 0 .. n /\ n - (n - k) = k
  BY <1>1
<1> HIDE DEF n
<1> QED
  BY <1>3, <1>4

LEMMA CleanRest ==
  ASSUME NEW S, NEW rs, Fit(rs, S), NEW t \in Seq(S),
         NEW w, Clean(t, rs, S, w), NEW k \in 0 .. Len(t)
  PROVE  Clean(Slice(t, k, Len(t)), rs, S,
               [j \in 0 .. Len(t) - k |-> w[k + j]])
<1> DEFINE n == Len(t)
           d == Slice(t, k, n)
           v == [j \in 0 .. n - k |-> w[k + j]]
<1>1. n \in Nat /\ n \in k .. n /\ k \in Nat
  BY LenProperties
<1>2. d \in Seq(S) /\ Len(d) = n - k
  BY <1>1, SliceIs
<1>3. /\ \A i \in 0 .. n : w[i] \in Seq(S)
      /\ w[n] = <<>>
  BY DEF Clean
<1>4. \A j \in 0 .. n - k : k + j \in 0 .. n /\ v[j] = w[k + j]
  BY <1>1
<1>5. ASSUME NEW j \in Nat, NEW r \in DOMAIN rs
      PROVE  Begins(d, rs[r].old, j) <=> Begins(t, rs[r].old, k + j)
  <2>1. rs[r].old \in Seq(S)
    BY DEF Fit
  <2>2. Begins(d, rs[r].old, j) <=>
          Begins(t, rs[r].old, k + j) /\ k + j + Len(rs[r].old) <= n
    BY <1>1, <2>1, MatchInPiece
  <2>3. Begins(t, rs[r].old, k + j) => (k + j) + Len(rs[r].old) <= n
    BY DEF Begins
  <2> QED
    BY <2>2, <2>3
<1> HIDE DEF d
<1>6. v \in [0 .. Len(d) -> Seq(S)]
  BY <1>2, <1>3, <1>4
<1>7. v[Len(d)] = <<>>
  <2>1. n - k \in 0 .. n - k /\ k + (n - k) = n
    BY <1>1
  <2> HIDE DEF v, n
  <2> QED
    BY <1>2, <1>3, <1>4, <2>1
<1>8. ASSUME NEW i \in 0 .. Len(d), NEW r \in DOMAIN rs,
             Begins(d, rs[r].old, i)
      PROVE  v[i] = rs[r].new \o v[i + Len(rs[r].old)]
  <2>1. i \in Nat /\ i \in 0 .. n - k /\ k + i \in 0 .. n
    BY <1>1, <1>2
  <2> DEFINE l == Len(rs[r].old)
             a == k + i
             b == i + l
  <2>2. b \in i + 1 .. n - k
    BY <1>2, <1>8, <2>1, MatchEnds
  <2>3. l \in Nat
    BY LenProperties DEF Fit
  <2>4. a \in 0 .. n /\ Begins(t, rs[r].old, a)
    BY <1>5, <1>8, <2>1
  <2> HIDE DEF a
  <2>5. w[a] = rs[r].new \o w[a + l]
    BY <2>4 DEF Clean
  <2> HIDE DEF l
  <2>6. a + l = k + b /\ b \in 0 .. n - k
    BY <1>1, <2>1, <2>2, <2>3 DEF a
  <2> HIDE DEF v, b
  <2>7. v[i] = w[a] /\ v[b] = w[a + l]
    BY <1>4, <2>1, <2>6 DEF a
  <2> QED
    BY <2>5, <2>7 DEF b, l
<1>9. ASSUME NEW i \in 0 .. Len(d) - 1,
             \A r \in DOMAIN rs : ~Begins(d, rs[r].old, i)
      PROVE  v[i] = Slice(d, i, i + 1) \o v[i + 1]
  <2>1. /\ i \in Nat /\ i \in 0 .. n - k /\ i + 1 \in i .. n - k
        /\ i + 1 \in 0 .. n - k
        /\ k + i \in 0 .. n - 1 /\ k + (i + 1) = (k + i) + 1
    BY <1>1, <1>2
  <2>2. \A r \in DOMAIN rs : ~Begins(t, rs[r].old, k + i)
    BY <1>5, <1>9, <2>1
  <2> DEFINE a == k + i
  <2>3. a \in 0 .. n - 1 /\ \A r \in DOMAIN rs : ~Begins(t, rs[r].old, a)
    BY <2>1, <2>2
  <2> HIDE DEF a
  <2>4. w[a] = Slice(t, a, a + 1) \o w[a + 1]
    BY <2>3 DEF Clean
  <2>5. Slice(d, i, i + 1) = Slice(t, k + i, k + (i + 1))
    BY <1>1, <2>1, SliceOfSlice, SMTT(60) DEF d
  <2> HIDE DEF v
  <2>6. v[i] = w[a] /\ v[i + 1] = w[a + 1]
    BY <1>4, <2>1, SMTT(60) DEF a
  <2> QED
    BY <2>1, <2>4, <2>5, <2>6 DEF a
<1>10. Clean(d, rs, S, v)
  <2> HIDE DEF v
  <2> QED
    BY <1>6, <1>7, <1>8, <1>9 DEF Clean
<1> QED
  BY <1>10 DEF d

-----------------------------------------------------------------------------
(* The reference.                                                          *)

\* The rules applied in turn, as the fold of the library does it: on the sets
\* of the first few of them.
InTurn(t, rs, iter, s) ==
  IF s = {} THEN t
  ELSE ReplaceEvery(iter[s \ {Max(s)}], rs[Max(s)])

IsInTurn(t, rs, iter) ==
  iter = [s \in SUBSET DOMAIN rs |-> InTurn(t, rs, iter, s)]

LEMMA RewrittenIs ==
  ASSUME NEW t, NEW rs
  PROVE  Rewritten(t, rs) =
           (CHOOSE iter : IsInTurn(t, rs, iter))[DOMAIN rs]
  BY DEF Rewritten, FoldLeft, MapThenFoldSet, IsInTurn, InTurn

\* No rule, one, or two.
LEMMA RewrittenTwo ==
  ASSUME NEW t, NEW a, NEW b
  PROVE  Rewritten(t, <<a, b>>) = ReplaceEvery(ReplaceEvery(t, a), b)
<1> DEFINE rs == <<a, b>>
           ra == ReplaceEvery(t, a)
           rb == ReplaceEvery(t, b)
           rab == ReplaceEvery(ra, b)
           it == [s \in SUBSET {1, 2} |->
                    IF s = {} THEN t ELSE IF s = {1} THEN ra
                    ELSE IF s = {2} THEN rb ELSE rab]
<1>1. /\ DOMAIN rs = {1, 2} /\ rs[1] = a /\ rs[2] = b
  OBVIOUS
<1>2. Max({1}) = 1 /\ Max({2}) = 2 /\ Max({1, 2}) = 2
  BY MaxPair, ExtremaOfOne
<1>3. ASSUME NEW s \in SUBSET {1, 2}
      PROVE  s = {} \/ s = {1} \/ s = {2} \/ s = {1, 2}
  OBVIOUS
<1> HIDE DEF rs
<1>4. ASSUME NEW s \in SUBSET {1, 2} PROVE it[s] = InTurn(t, rs, it, s)
  <2>1. CASE s = {}
    BY <2>1 DEF InTurn
  <2>2. CASE s = {1}
    <3>1. s \ {1} = {}
      BY <2>2
    <3> QED
      BY <1>1, <1>2, <2>2, <3>1 DEF InTurn
  <2>3. CASE s = {2}
    <3>1. s \ {2} = {}
      BY <2>3
    <3> QED
      BY <1>1, <1>2, <2>3, <3>1 DEF InTurn
  <2>4. CASE s = {1, 2}
    <3>1. s \ {2} = {1}
      BY <2>4
    <3> QED
      BY <1>1, <1>2, <2>4, <3>1 DEF InTurn
  <2> QED
    BY <1>3, <2>1, <2>2, <2>3, <2>4
<1>5. it = [s \in SUBSET {1, 2} |-> it[s]]
  OBVIOUS
<1> HIDE DEF it
<1>6. IsInTurn(t, rs, it)
  BY <1>1, <1>4, <1>5, Zenon DEF IsInTurn
<1> DEFINE iter == CHOOSE iter : IsInTurn(t, rs, iter)
<1>7. IsInTurn(t, rs, iter)
  BY <1>6
<1>8. Rewritten(t, rs) = iter[{1, 2}]
  BY <1>1, RewrittenIs
<1> HIDE DEF iter
<1>9. ASSUME NEW s \in SUBSET {1, 2} PROVE iter[s] = InTurn(t, rs, iter, s)
  BY <1>1, <1>7, Zenon DEF IsInTurn
<1>10. iter[{}] = t
  BY <1>9 DEF InTurn
<1>11. iter[{1}] = ReplaceEvery(t, a)
  <2>1. {1} \ {1} = {} /\ {1} \in SUBSET {1, 2}
    OBVIOUS
  <2> QED
    BY <1>1, <1>2, <1>9, <1>10, <2>1 DEF InTurn
<1>12. iter[{1, 2}] = ReplaceEvery(ReplaceEvery(t, a), b)
  <2>1. {1, 2} \ {2} = {1} /\ {1, 2} \in SUBSET {1, 2}
    OBVIOUS
  <2> QED
    BY <1>1, <1>2, <1>9, <1>11, <2>1, ZenonT(60) DEF InTurn
<1> QED
  BY <1>8, <1>12 DEF rs

LEMMA RewrittenOne ==
  ASSUME NEW t, NEW a
  PROVE  Rewritten(t, <<a>>) = ReplaceEvery(t, a)
<1> DEFINE rs == <<a>>
           ra == ReplaceEvery(t, a)
           it == [s \in SUBSET {1} |-> IF s = {} THEN t ELSE ra]
<1>1. DOMAIN rs = {1} /\ rs[1] = a
  OBVIOUS
<1>2. Max({1}) = 1
  BY ExtremaOfOne
<1>3. \A s \in SUBSET {1} : s = {} \/ s = {1}
  OBVIOUS
<1> HIDE DEF rs
<1>4. ASSUME NEW s \in SUBSET {1} PROVE it[s] = InTurn(t, rs, it, s)
  <2>1. CASE s = {}
    BY <2>1 DEF InTurn
  <2>2. CASE s = {1}
    <3>1. s \ {1} = {}
      BY <2>2
    <3> QED
      BY <1>1, <1>2, <2>2, <3>1 DEF InTurn
  <2> QED
    BY <1>3, <2>1, <2>2
<1>5. it = [s \in SUBSET {1} |-> it[s]]
  OBVIOUS
<1> HIDE DEF it
<1>6. IsInTurn(t, rs, it)
  BY <1>1, <1>4, <1>5, Zenon DEF IsInTurn
<1> DEFINE iter == CHOOSE iter : IsInTurn(t, rs, iter)
<1>7. IsInTurn(t, rs, iter)
  BY <1>6
<1>8. Rewritten(t, rs) = iter[{1}]
  BY <1>1, RewrittenIs
<1> HIDE DEF iter
<1>9. ASSUME NEW s \in SUBSET {1} PROVE iter[s] = InTurn(t, rs, iter, s)
  BY <1>1, <1>7, Zenon DEF IsInTurn
<1>10. iter[{}] = t
  BY <1>9 DEF InTurn
<1>11. iter[{1}] = ReplaceEvery(t, a)
  <2>1. {1} \ {1} = {} /\ {1} \in SUBSET {1}
    OBVIOUS
  <2> QED
    BY <1>1, <1>2, <1>9, <1>10, <2>1 DEF InTurn
<1> QED
  BY <1>8, <1>11 DEF rs

LEMMA RewrittenNone ==
  ASSUME NEW t
  PROVE  Rewritten(t, <<>>) = t
<1> DEFINE it == [s \in SUBSET {} |-> t]
<1>1. DOMAIN <<>> = {} /\ \A s \in SUBSET {} : s = {}
  OBVIOUS
<1>2. \A s \in SUBSET {} : it[s] = InTurn(t, <<>>, it, s)
  BY <1>1 DEF InTurn
<1>3. it = [s \in SUBSET {} |-> it[s]]
  OBVIOUS
<1> HIDE DEF it
<1>4. IsInTurn(t, <<>>, it)
  BY <1>1, <1>2, <1>3, Zenon DEF IsInTurn
<1> DEFINE iter == CHOOSE iter : IsInTurn(t, <<>>, iter)
<1>5. IsInTurn(t, <<>>, iter)
  BY <1>4
<1>6. Rewritten(t, <<>>) = iter[{}]
  BY <1>1, RewrittenIs
<1> HIDE DEF iter
<1>7. iter[{}] = InTurn(t, <<>>, iter, {})
  BY <1>1, <1>5, Zenon DEF IsInTurn
<1> QED
  BY <1>6, <1>7 DEF InTurn

\* strings.ReplaceAll, one round.
ReplacedAt(t, rule, f, s) ==
  LET found == Matches(t, rule.old, s)
      i == Min(found)
  IN IF found = {} THEN Slice(t, s, Len(t))
     ELSE Slice(t, s, i) \o rule.new \o f[i + Len(rule.old)]

IsReplaced(t, rule, f) ==
  f = [s \in 0 .. Len(t) |-> ReplacedAt(t, rule, f, s)]

\* Going on from s, it takes the text there to what is meant to come out,
\* given that it does so from every later place.
LEMMA ReplacedStep ==
  ASSUME NEW S, NEW rule, Fit(<<rule>>, S), NEW t \in Seq(S),
         NEW w, Clean(t, <<rule>>, S, w), NEW f, NEW s \in 0 .. Len(t),
         \A x \in s + 1 .. Len(t) : f[x] = w[x]
  PROVE  ReplacedAt(t, rule, f, s) = w[s]
<1> DEFINE n == Len(t)
           found == Matches(t, rule.old, s)
           l == Len(rule.old)
           rs == <<rule>>
<1>1. DOMAIN rs = {1} /\ rs[1] = rule
  OBVIOUS
<1> HIDE DEF rs
<1>2. /\ n \in Nat /\ s \in Nat /\ s <= n /\ rule.old \in Seq(S)
      /\ rule.new \in Seq(S) /\ l \in Nat /\ l >= 1
  <2>1. rs[1].old \in Seq(S) /\ rs[1].new \in Seq(S)
        /\ Len(rs[1].old) >= 1
    BY <1>1 DEF Fit, rs
  <2> QED
    BY <1>1, <2>1, LenProperties
<1>3. \A i \in 0 .. n : w[i] \in Seq(S)
  BY DEF Clean
<1>4. \A i : i \in found <=> i \in Nat /\ s <= i /\ Begins(t, rule.old, i)
  <2> SUFFICES ASSUME NEW i
               PROVE  i \in found <=>
                        i \in Nat /\ s <= i /\ Begins(t, rule.old, i)
    OBVIOUS
  <2>1. i \in s .. n - l <=> i \in Nat /\ s <= i /\ i + l <= n
    <3> HIDE DEF l, n
    <3> QED
      BY <1>2
  <2> QED
    BY <2>1 DEF Matches, Begins
<1>5. ASSUME NEW b \in s .. n, \A i \in s .. b - 1 : i \notin found
      PROVE  w[s] = Slice(t, s, b) \o w[b]
  <2>1. ASSUME NEW i \in s .. b - 1, NEW r \in DOMAIN rs
        PROVE  ~Begins(t, rs[r].old, i)
    <3>1. i \in Nat /\ s <= i
      BY <1>2
    <3> QED
      BY <1>1, <1>4, <1>5, <3>1
  <2>2. Bare(t, rs, s, b)
    BY <2>1 DEF Bare
  <2>3. Kept(t, w, s, b)
    BY <2>2, Skip DEF rs
  <2> QED
    BY <2>3 DEF Kept
<1>6. CASE found = {}
  <2>1. n \in s .. n /\ n \in 0 .. n
    BY <1>2
  <2>2. w[s] = Slice(t, s, n) \o w[n]
    <3> HIDE DEF found, n
    <3> QED
      BY <1>5, <1>6, <2>1
  <2>3. w[n] = <<>>
    BY DEF Clean
  <2>4. Slice(t, s, n) \in Seq(S)
    BY <2>1, SliceIs
  <2>5. Slice(t, s, n) \o <<>> = Slice(t, s, n)
    <3> DEFINE x == Slice(t, s, n)
    <3>1. x \in Seq(S)
      BY <2>4
    <3> HIDE DEF x
    <3>2. x \o <<>> = x
      BY <3>1, ConcatEmptySeq
    <3> QED
      BY <3>2 DEF x
  <2> QED
    BY <1>6, <2>2, <2>3, <2>5 DEF ReplacedAt
<1>7. CASE found # {}
  <2> DEFINE i == Min(found)
  <2>1. i \in found /\ \A y \in found : i <= y
    <3>1. found \in SUBSET Nat
      BY <1>4
    <3> HIDE DEF found
    <3>2. \E x \in found : \A y \in found : x <= y
      BY <1>7, <3>1, LeastElement
    <3> QED
      BY <3>2 DEF Min
  <2> HIDE DEF i
  <2>2. i \in Nat /\ s <= i /\ Begins(t, rule.old, i)
    BY <1>4, <2>1
  <2>3. i + l <= n
    BY <2>2 DEF Begins
  <2> DEFINE x == i + l
  <2>4. /\ i \in s .. n /\ x \in s + 1 .. n /\ i \in 0 .. n /\ x \in 0 .. n
    <3> HIDE DEF l, n
    <3> QED
      BY <1>2, <2>2, <2>3
  <2>5. \A j \in s .. i - 1 : j \notin found
    <3> SUFFICES ASSUME NEW j \in s .. i - 1, j \in found PROVE FALSE
      OBVIOUS
    <3>1. ~(i <= j)
      BY <1>2, <2>2
    <3> HIDE DEF found
    <3> QED
      BY <2>1, <3>1
  <2>6. w[s] = Slice(t, s, i) \o w[i]
    <3> HIDE DEF found, n
    <3> QED
      BY <1>5, <2>4, <2>5
  <2>7. w[i] = rule.new \o w[x]
    <3>1. 1 \in DOMAIN rs /\ Begins(t, rs[1].old, i)
      BY <1>1, <2>2
    <3>2. w[i] = rs[1].new \o w[i + Len(rs[1].old)]
      BY <2>4, <3>1 DEF Clean, rs
    <3> QED
      BY <1>1, <3>2
  <2>8. f[x] = w[x] /\ w[x] \in Seq(S)
    <3> HIDE DEF x, n
    <3> QED
      BY <1>3, <2>4 DEF n
  <2>9. Slice(t, s, i) \in Seq(S)
    BY <2>4, SliceIs
  <2> DEFINE p == Slice(t, s, i)
             q == rule.new
             v == w[x]
  <2>10. p \in Seq(S) /\ q \in Seq(S) /\ v \in Seq(S)
    BY <1>2, <2>8, <2>9
  <2>11. ReplacedAt(t, rule, f, s) = (p \o q) \o v
    BY <1>7, <2>8 DEF ReplacedAt, i
  <2>12. w[s] = p \o (q \o v)
    BY <2>6, <2>7
  <2> HIDE DEF p, q, v
  <2>13. (p \o q) \o v = p \o (q \o v)
    BY <2>10, ConcatAssociative, SMTT(60)
  <2> QED
    BY <2>11, <2>12, <2>13
<1> QED
  BY <1>6, <1>7

LEMMA Replaces ==
  ASSUME NEW S, NEW rule, Fit(<<rule>>, S), NEW t \in Seq(S),
         NEW w, Clean(t, <<rule>>, S, w)
  PROVE  ReplaceEvery(t, rule) = w[0]
<1> DEFINE n == Len(t)
<1>1. n \in Nat
  BY LenProperties
<1>2. ASSUME NEW s \in 0 .. n PROVE w[s] = ReplacedAt(t, rule, w, s)
  BY ReplacedStep
<1>3. w = [s \in 0 .. n |-> w[s]]
  <2>1. w \in [0 .. n -> Seq(S)]
    BY DEF Clean
  <2> QED
    BY <2>1
<1>4. IsReplaced(t, rule, w)
  BY <1>2, <1>3, Zenon DEF IsReplaced
<1> DEFINE f == CHOOSE f : IsReplaced(t, rule, f)
<1>5. IsReplaced(t, rule, f)
  BY <1>4
<1>6. ReplaceEvery(t, rule) = f[0]
  BY DEF ReplaceEvery, IsReplaced, ReplacedAt
<1> HIDE DEF f
<1>7. ASSUME NEW s \in 0 .. n PROVE f[s] = ReplacedAt(t, rule, f, s)
  BY <1>5, Zenon DEF IsReplaced
<1> DEFINE Bad == {m \in 0 .. n : f[n - m] # w[n - m]}
<1>8. Bad = {}
  <2> SUFFICES ASSUME Bad # {} PROVE FALSE
    OBVIOUS
  <2> HIDE DEF n
  <2>1. Bad \in SUBSET Nat
    OBVIOUS
  <2>2. PICK m \in Bad : \A x \in Bad : m <= x
    <3> HIDE DEF Bad
    <3> QED
      BY <2>1, LeastElement
  <2> DEFINE s == n - m
  <2>3. m \in 0 .. n /\ s \in 0 .. n /\ f[s] # w[s]
    BY <1>1
  <2>4. ASSUME NEW x \in s + 1 .. n PROVE f[x] = w[x]
    <3>1. n - x \in 0 .. n /\ ~(m <= n - x) /\ n - (n - x) = x
      BY <1>1, <2>3
    <3>2. n - x \notin Bad
      <4> HIDE DEF Bad
      <4> QED
        BY <2>2, <3>1
    <3> QED
      BY <3>1, <3>2
  <2> HIDE DEF s
  <2>5. ReplacedAt(t, rule, f, s) = w[s]
    BY <2>3, <2>4, ReplacedStep DEF n
  <2> QED
    BY <1>7, <2>3, <2>5
<1>9. n \in 0 .. n /\ n - n = 0
  BY <1>1
<1> HIDE DEF n
<1>10. f[0] = w[0]
  BY <1>8, <1>9
<1> QED
  BY <1>6, <1>10

\* The same of what is left of a text from k on.
LEMMA ReplacesRest ==
  ASSUME NEW S, NEW rule, Fit(<<rule>>, S), NEW t \in Seq(S),
         NEW w, Clean(t, <<rule>>, S, w), NEW k \in 0 .. Len(t)
  PROVE  ReplaceEvery(Slice(t, k, Len(t)), rule) = w[k]
<1> DEFINE d == Slice(t, k, Len(t))
           v == [j \in 0 .. Len(t) - k |-> w[k + j]]
<1>1. Clean(d, <<rule>>, S, v)
  BY CleanRest, SMTT(60)
<1>2. Len(t) \in Nat /\ Len(t) \in k .. Len(t)
  BY LenProperties
<1>3. d \in Seq(S)
  BY <1>2, SliceIs
<1>4. v[0] = w[k]
  <2>1. 0 \in 0 .. Len(t) - k /\ k + 0 = k
    BY <1>2
  <2> QED
    BY <2>1
<1> HIDE DEF d, v
<1>5. ReplaceEvery(d, rule) = v[0]
  BY <1>1, <1>3, Replaces
<1> QED
  BY <1>4, <1>5 DEF d

\* The parts of a concatenation.
Parts(S, p, v) ==
  /\ p \o v \in Seq(S) /\ Len(p \o v) = Len(p) + Len(v)
  /\ Len(p) \in 0 .. Len(p \o v)
  /\ Slice(p \o v, 0, Len(p)) = p
  /\ Slice(p \o v, Len(p), Len(p \o v)) = v

LEMMA SliceConcat ==
  ASSUME NEW S, NEW p \in Seq(S), NEW v \in Seq(S)
  PROVE  Parts(S, p, v)
<1> DEFINE t == p \o v
           m == Len(p)
           n == Len(v)
           a == Slice(t, 0, m)
           b == Slice(t, m, m + n)
<1>1. /\ t \in Seq(S) /\ Len(t) = m + n
      /\ \A i \in 1 .. m + n : t[i] = IF i <= m THEN p[i] ELSE v[i - m]
  BY ConcatProperties
<1>2. m \in Nat /\ n \in Nat
  BY LenProperties
<1> HIDE DEF t, m, n
<1>3. 0 \in 0 .. Len(t) /\ m \in 0 .. Len(t) /\ m + n \in m .. Len(t)
  BY <1>1, <1>2
<1>4. /\ a \in Seq(S) /\ Len(a) = m - 0
      /\ \A i \in 1 .. m - 0 : a[i] = t[0 + i]
  BY <1>1, <1>3, SliceIs, ZenonT(60)
<1>5. /\ b \in Seq(S) /\ Len(b) = (m + n) - m
      /\ \A i \in 1 .. (m + n) - m : b[i] = t[m + i]
  BY <1>1, <1>3, SliceIs, ZenonT(60)
<1> HIDE DEF a, b
<1>6. Len(a) = m /\ \A i \in 1 .. m : a[i] = p[i]
  <2>1. \A i \in 1 .. m : i \in 1 .. m + n /\ i <= m /\ 0 + i = i
    BY <1>2
  <2>2. m - 0 = m
    BY <1>2
  <2> QED
    BY <1>1, <1>4, <2>1, <2>2
<1>7. Len(b) = n /\ \A i \in 1 .. n : b[i] = v[i]
  <2>1. \A i \in 1 .. n : m + i \in 1 .. m + n /\ ~(m + i <= m)
                          /\ (m + i) - m = i
    BY <1>2
  <2>2. (m + n) - m = n
    BY <1>2
  <2> QED
    BY <1>1, <1>5, <2>1, <2>2
<1>8. a = p
  BY <1>4, <1>6, SeqEqual DEF m
<1>9. b = v
  BY <1>5, <1>7, SeqEqual DEF n
<1> QED
  BY <1>1, <1>3, <1>8, <1>9 DEF Parts, a, b, t, m, n

\* strings.ReplaceAll on nothing,
LEMMA ReplaceNothing ==
  ASSUME NEW S, NEW rule, Fit(<<rule>>, S)
  PROVE  ReplaceEvery(<<>>, rule) = <<>>
<1>1. <<>> \in Seq(S) /\ Len(<<>>) = 0
  BY EmptySeq
<1>2. PICK w : Clean(<<>>, <<rule>>, S, w)
  BY <1>1, CleanExists
<1>3. w[0] = <<>>
  BY <1>1, <1>2 DEF Clean
<1> QED
  BY <1>1, <1>2, <1>3, Replaces, ZenonT(60)

\* on a byte that begins no match,
LEMMA ReplaceByte ==
  ASSUME NEW S, NEW rule, Fit(<<rule>>, S), NEW x \in S, NEW v \in Seq(S),
         ~Begins(<<x>> \o v, rule.old, 0)
  PROVE  ReplaceEvery(<<x>> \o v, rule) = <<x>> \o ReplaceEvery(v, rule)
<1> DEFINE p == <<x>>
           t == p \o v
<1>1. p \in Seq(S) /\ Len(p) = 1
  OBVIOUS
<1> HIDE DEF p
<1>2. /\ t \in Seq(S) /\ Len(t) = 1 + Len(v)
      /\ 1 \in 0 .. Len(t) /\ Slice(t, 0, 1) = p /\ Slice(t, 1, Len(t)) = v
  <2>1. Parts(S, p, v)
    BY <1>1, SliceConcat
  <2> QED
    BY <1>1, <2>1 DEF Parts
<1>3. ~Begins(t, rule.old, 0)
  BY DEF p
<1> HIDE DEF t
<1>4. PICK w : Clean(t, <<rule>>, S, w)
  BY <1>2, CleanExists
<1>5. ReplaceEvery(t, rule) = w[0]
  BY <1>2, <1>4, Replaces
<1>6. ReplaceEvery(v, rule) = w[1]
  <2>1. ReplaceEvery(Slice(t, 1, Len(t)), rule) = w[1]
    BY <1>2, <1>4, ReplacesRest
  <2> QED
    BY <1>2, <2>1
<1>7. w[0] = Slice(t, 0, 1) \o w[1]
  <2>1. 0 \in 0 .. Len(t) - 1 /\ 0 + 1 = 1
    BY <1>2, LenProperties
  <2>2. \A r \in DOMAIN <<rule>> : ~Begins(t, <<rule>>[r].old, 0)
    BY <1>3
  <2> QED
    BY <1>4, <2>1, <2>2 DEF Clean
<1> QED
  BY <1>2, <1>5, <1>6, <1>7 DEF p, t

\* and on a match.
LEMMA ReplaceMatch ==
  ASSUME NEW S, NEW rule, Fit(<<rule>>, S), NEW v \in Seq(S)
  PROVE  ReplaceEvery(rule.old \o v, rule) = rule.new \o ReplaceEvery(v, rule)
<1> DEFINE p == rule.old
           t == p \o v
           l == Len(p)
           rs == <<rule>>
<1>1. DOMAIN rs = {1} /\ rs[1] = rule
  OBVIOUS
<1>2. rs[1].old \in Seq(S) /\ rs[1].new \in Seq(S)
  <2> HIDE DEF rs
  <2> QED
    BY <1>1 DEF Fit, rs
<1>3. p \in Seq(S) /\ rule.new \in Seq(S)
  BY <1>1, <1>2
<1> HIDE DEF p, rs
<1>4. /\ t \in Seq(S) /\ Len(t) = l + Len(v) /\ l \in 0 .. Len(t)
      /\ Slice(t, l, Len(t)) = v
  <2>1. Parts(S, p, v)
    BY <1>3, SliceConcat
  <2> QED
    BY <2>1 DEF Parts
<1>5. Begins(t, p, 0)
  <2>1. \A i \in 1 .. Len(p) + Len(v) :
          t[i] = IF i <= Len(p) THEN p[i] ELSE v[i - Len(p)]
    BY <1>3, ConcatProperties
  <2>2. l \in Nat /\ Len(v) \in Nat /\ DOMAIN p = 1 .. l
    BY <1>3, LenProperties
  <2> HIDE DEF t
  <2>3. ASSUME NEW j \in 1 .. l PROVE t[0 + j] = p[j]
    <3>1. j \in 1 .. l + Len(v) /\ j <= l /\ 0 + j = j
      BY <2>2
    <3> QED
      BY <2>1, <3>1
  <2>4. 0 + l <= Len(t)
    BY <1>4, <2>2
  <2> QED
    BY <2>2, <2>3, <2>4 DEF Begins
<1>6. l \in Nat /\ Len(t) \in Nat
  BY <1>3, <1>4, LenProperties
<1> HIDE DEF t
<1>7. PICK w : Clean(t, rs, S, w)
  BY <1>4, CleanExists DEF rs
<1>8. ReplaceEvery(t, rule) = w[0]
  BY <1>4, <1>7, Replaces DEF rs
<1>9. ReplaceEvery(v, rule) = w[l]
  <2>1. ReplaceEvery(Slice(t, l, Len(t)), rule) = w[l]
    <3> HIDE DEF l
    <3> QED
      BY <1>4, <1>7, ReplacesRest, SMTT(60) DEF rs
  <2> QED
    BY <1>4, <2>1
<1>10. w[0] = rule.new \o w[l]
  <2>1. 0 \in 0 .. Len(t) /\ 0 + l = l
    BY <1>6
  <2>2. 1 \in DOMAIN rs /\ Begins(t, rs[1].old, 0)
    BY <1>1, <1>5 DEF p
  <2>3. w[0] = rs[1].new \o w[0 + Len(rs[1].old)]
    BY <1>7, <2>1, <2>2 DEF Clean
  <2> QED
    BY <1>1, <2>1, <2>3 DEF p
<1> QED
  BY <1>8, <1>9, <1>10 DEF t, p

-----------------------------------------------------------------------------
(* The download origins of the registries.                                 *)

\* One rule, or two of about a length of which only one matches, can be
\* looked for in a stream.
LEMMA FitOne ==
  ASSUME NEW S, NEW a, a.old \in Seq(S), a.new \in Seq(S), Len(a.old) >= 1
  PROVE  Fit(<<a>>, S)
<1> DEFINE rs == <<a>>
<1>1. Len(rs) = 1 /\ DOMAIN rs = 1 .. 1 /\ rs[1] = a
  OBVIOUS
<1> HIDE DEF rs
<1>2. Len(a.old) \in Nat
  BY LenProperties
<1>3. \A r \in DOMAIN rs : r = 1 /\ rs[r] = a
  BY <1>1
<1>4. Fit(rs, S)
  BY <1>1, <1>2, <1>3 DEF Fit
<1> QED
  BY <1>4 DEF rs

LEMMA FitTwo ==
  ASSUME NEW S, NEW a, a.old \in Seq(S), a.new \in Seq(S), Len(a.old) >= 1,
         NEW b, b.old \in Seq(S), b.new \in Seq(S), Len(b.old) >= 1,
         Len(a.old) <= Len(b.old) + 1, Len(b.old) <= Len(a.old) + 1,
         NEW j \in DOMAIN a.old \cap DOMAIN b.old, a.old[j] # b.old[j]
  PROVE  Fit(<<a, b>>, S)
<1> DEFINE rs == <<a, b>>
<1>1. /\ Len(rs) = 2 /\ DOMAIN rs = 1 .. 2
      /\ rs[1] = a /\ rs[2] = b
  OBVIOUS
<1> HIDE DEF rs
<1>2. Len(a.old) \in Nat /\ Len(b.old) \in Nat
  BY LenProperties
<1>3. \A r \in DOMAIN rs : (r = 1 /\ rs[r] = a) \/ (r = 2 /\ rs[r] = b)
  BY <1>1
<1>4. ASSUME NEW r \in DOMAIN rs
      PROVE  /\ rs[r].old \in Seq(S) /\ rs[r].new \in Seq(S)
             /\ Len(rs[r].old) >= 1
  BY <1>3
<1>5. ASSUME NEW r \in DOMAIN rs, NEW q \in DOMAIN rs
      PROVE  Len(rs[r].old) <= Len(rs[q].old) + 1
  <2>1. CASE r = 1 /\ q = 1
    BY <1>1, <1>2, <2>1
  <2>2. CASE r = 1 /\ q = 2
    BY <1>1, <1>2, <2>2
  <2>3. CASE r = 2 /\ q = 1
    BY <1>1, <1>2, <2>3
  <2>4. CASE r = 2 /\ q = 2
    BY <1>1, <1>2, <2>4
  <2> QED
    BY <1>3, <2>1, <2>2, <2>3, <2>4
<1>6. ASSUME NEW r \in DOMAIN rs, NEW q \in DOMAIN rs, r # q
      PROVE  \E k \in DOMAIN rs[r].old \cap DOMAIN rs[q].old :
               rs[r].old[k] # rs[q].old[k]
  <2>1. CASE r = 1 /\ q = 2
    BY <1>1, <2>1
  <2>2. CASE r = 2 /\ q = 1
    BY <1>1, <2>2
  <2> QED
    BY <1>3, <1>6, <2>1, <2>2
<1>7. Fit(rs, S)
  <2>1. Len(rs) \in Nat /\ DOMAIN rs = 1 .. Len(rs)
    BY <1>1
  <2> QED
    BY <1>4, <1>5, <1>6, <2>1 DEF Fit
<1> QED
  BY <1>7 DEF rs

HTTPS == [old |-> <<"h", "s", "/">>, new |-> <<"F">>]
HTTP == [old |-> <<"h", "/">>, new |-> <<"F">>]

LEMMA OriginRules ==
  /\ rewriteRules("npm") = <<HTTPS>>
  /\ rewriteRules("pypi") = <<HTTPS, HTTP>>
  /\ \A e : e \notin {"npm", "pypi"} => rewriteRules(e) = <<>>
  BY DEF rewriteRules, HTTPS, HTTP

\* They can be looked for in a stream.
LEMMA OriginFit ==
  ASSUME NEW S, "h" \in S, "s" \in S, "/" \in S, "F" \in S
  PROVE  /\ Fit(<<>>, S) /\ Fit(<<HTTPS>>, S) /\ Fit(<<HTTP>>, S)
         /\ Fit(<<HTTPS, HTTP>>, S)
<1>1. /\ HTTPS.old = <<"h", "s", "/">> /\ HTTP.old = <<"h", "/">>
      /\ HTTPS.new = <<"F">> /\ HTTP.new = <<"F">>
  BY DEF HTTPS, HTTP
<1>2. /\ <<"h", "s", "/">> \in Seq(S) /\ <<"h", "/">> \in Seq(S)
      /\ <<"F">> \in Seq(S) /\ Len(<<"h", "s", "/">>) = 3
      /\ Len(<<"h", "/">>) = 2
      /\ DOMAIN <<"h", "s", "/">> = 1 .. 3 /\ DOMAIN <<"h", "/">> = 1 .. 2
      /\ <<"h", "s", "/">>[2] = "s" /\ <<"h", "/">>[2] = "/"
  OBVIOUS
<1> DEFINE x == <<"h", "s", "/">>
           y == <<"h", "/">>
           z == <<"F">>
<1>3. /\ x \in Seq(S) /\ y \in Seq(S) /\ z \in Seq(S)
      /\ Len(x) = 3 /\ Len(y) = 2 /\ x[2] # y[2]
      /\ 2 \in DOMAIN x \cap DOMAIN y
  BY <1>2
<1>4. HTTPS.old = x /\ HTTP.old = y /\ HTTPS.new = z /\ HTTP.new = z
  BY <1>1
<1> HIDE DEF x, y, z
<1>5. Fit(<<>>, S)
  BY DEF Fit
<1>6. Fit(<<HTTPS>>, S) /\ Fit(<<HTTP>>, S)
  BY <1>3, <1>4, FitOne
<1>7. Fit(<<HTTPS, HTTP>>, S)
  <2>1. /\ HTTPS.old \in Seq(S) /\ HTTPS.new \in Seq(S)
        /\ HTTP.old \in Seq(S) /\ HTTP.new \in Seq(S)
    BY <1>3, <1>4
  <2>2. Len(HTTPS.old) = 3 /\ Len(HTTP.old) = 2
    BY <1>3, <1>4
  <2>3. /\ Len(HTTPS.old) >= 1 /\ Len(HTTP.old) >= 1
        /\ Len(HTTPS.old) <= Len(HTTP.old) + 1
        /\ Len(HTTP.old) <= Len(HTTPS.old) + 1
    BY <2>2
  <2>4. 2 \in DOMAIN HTTPS.old \cap DOMAIN HTTP.old
    BY <1>3, <1>4, Zenon
  <2>5. HTTPS.old[2] # HTTP.old[2]
    BY <1>3, <1>4, Zenon
  <2> QED
    BY <2>1, <2>3, <2>4, <2>5, FitTwo
<1> QED
  BY <1>5, <1>6, <1>7

\* What is held back is as long as the longest proper beginning of a match.
LEMMA KeepIs ==
  /\ Keep(<<>>) = 0 /\ Keep(<<HTTPS>>) = 2 /\ Keep(<<HTTPS, HTTP>>) = 2
  /\ Len(HTTPS.old) = 3 /\ Len(HTTP.old) = 2
<1>1. Len(HTTPS.old) = 3 /\ Len(HTTP.old) = 2
  BY DEF HTTPS, HTTP
<1>2. Keep(<<>>) = 0
  <2>1. {0} \cup {Len(<<>>[i].old) - 1 : i \in DOMAIN <<>>} = {0}
    OBVIOUS
  <2> QED
    BY <2>1, ExtremaOfOne DEF Keep
<1>3. Keep(<<HTTPS>>) = 2
  <2> DEFINE rs == <<HTTPS>>
  <2>1. DOMAIN rs = {1} /\ rs[1] = HTTPS
    OBVIOUS
  <2> HIDE DEF rs
  <2>2. {0} \cup {Len(rs[i].old) - 1 : i \in DOMAIN rs} = {0, 2}
    <3> DEFINE k(i) == Len(rs[i].old) - 1
    <3>1. k(1) = 2
      BY <1>1, <2>1
    <3> HIDE DEF k
    <3>2. {0} \cup {k(i) : i \in {1}} = {0, 2}
      BY <3>1
    <3> QED
      BY <2>1, <3>2 DEF k
  <2>3. Max({0, 2}) = 2
    BY MaxPair
  <2> QED
    BY <2>2, <2>3 DEF Keep, rs
<1>4. Keep(<<HTTPS, HTTP>>) = 2
  <2> DEFINE rs == <<HTTPS, HTTP>>
  <2>1. DOMAIN rs = {1, 2} /\ rs[1] = HTTPS /\ rs[2] = HTTP
    OBVIOUS
  <2> HIDE DEF rs
  <2>2. {0} \cup {Len(rs[i].old) - 1 : i \in DOMAIN rs} = {0, 1, 2}
    <3> DEFINE k(i) == Len(rs[i].old) - 1
    <3>1. k(1) = 2 /\ k(2) = 1
      BY <1>1, <2>1
    <3> HIDE DEF k
    <3>2. {0} \cup {k(i) : i \in {1, 2}} = {0, 1, 2}
      BY <3>1
    <3> QED
      BY <2>1, <3>2 DEF k
  <2>3. Max({0, 1, 2}) = 2
    BY DEF Max
  <2> QED
    BY <2>2, <2>3 DEF Keep, rs
<1> QED
  BY <1>1, <1>2, <1>3, <1>4

LEMMA BeginsOrigin ==
  ASSUME NEW t, NEW i \in Nat
  PROVE  /\ Begins(t, HTTPS.old, i) <=>
              /\ i + 3 <= Len(t) /\ t[i + 1] = "h" /\ t[i + 2] = "s"
              /\ t[i + 3] = "/"
         /\ Begins(t, HTTP.old, i) <=>
              i + 2 <= Len(t) /\ t[i + 1] = "h" /\ t[i + 2] = "/"
<1> DEFINE x == <<"h", "s", "/">>
           y == <<"h", "/">>
<1>1. /\ Len(x) = 3 /\ DOMAIN x = {1, 2, 3} /\ x[1] = "h" /\ x[2] = "s"
      /\ x[3] = "/"
  OBVIOUS
<1>2. Len(y) = 2 /\ DOMAIN y = {1, 2} /\ y[1] = "h" /\ y[2] = "/"
  OBVIOUS
<1>3. HTTPS.old = x /\ HTTP.old = y
  BY DEF HTTPS, HTTP
<1> HIDE DEF x, y
<1>4. Begins(t, x, i) <=> /\ i + 3 <= Len(t) /\ t[i + 1] = "h"
                          /\ t[i + 2] = "s" /\ t[i + 3] = "/"
  BY <1>1 DEF Begins
<1>5. Begins(t, y, i) <=>
        i + 2 <= Len(t) /\ t[i + 1] = "h" /\ t[i + 2] = "/"
  BY <1>2 DEF Begins
<1> QED
  BY <1>3, <1>4, <1>5

\* u is what https leaves of t, and w what both rules do.
Twice(S, t, u, w) ==
  /\ "h" \in S /\ "s" \in S /\ "/" \in S /\ "F" \in S /\ t \in Seq(S)
  /\ Clean(t, <<HTTPS>>, S, u) /\ Clean(t, <<HTTPS, HTTP>>, S, w)

\* Replacing https in the whole text and then http in what came out is the
\* same as replacing whichever comes first: what https leaves behind neither
\* begins nor ends an http that was not there before.
LEMMA InTurnOrAtOnce ==
  ASSUME NEW S, NEW t, NEW u, NEW w, Twice(S, t, u, w), NEW k \in 0 .. Len(t)
  PROVE  ReplaceEvery(u[k], HTTP) = w[k]
<1> /\ "h" \in S /\ "s" \in S /\ "/" \in S /\ "F" \in S /\ t \in Seq(S)
    /\ Clean(t, <<HTTPS>>, S, u) /\ Clean(t, <<HTTPS, HTTP>>, S, w)
  BY DEF Twice
<1> DEFINE n == Len(t)
           one == <<HTTPS>>
           both == <<HTTPS, HTTP>>
           T(s) == ReplaceEvery(u[s], HTTP) = w[s]
<1>1. n \in Nat /\ \A i \in 1 .. n : t[i] \in S
  BY LenProperties, ElementOfSeq
<1>2. Fit(one, S) /\ Fit(both, S) /\ Fit(<<HTTP>>, S)
  BY OriginFit
<1>3. /\ DOMAIN one = {1} /\ one[1] = HTTPS
      /\ DOMAIN both = {1, 2} /\ both[1] = HTTPS /\ both[2] = HTTP
  OBVIOUS
<1>4. /\ HTTPS.new = <<"F">> /\ HTTP.new = <<"F">>
      /\ HTTP.old = <<"h", "/">>
      /\ Len(HTTPS.old) = 3 /\ Len(HTTP.old) = 2
  BY KeepIs DEF HTTPS, HTTP
<1> HIDE DEF one, both
<1>5. /\ \A i \in 0 .. n : u[i] \in Seq(S) /\ w[i] \in Seq(S)
      /\ u[n] = <<>> /\ w[n] = <<>>
  BY DEF Clean, one, both
<1>6. ASSUME NEW i \in 0 .. n
      PROVE  /\ Begins(t, HTTPS.old, i) =>
                  u[i] = <<"F">> \o u[i + 3] /\ w[i] = <<"F">> \o w[i + 3]
             /\ Begins(t, HTTP.old, i) => w[i] = <<"F">> \o w[i + 2]
             /\ i # n /\ ~Begins(t, HTTPS.old, i) =>
                  u[i] = Slice(t, i, i + 1) \o u[i + 1]
             /\ i # n /\ ~Begins(t, HTTPS.old, i) /\ ~Begins(t, HTTP.old, i) =>
                  w[i] = Slice(t, i, i + 1) \o w[i + 1]
  <2>1. \A r \in DOMAIN one : Begins(t, one[r].old, i) =>
          u[i] = one[r].new \o u[i + Len(one[r].old)]
    BY DEF Clean, one
  <2>2. \A r \in DOMAIN both : Begins(t, both[r].old, i) =>
          w[i] = both[r].new \o w[i + Len(both[r].old)]
    BY DEF Clean, both
  <2>3. i # n => i \in 0 .. n - 1
    BY <1>1
  <2>4. i # n /\ (\A r \in DOMAIN one : ~Begins(t, one[r].old, i)) =>
          u[i] = Slice(t, i, i + 1) \o u[i + 1]
    BY <2>3 DEF Clean, one
  <2>5. i # n /\ (\A r \in DOMAIN both : ~Begins(t, both[r].old, i)) =>
          w[i] = Slice(t, i, i + 1) \o w[i + 1]
    BY <2>3 DEF Clean, both
  <2>6. Begins(t, HTTPS.old, i) => u[i] = <<"F">> \o u[i + 3]
    BY <1>3, <1>4, <2>1
  <2>7. Begins(t, HTTPS.old, i) => w[i] = <<"F">> \o w[i + 3]
    BY <1>3, <1>4, <2>2, ZenonT(60)
  <2>8. Begins(t, HTTP.old, i) => w[i] = <<"F">> \o w[i + 2]
    BY <1>3, <1>4, <2>2
  <2>9. i # n /\ ~Begins(t, HTTPS.old, i) =>
          u[i] = Slice(t, i, i + 1) \o u[i + 1]
    BY <1>3, <2>4
  <2>10. i # n /\ ~Begins(t, HTTPS.old, i) /\ ~Begins(t, HTTP.old, i) =>
           w[i] = Slice(t, i, i + 1) \o w[i + 1]
    BY <1>3, <2>5
  <2> QED
    BY <2>6, <2>7, <2>8, <2>9, <2>10
<1>7. ASSUME NEW i \in 0 .. n - 1
      PROVE  Slice(t, i, i + 1) = <<t[i + 1]>> /\ t[i + 1] \in S
  <2>1. i \in 0 .. n /\ i + 1 \in i .. n /\ i + 1 \in 1 .. n /\ i \in Nat
    BY <1>1
  <2> DEFINE p == Slice(t, i, i + 1)
             q == <<t[i + 1]>>
  <2>2. p \in Seq(S) /\ Len(p) = (i + 1) - i
        /\ \A j \in 1 .. (i + 1) - i : p[j] = t[i + j]
    BY <2>1, SliceIs
  <2>3. t[i + 1] \in S /\ (i + 1) - i = 1
    BY <1>1, <2>1
  <2>4. q \in Seq(S) /\ Len(q) = 1 /\ q[1] = t[i + 1]
    BY <2>3
  <2> HIDE DEF p, q
  <2>5. \A j \in 1 .. Len(p) : p[j] = q[j]
    BY <2>2, <2>3, <2>4
  <2>6. p = q
    BY <2>2, <2>3, <2>4, <2>5, SeqEqual
  <2> QED
    BY <2>3, <2>6 DEF p, q
\* A byte that http does not begin at, in what came out.
<1>8. ASSUME NEW x \in S, NEW v \in Seq(S), x # "h" \/ v = <<>> \/ v[1] # "/"
      PROVE  ReplaceEvery(<<x>> \o v, HTTP) = <<x>> \o ReplaceEvery(v, HTTP)
  <2> DEFINE z == <<x>> \o v
  <2>1. <<x>> \in Seq(S) /\ Len(<<x>>) = 1 /\ <<x>>[1] = x
    OBVIOUS
  <2>2. /\ Len(z) = 1 + Len(v)
        /\ \A i \in 1 .. 1 + Len(v) : z[i] = IF i <= 1 THEN <<x>>[i]
                                             ELSE v[i - 1]
    <3> DEFINE p == <<x>>
    <3> HIDE DEF p
    <3>1. /\ Len(p \o v) = Len(p) + Len(v)
          /\ \A i \in 1 .. Len(p) + Len(v) :
               (p \o v)[i] = IF i <= Len(p) THEN p[i] ELSE v[i - Len(p)]
      BY <2>1, ConcatProperties DEF p
    <3> QED
      BY <2>1, <3>1 DEF p
  <2>3. Len(v) \in Nat /\ (v = <<>> => Len(v) = 0)
    BY LenProperties, EmptySeq
  <2> HIDE DEF z
  <2>4. ~Begins(z, HTTP.old, 0)
    <3> SUFFICES ASSUME 0 + 2 <= Len(z), z[0 + 1] = "h", z[0 + 2] = "/"
                 PROVE  FALSE
      BY BeginsOrigin
    <3>1. Len(v) >= 1 /\ z[1] = "h" /\ z[2] = "/"
      BY <2>2, <2>3
    <3>2. 1 \in 1 .. 1 + Len(v) /\ 2 \in 1 .. 1 + Len(v)
      BY <2>3, <3>1
    <3>3. z[1] = x
      BY <2>1, <2>2, <3>2
    <3>4. z[2] = v[1]
      BY <2>2, <3>2
    <3> QED
      BY <1>8, <2>3, <3>1, <3>3, <3>4
  <2> QED
    BY <1>2, <2>4, ReplaceByte, ZenonT(60) DEF z
<1>9. ASSUME NEW s \in 0 .. n, \A x \in s + 1 .. n : T(x)
      PROVE  T(s)
  <2> HIDE DEF n
  <2>1. s \in Nat /\ n \in Nat
    BY <1>1
  <2>2. CASE s = n
    <3>1. ReplaceEvery(<<>>, HTTP) = <<>>
      BY <1>2, ReplaceNothing
    <3> QED
      BY <1>5, <2>2, <3>1
  <2>3. CASE Begins(t, HTTPS.old, s)
    <3>1. s + 3 <= n
      BY <2>1, <2>3, BeginsOrigin DEF n
    <3>2. s + 3 \in s + 1 .. n /\ s + 3 \in 0 .. n
      BY <2>1, <3>1
    <3>3. u[s] = <<"F">> \o u[s + 3] /\ w[s] = <<"F">> \o w[s + 3]
      BY <1>6, <2>3
    <3>4. u[s + 3] \in Seq(S)
      BY <1>5, <3>2
    <3>5. ReplaceEvery(<<"F">> \o u[s + 3], HTTP)
            = <<"F">> \o ReplaceEvery(u[s + 3], HTTP)
      BY <1>8, <3>4
    <3>6. T(s + 3)
      BY <1>9, <3>2
    <3> QED
      BY <3>3, <3>5, <3>6
  <2>4. CASE Begins(t, HTTP.old, s)
    <3>1. s + 2 <= n /\ t[s + 1] = "h" /\ t[s + 2] = "/"
      BY <2>1, <2>4, BeginsOrigin DEF n
    <3>2. /\ s + 2 \in s + 1 .. n /\ s + 2 \in 0 .. n /\ s + 1 \in Nat
          /\ s \in 0 .. n - 1 /\ s + 1 \in 0 .. n - 1 /\ s # n /\ s + 1 # n
          /\ s + 1 \in 0 .. n /\ (s + 1) + 1 = s + 2
      BY <2>1, <3>1
    <3>3. ~Begins(t, HTTPS.old, s)
      BY <2>1, <3>1, BeginsOrigin
    <3>4. ~Begins(t, HTTPS.old, s + 1)
      <4> DEFINE a == s + 1
      <4>1. a \in Nat /\ a + 1 = s + 2
        BY <3>2
      <4> HIDE DEF a
      <4>2. ~Begins(t, HTTPS.old, a)
        BY <3>1, <4>1, BeginsOrigin
      <4> QED
        BY <4>2 DEF a
    <3> DEFINE v == u[s + 2]
    <3>5. u[s] = <<"h">> \o u[s + 1]
      BY <1>6, <1>7, <3>1, <3>2, <3>3
    <3>6. u[s + 1] = <<"/">> \o v
      <4> DEFINE a == s + 1
      <4>1. /\ a \in 0 .. n /\ a # n /\ ~Begins(t, HTTPS.old, a)
            /\ a \in 0 .. n - 1 /\ a + 1 = s + 2
        BY <3>2, <3>4
      <4> HIDE DEF a
      <4>2. u[a] = Slice(t, a, a + 1) \o u[a + 1]
        BY <1>6, <4>1
      <4>3. Slice(t, a, a + 1) = <<"/">>
        BY <1>7, <3>1, <4>1
      <4> QED
        BY <4>1, <4>2, <4>3 DEF a
    <3>7. v \in Seq(S)
      BY <1>5, <3>2
    <3> HIDE DEF v
    <3>8. <<"h">> \o (<<"/">> \o v) = <<"h", "/">> \o v
      <4> DEFINE p == <<"h">>
                 q == <<"/">>
                 r == <<"h", "/">>
      <4>1. p \in Seq(S) /\ q \in Seq(S) /\ r \in Seq(S)
        OBVIOUS
      <4>2. /\ Len(p) = 1 /\ Len(q) = 1 /\ Len(r) = 2 /\ p[1] = "h"
            /\ q[1] = "/" /\ r[1] = "h" /\ r[2] = "/"
        OBVIOUS
      <4> HIDE DEF p, q, r
      <4>3. /\ p \o q \in Seq(S) /\ Len(p \o q) = Len(p) + Len(q)
            /\ \A i \in 1 .. Len(p) + Len(q) :
                 (p \o q)[i] = IF i <= Len(p) THEN p[i] ELSE q[i - Len(p)]
        BY <4>1, ConcatProperties
      <4>4. Len(p \o q) = 2 /\ \A i \in 1 .. 2 : (p \o q)[i] = r[i]
        BY <4>2, <4>3
      <4>5. p \o q = r
        <5> DEFINE x == p \o q
        <5>1. x \in Seq(S) /\ Len(x) = Len(r) /\ \A i \in 1 .. Len(x) : x[i] = r[i]
          BY <4>2, <4>3, <4>4
        <5> HIDE DEF x
        <5>2. x = r
          BY <4>1, <5>1, SeqEqual
        <5> QED
          BY <5>2 DEF x
      <4>6. (p \o q) \o v = p \o (q \o v)
        <5>1. Regrouped(p, q, v)
          BY <3>7, <4>1, ConcatThree
        <5> QED
          BY <5>1 DEF Regrouped
      <4> QED
        BY <4>5, <4>6 DEF p, q, r
    <3>9. ReplaceEvery(HTTP.old \o v, HTTP) = HTTP.new \o ReplaceEvery(v, HTTP)
      BY <1>2, <3>7, ReplaceMatch
    <3>10. ReplaceEvery(u[s], HTTP) = <<"F">> \o ReplaceEvery(v, HTTP)
      BY <1>4, <3>5, <3>6, <3>8, <3>9
    <3>11. T(s + 2)
      BY <1>9, <3>2
    <3>12. w[s] = <<"F">> \o w[s + 2]
      BY <1>6, <2>4
    <3> QED
      BY <3>10, <3>11, <3>12 DEF v
  <2>5. CASE s # n /\ ~Begins(t, HTTPS.old, s) /\ ~Begins(t, HTTP.old, s)
    <3> DEFINE a == s + 1
               v == u[a]
               x == t[a]
    <3>1. s \in 0 .. n - 1 /\ a \in s + 1 .. n /\ a \in 0 .. n /\ a \in Nat
      BY <2>1, <2>5
    <3>2. /\ u[s] = <<x>> \o v /\ w[s] = <<x>> \o w[a] /\ x \in S
      BY <1>6, <1>7, <2>5, <3>1
    <3>3. v \in Seq(S)
      BY <1>5, <3>1
    <3> HIDE DEF a
    <3>4. x # "h" \/ v = <<>> \/ v[1] # "/"
      <4>1. CASE a = n
        BY <1>5, <4>1
      <4>2. CASE Begins(t, HTTPS.old, a)
        <5>1. v = <<"F">> \o u[a + 3]
          BY <1>6, <3>1, <4>2
        <5>2. a + 3 \in 0 .. n
          <6>1. a + 3 <= n
            BY <3>1, <4>2, BeginsOrigin DEF n
          <6> QED
            BY <2>1, <3>1, <6>1
        <5>3. u[a + 3] \in Seq(S)
          BY <1>5, <5>2
        <5>4. (<<"F">> \o u[a + 3])[1] = "F"
          BY <5>3
        <5> QED
          BY <5>1, <5>4
      <4>3. CASE a # n /\ ~Begins(t, HTTPS.old, a)
        <5>1. /\ v = Slice(t, a, a + 1) \o u[a + 1]
          BY <1>6, <3>1, <4>3
        <5>2. a \in 0 .. n - 1 /\ a + 1 \in 0 .. n /\ a + 1 <= n
          BY <2>1, <3>1, <4>3
        <5>3. Slice(t, a, a + 1) = <<t[a + 1]>> /\ u[a + 1] \in Seq(S)
              /\ t[a + 1] \in S
          BY <1>5, <1>7, <5>2
        <5> DEFINE y == t[a + 1]
                   z == u[a + 1]
        <5>4. v = <<y>> \o z /\ y \in S /\ z \in Seq(S)
          BY <5>1, <5>3
        <5> HIDE DEF y, z
        <5>5. (<<y>> \o z)[1] = y
          BY <5>4
        <5>6. x # "h" \/ y # "/"
          <6>1. a = s + 1 /\ a + 1 = s + 2
            BY <2>1 DEF a
          <6> QED
            BY <2>1, <2>5, <5>2, <6>1, BeginsOrigin DEF n, y
        <5> QED
          BY <5>4, <5>5, <5>6
      <4> QED
        BY <4>1, <4>2, <4>3
    <3>5. T(a)
      BY <1>9, <3>1
    <3> HIDE DEF v, x
    <3>6. ReplaceEvery(<<x>> \o v, HTTP) = <<x>> \o ReplaceEvery(v, HTTP)
      BY <1>8, <3>2, <3>3, <3>4
    <3> QED
      BY <3>2, <3>5, <3>6 DEF v
  <2> QED
    BY <2>2, <2>3, <2>4, <2>5
<1> DEFINE Bad == {m \in 0 .. n : ~T(n - m)}
<1>10. Bad = {}
  <2> SUFFICES ASSUME Bad # {} PROVE FALSE
    OBVIOUS
  <2> HIDE DEF n, T
  <2>1. Bad \in SUBSET Nat
    OBVIOUS
  <2>2. PICK m \in Bad : \A x \in Bad : m <= x
    <3> HIDE DEF Bad
    <3> QED
      BY <2>1, LeastElement
  <2>3. m \in 0 .. n /\ n - m \in 0 .. n /\ ~T(n - m)
    BY <1>1
  <2>4. ASSUME NEW x \in (n - m) + 1 .. n PROVE T(x)
    <3>1. n - x \in 0 .. n /\ ~(m <= n - x) /\ n - (n - x) = x
      BY <1>1, <2>3
    <3>2. n - x \notin Bad
      <4> HIDE DEF Bad
      <4> QED
        BY <2>2, <3>1
    <3> QED
      BY <3>1, <3>2
  <2> QED
    BY <1>9, <2>3, <2>4
<1>11. n - k \in 0 .. n /\ n - (n - k) = k
  BY <1>1
<1>12. T(k)
  <2> HIDE DEF n, T
  <2> QED
    BY <1>10, <1>11
<1> QED
  BY <1>12

\* The rules of a response that passes.
Origins == {<<>>, <<HTTPS>>, <<HTTPS, HTTP>>}

\* What is meant to come out is the reference's.
LEMMA OriginsReplaced ==
  ASSUME NEW S, "h" \in S, "s" \in S, "/" \in S, "F" \in S, NEW t \in Seq(S),
         NEW rs \in Origins, NEW w, Clean(t, rs, S, w)
  PROVE  Rewritten(t, rs) = w[0]
<1>1. Fit(<<>>, S) /\ Fit(<<HTTPS>>, S)
  BY OriginFit
<1>2. Len(t) \in Nat /\ 0 \in 0 .. Len(t)
  BY LenProperties
<1>3. CASE rs = <<>>
  <2>1. Bare(t, <<>>, 0, Len(t))
    BY DEF Bare
  <2>2. Len(t) \in 0 .. Len(t)
    BY <1>2
  <2>3. Kept(t, w, 0, Len(t))
    BY <1>2, <1>3, <2>1, <2>2, Skip
  <2>4. w[0] = Slice(t, 0, Len(t)) \o w[Len(t)] /\ w[Len(t)] = <<>>
    BY <2>3 DEF Kept, Clean
  <2>5. t \o <<>> = t
    BY ConcatEmptySeq
  <2>6. w[0] = t
    BY <2>4, <2>5, SliceAll
  <2> QED
    BY <1>3, <2>6, RewrittenNone
<1>4. CASE rs = <<HTTPS>>
  <2>1. ReplaceEvery(t, HTTPS) = w[0]
    BY <1>1, <1>4, Replaces
  <2> QED
    BY <1>4, <2>1, RewrittenOne
<1>5. CASE rs = <<HTTPS, HTTP>>
  <2>1. PICK u : Clean(t, <<HTTPS>>, S, u)
    BY <1>1, CleanExists, Zenon
  <2>2. ReplaceEvery(t, HTTPS) = u[0]
    BY <1>1, <2>1, Replaces, Zenon
  <2>3. Clean(t, <<HTTPS, HTTP>>, S, w)
    BY <1>5, Zenon
  <2>4. Twice(S, t, u, w)
    BY <2>1, <2>3, Zenon DEF Twice
  <2>5. ReplaceEvery(u[0], HTTP) = w[0]
    BY <1>2, <2>4, InTurnOrAtOnce
  <2> QED
    BY <1>5, <2>2, <2>5, RewrittenTwo
<1> QED
  BY <1>3, <1>4, <1>5 DEF Origins

-----------------------------------------------------------------------------
(* rewriteStream.                                                          *)

\* What has gone out and what is still to come of what was read make up the
\* text with its origins replaced, and little of what was read is held back.
Streaming(S, rs, w) ==
  /\ body \in Seq(S) /\ pending \in Seq(S) /\ out \in Seq(S)
  /\ at \in 0 .. Len(body) /\ Len(pending) <= at
  /\ pending = Slice(body, at - Len(pending), at)
  /\ Len(pending) <= Keep(rs)
  /\ Clean(body, rs, S, w)
  /\ out \o w[at - Len(pending)] = w[0]

LEMMA OriginsKept ==
  ASSUME NEW rs \in Origins
  PROVE  /\ Keep(rs) \in Nat
         /\ \A r \in DOMAIN rs : Len(rs[r].old) - 1 <= Keep(rs)
<1>1. Len(HTTPS.old) = 3 /\ Len(HTTP.old) = 2
  BY KeepIs
<1>2. CASE rs = <<>>
  BY <1>2, KeepIs
<1>3. ASSUME Keep(rs) = 2,
             \A r \in DOMAIN rs : rs[r] = HTTPS \/ rs[r] = HTTP
      PROVE  /\ Keep(rs) \in Nat
             /\ \A r \in DOMAIN rs : Len(rs[r].old) - 1 <= Keep(rs)
  <2>1. \A r \in DOMAIN rs : Len(rs[r].old) = 3 \/ Len(rs[r].old) = 2
    BY <1>1, <1>3, Zenon
  <2>2. ASSUME NEW r \in DOMAIN rs PROVE Len(rs[r].old) - 1 <= Keep(rs)
    <3> DEFINE l == Len(rs[r].old)
               k == Keep(rs)
    <3>1. (l = 3 \/ l = 2) /\ k = 2
      BY <1>3, <2>1, Zenon
    <3> HIDE DEF l, k
    <3>2. l - 1 <= k
      BY <3>1
    <3> QED
      BY <3>2, Zenon DEF l, k
  <2>3. Keep(rs) \in Nat
    BY <1>3
  <2> QED
    BY <2>2, <2>3
<1>4. CASE rs = <<HTTPS>>
  <2>1. \A r \in DOMAIN <<HTTPS>> : <<HTTPS>>[r] = HTTPS
    OBVIOUS
  <2>2. \A r \in DOMAIN rs : rs[r] = HTTPS
    BY <1>4, <2>1, Zenon
  <2>3. Keep(rs) = 2
    BY <1>4, KeepIs, Zenon
  <2> QED
    BY <1>3, <2>2, <2>3
<1>5. CASE rs = <<HTTPS, HTTP>>
  <2>1. \A r \in DOMAIN <<HTTPS, HTTP>> :
          <<HTTPS, HTTP>>[r] = HTTPS \/ <<HTTPS, HTTP>>[r] = HTTP
    OBVIOUS
  <2>2. \A r \in DOMAIN rs : rs[r] = HTTPS \/ rs[r] = HTTP
    BY <1>5, <2>1, Zenon
  <2>3. Keep(rs) = 2
    BY <1>5, KeepIs, Zenon
  <2> QED
    BY <1>3, <2>2, <2>3
<1> QED
  BY <1>2, <1>4, <1>5, Zenon DEF Origins

\* A turn of the loop keeps it so.
LEMMA CopyStep ==
  ASSUME NEW S, NEW rs \in Origins, Fit(rs, S), NEW w, Streaming(S, rs, w),
         NEW n \in 0 .. Len(body) - at, NEW eof \in BOOLEAN,
         eof => n = Len(body) - at, Copied(rs, n, eof)
  PROVE  /\ Streaming(S, rs, w)'
         /\ eof => at' = Len(body') /\ pending' = <<>>
<1> DEFINE p == Len(pending)
           c == at - p
           e == at + n
           keep == Keep(rs)
           data == pending \o Slice(body, at, e)
           done == writeRewritten(data, rs, keep, eof)
           x == c + done.end
<1>1. /\ body \in Seq(S) /\ pending \in Seq(S) /\ out \in Seq(S)
      /\ at \in 0 .. Len(body) /\ p <= at /\ pending = Slice(body, c, at)
      /\ Clean(body, rs, S, w) /\ out \o w[c] = w[0]
  BY DEF Streaming
<1>2. /\ at' = e /\ out' = out \o done.out /\ body' = body
      /\ pending' = IF eof THEN <<>> ELSE Slice(data, done.end, Len(data))
  BY DEF Copied
<1>3. /\ Len(body) \in Nat /\ p \in Nat /\ at \in Nat /\ e \in Nat /\ c \in Nat
      /\ c <= at /\ at <= e /\ e <= Len(body) /\ at - c = p
      /\ (eof => e = Len(body)) /\ e - c \in Nat
  <2>1. Len(body) \in Nat /\ p \in Nat
    BY <1>1, LenProperties
  <2> QED
    BY <1>1, <2>1
<1>4. keep \in Nat /\ \A r \in DOMAIN rs : Len(rs[r].old) - 1 <= keep
  BY OriginsKept
<1> HIDE DEF p, c, e, keep
<1>5. data = Slice(body, c, e)
  <2>1. c \in 0 .. Len(body) /\ at \in c .. Len(body) /\ e \in at .. Len(body)
    BY <1>3
  <2>2. Slice(body, c, at) \o Slice(body, at, e) = Slice(body, c, e)
    BY <1>1, <2>1, SliceJoin
  <2> QED
    BY <1>1, <2>2
<1>6. c \in 0 .. Len(body) /\ e \in c .. Len(body)
  BY <1>3
<1>7. Good(body, w, S, c, e, keep, eof, 0,
           writeRewritten(Slice(body, c, e), rs, keep, eof))
  BY <1>1, <1>3, <1>4, <1>6, Chunk
<1>8. Good(body, w, S, c, e, keep, eof, 0, done)
  BY <1>5, <1>7
<1>9. Len(data) = e - c
  BY <1>1, <1>5, <1>6, SliceIs
<1> HIDE DEF data, done
<1>10. /\ done.end \in 0 .. e - c /\ done.out \in Seq(S)
       /\ done.out \o w[c + done.end] = w[c + 0]
       /\ ~eof => (e - c) - done.end <= keep
       /\ eof => done.end = e - c
  BY <1>8 DEF Good
<1>11. /\ x \in c .. e /\ x \in 0 .. Len(body) /\ c + 0 = c /\ x \in Nat
       /\ (eof => x = e) /\ (~eof => e - x <= keep) /\ e - x \in Nat
       /\ c + (e - c) = e /\ e - (e - x) = x /\ e \in x .. Len(body)
  <2> DEFINE d == done.end
  <2>1. /\ d \in 0 .. e - c /\ (eof => d = e - c)
        /\ ~eof => (e - c) - d <= keep
    BY <1>10
  <2> HIDE DEF d
  <2>2. /\ c + d \in c .. e /\ c + d \in 0 .. Len(body) /\ c + 0 = c
        /\ c + d \in Nat
        /\ (eof => c + d = e) /\ (~eof => e - (c + d) <= keep)
        /\ e - (c + d) \in Nat
        /\ c + (e - c) = e /\ e - (e - (c + d)) = c + d
        /\ e \in c + d .. Len(body)
    BY <1>3, <1>4, <2>1
  <2> QED
    BY <2>2 DEF d
<1>12. done.out \o w[x] = w[c]
  BY <1>10, <1>11
<1>13. pending' = Slice(body, x, e)
  <2>1. CASE eof
    <3>1. x = e /\ pending' = <<>>
      BY <1>2, <1>11, <2>1
    <3>2. Slice(body, e, e) = <<>>
      BY <1>3, SliceEmpty
    <3> QED
      BY <3>1, <3>2
  <2>2. CASE ~eof
    <3>1. pending' = Slice(data, done.end, e - c)
      BY <1>2, <1>9, <2>2
    <3> DEFINE d == done.end
    <3>2. d \in 0 .. e - c /\ e - c \in d .. e - c
      BY <1>3, <1>10
    <3> HIDE DEF d
    <3>3. Slice(Slice(body, c, e), d, e - c) = Slice(body, c + d, c + (e - c))
      BY <1>1, <1>6, <3>2, SliceOfSlice
    <3> QED
      BY <1>5, <1>11, <3>1, <3>3 DEF d
  <2> QED
    BY <2>1, <2>2
<1> HIDE DEF x
<1>14. pending' \in Seq(S) /\ Len(pending') = e - x
  BY <1>1, <1>11, <1>13, SliceIs, ZenonT(60)
<1>15. e - x <= keep
  BY <1>3, <1>4, <1>11
<1>16. out' \in Seq(S) /\ out' \o w[x] = w[0]
  <2> DEFINE a == done.out
             v == w[x]
  <2>1. a \in Seq(S)
    BY <1>10
  <2>2. v \in Seq(S)
    BY <1>1, <1>11 DEF Clean
  <2>3. a \o v = w[c] /\ out' = out \o a
    BY <1>2, <1>12
  <2> HIDE DEF a, v
  <2>4. Regrouped(out, a, v)
    BY <1>1, <2>1, <2>2, ConcatThree
  <2>5. (out \o a) \o v = out \o (a \o v)
    BY <2>4 DEF Regrouped
  <2>6. out \o a \in Seq(S)
    BY <1>1, <2>1, ConcatProperties
  <2>7. out' \in Seq(S)
    BY <2>3, <2>6
  <2>8. out' \o v = w[0]
    BY <1>1, <2>3, <2>5
  <2> QED
    BY <2>7, <2>8 DEF v
<1>17. at' - Len(pending') = x /\ at' = e /\ Len(pending') <= at'
  BY <1>2, <1>3, <1>11, <1>14
<1>18. pending' = Slice(body', at' - Len(pending'), at')
  BY <1>2, <1>13, <1>17
<1>19. at' \in 0 .. Len(body')
  BY <1>2, <1>3
<1>20. Len(pending') <= Keep(rs)
  BY <1>14, <1>15 DEF keep
<1>21. out' \o w[at' - Len(pending')] = w[0]
  BY <1>16, <1>17
<1>22. body' \in Seq(S) /\ Clean(body', rs, S, w)
  BY <1>1, <1>2
<1>23. Streaming(S, rs, w)'
  BY <1>14, <1>16, <1>17, <1>18, <1>19, <1>20, <1>21, <1>22 DEF Streaming
<1>24. eof => at' = Len(body') /\ pending' = <<>>
  BY <1>2, <1>3
<1> QED
  BY <1>23, <1>24

\* Before the first read.
LEMMA StreamStart ==
  ASSUME NEW S, NEW rs \in Origins, Fit(rs, S), body \in Seq(S), at = 0,
         pending = <<>>, out = <<>>
  PROVE  \E w : Streaming(S, rs, w)
<1>1. PICK w : Clean(body, rs, S, w)
  BY CleanExists
<1>2. Len(body) \in Nat /\ Len(<<>>) = 0 /\ <<>> \in Seq(S) /\ 0 - 0 = 0
      /\ 0 \in 0 .. Len(body)
  BY LenProperties, EmptySeq
<1>3. w[0] \in Seq(S)
  BY <1>1, <1>2 DEF Clean
<1>4. <<>> \o w[0] = w[0]
  BY <1>3, ConcatEmptySeq
<1>5. Slice(body, 0, 0) = <<>>
  BY SliceEmpty
<1>6. Keep(rs) \in Nat
  BY OriginsKept
<1> QED
  BY <1>1, <1>2, <1>4, <1>5, <1>6 DEF Streaming

\* What has gone out is the beginning of the text that is meant to; once all
\* was read and nothing is held back it is all of it.
LEMMA StreamOut ==
  ASSUME NEW S, "h" \in S, "s" \in S, "/" \in S, "F" \in S,
         NEW rs \in Origins, NEW w, Streaming(S, rs, w)
  PROVE  /\ IsPrefix(out, Rewritten(body, rs))
         /\ at = Len(body) /\ pending = <<>> => out = Rewritten(body, rs)
<1> DEFINE x == at - Len(pending)
           v == w[x]
           t == Rewritten(body, rs)
<1>1. /\ body \in Seq(S) /\ pending \in Seq(S) /\ out \in Seq(S)
      /\ at \in 0 .. Len(body) /\ Len(pending) <= at
      /\ Clean(body, rs, S, w) /\ out \o v = w[0]
  BY DEF Streaming
<1>2. t = w[0]
  BY <1>1, OriginsReplaced
<1>3. Len(body) \in Nat /\ Len(pending) \in Nat
  BY <1>1, LenProperties
<1>4. x \in 0 .. Len(body)
  BY <1>1, <1>3
<1>5. v \in Seq(S)
  <2> HIDE DEF x
  <2> QED
    BY <1>1, <1>4 DEF Clean
<1> HIDE DEF v, t
<1>6. Parts(S, out, v)
  BY <1>1, <1>5, SliceConcat
<1>7. IsPrefix(out, t)
  <2>1. t = out \o v
    BY <1>1, <1>2
  <2>2. /\ Len(t) = Len(out) + Len(v) /\ Slice(t, 0, Len(out)) = out
    BY <1>6, <2>1 DEF Parts
  <2>3. SubSeq(t, 1, Len(out)) = out
    BY <2>2 DEF Slice
  <2>4. SubSeq(out, 1, Len(out)) = out
    BY <1>1, SubSeqFull
  <2>5. Len(out) \in Nat /\ Len(v) \in Nat
    BY <1>1, <1>5, LenProperties
  <2>6. Len(out) <= Len(t)
    BY <2>2, <2>5
  <2> QED
    BY <2>3, <2>4, <2>6 DEF IsPrefix
<1>8. ASSUME at = Len(body), pending = <<>> PROVE out = t
  <2>1. x = Len(body)
    <3>1. Len(pending) = 0
      BY <1>8, EmptySeq
    <3> QED
      BY <1>3, <1>8, <3>1
  <2>2. v = <<>>
    BY <1>1, <2>1 DEF v, Clean
  <2>3. out \o <<>> = out
    BY <1>1, ConcatEmptySeq
  <2> QED
    BY <1>1, <1>2, <2>2, <2>3
<1> QED
  BY <1>7, <1>8 DEF t

-----------------------------------------------------------------------------
(* A response on its way to the client.                                    *)

\* What bodies are made of.  The provers do not find that these four are
\* strings.
Sym == STRING \cup {"h", "s", "/", "F"}

Untouched == at = 0 /\ pending = <<>> /\ out = <<>>

StreamInv ==
  /\ \E w : Streaming(Sym, rules, w)
  /\ pc \notin {"body", "failed", "done"} =>
       Untouched /\ resp.encoding = "identity"
  /\ Unreadable(resp) => Untouched /\ pc # "body"
  /\ conn = "ended" /\ traffic = "proxy" =>
       /\ pc = "done"
       /\ sent = 200 => at = Len(body) /\ pending = <<>>

LEMMA SymFit ==
  /\ "h" \in Sym /\ "s" \in Sym /\ "/" \in Sym /\ "F" \in Sym
  /\ \A rs \in Origins : Fit(rs, Sym)
<1>1. "h" \in Sym /\ "s" \in Sym /\ "/" \in Sym /\ "F" \in Sym
  BY DEF Sym
<1> QED
  BY <1>1, OriginFit DEF Origins

\* The rules of the response, whatever it is.
LEMMA RulesAre == rules \in Origins
<1>1. \A e : rewriteRules(e) \in Origins
  <2> TAKE e
  <2>1. CASE e = "npm"
    BY <2>1, OriginRules DEF Origins
  <2>2. CASE e = "pypi"
    BY <2>2, OriginRules DEF Origins
  <2>3. CASE e \notin {"npm", "pypi"}
    BY <2>3, OriginRules DEF Origins
  <2> QED
    BY <2>1, <2>2, <2>3
<1>2. <<>> \in Origins
  BY DEF Origins
<1> QED
  BY <1>1, <1>2 DEF rules

\* Nothing was read yet.
LEMMA StreamFresh ==
  Untouched /\ body \in Seq(Sym) => \E w : Streaming(Sym, rules, w)
<1> SUFFICES ASSUME Untouched, body \in Seq(Sym)
             PROVE  \E w : Streaming(Sym, rules, w)
  OBVIOUS
<1>1. PICK rs \in Origins : rs = rules
  BY RulesAre
<1>2. \E w : Streaming(Sym, rs, w)
  BY SymFit, StreamStart DEF Untouched
<1> QED
  BY <1>1, <1>2

\* Bodies are texts.
LEMMA BodiesAre ==
  File \in Seq(Sym) /\ Bodies \subseteq Seq(Sym) /\ <<>> \in Seq(Sym)
<1>1. Seq(STRING) \subseteq Seq(Sym)
  BY SeqMonotonic DEF Sym
<1> QED
  BY <1>1, ServerAssumption, EmptySeq

\* Neither the body nor the kind of response changes.
LEMMA StreamRests ==
  ASSUME StreamInv, UNCHANGED <<streamVars, resp, route>>
  PROVE  /\ (\E w : Streaming(Sym, rules, w))'
         /\ UNCHANGED <<Untouched, Unreadable(resp), body, at, pending>>
<1>1. UNCHANGED <<body, at, pending, out>>
  BY DEF streamVars
<1>2. UNCHANGED <<rules, Unreadable(resp)>>
  BY DEF rules, Unreadable, shouldRewrite, rewritableRoute
<1>3. PICK w : Streaming(Sym, rules, w)
  BY DEF StreamInv
<1>4. Streaming(Sym, rules, w)'
  BY <1>1, <1>2, <1>3 DEF Streaming
<1> QED
  BY <1>1, <1>2, <1>4 DEF Untouched

\* A response rests while the handler goes on, and ends as if complete only
\* with a status of its own.
LEMMA StreamStays ==
  ASSUME StreamInv, UNCHANGED <<streamVars, resp, route, traffic>>,
         pc' \notin {"body", "failed", "done"} =>
           pc \notin {"body", "failed", "done"},
         pc' = "body" => pc = "body",
         conn' = "ended" /\ traffic = "proxy" =>
           \/ conn = "ended" /\ UNCHANGED <<pc, sent>>
           \/ pc' = "done" /\ sent' # 200
  PROVE  StreamInv'
<1> DEFINE u == Untouched
           z == Unreadable(resp)
           streams == \E w : Streaming(Sym, rules, w)
<1>1. streams' /\ u' = u /\ z' = z
  BY StreamRests
<1>2. UNCHANGED <<body, at, pending, resp, traffic>>
  BY DEF streamVars
<1>3. /\ pc \notin {"body", "failed", "done"} => u /\ resp.encoding = "identity"
      /\ z => u /\ pc # "body"
      /\ conn = "ended" /\ traffic = "proxy" =>
           /\ pc = "done"
           /\ sent = 200 => at = Len(body) /\ pending = <<>>
  BY DEF StreamInv
<1>4. StreamInv' =
        (/\ streams
         /\ pc \notin {"body", "failed", "done"} =>
              u /\ resp.encoding = "identity"
         /\ z => u /\ pc # "body"
         /\ conn = "ended" /\ traffic = "proxy" =>
              /\ pc = "done"
              /\ sent = 200 => at = Len(body) /\ pending = <<>>)'
  BY DEF StreamInv
<1> HIDE DEF u, z, streams
<1>5. /\ pc' \notin {"body", "failed", "done"} =>
           u' /\ resp'.encoding = "identity"
      /\ z' => u' /\ pc' # "body"
  BY <1>1, <1>2, <1>3
<1>6. conn' = "ended" /\ traffic' = "proxy" =>
           /\ pc' = "done"
           /\ sent' = 200 => at' = Len(body') /\ pending' = <<>>
  BY <1>2, <1>3
<1> QED
  BY <1>1, <1>4, <1>5, <1>6

\* A response begins: its headers are known and nothing of it was read.
LEMMA StreamBegins ==
  ASSUME StreamInv, UNCHANGED <<at, pending, out, route, traffic, conn>>,
         pc \notin {"body", "failed", "done"}, pc' \in {"body", "failed"},
         body' \in Seq(Sym), Unreadable(resp)' => pc' # "body"
  PROVE  StreamInv'
<1>1. Untouched /\ ~(conn = "ended" /\ traffic = "proxy")
  BY DEF StreamInv
<1>2. Untouched'
  BY <1>1 DEF Untouched
<1>3. (\E w : Streaming(Sym, rules, w))'
  <2>1. (Untouched /\ body \in Seq(Sym) => \E w : Streaming(Sym, rules, w))'
    BY StreamFresh, PTL
  <2> QED
    BY <1>2, <2>1
<1> QED
  BY <1>1, <1>2, <1>3 DEF StreamInv

\* A turn of rewriteStream's loop.
LEMMA StreamCopies ==
  ASSUME StreamInv, NEW n \in 0 .. Len(body) - at, NEW eof \in BOOLEAN,
         eof => n = Len(body) - at, Copied(rules, n, eof), pc = "body",
         UNCHANGED <<resp, route, traffic>>,
         pc' = IF eof THEN "done" ELSE "body",
         conn = "open", conn' = IF eof THEN "ended" ELSE "open"
  PROVE  StreamInv'
<1>1. PICK rs \in Origins : rs = rules
  BY RulesAre
<1>2. PICK w : Streaming(Sym, rs, w)
  BY <1>1 DEF StreamInv
<1>3. Copied(rs, n, eof)
  BY <1>1
<1>4. Streaming(Sym, rs, w)' /\ (eof => at' = Len(body') /\ pending' = <<>>)
  BY <1>2, <1>3, SymFit, CopyStep
<1>5. rules' = rs /\ Unreadable(resp)' = Unreadable(resp)
  BY <1>1 DEF rules, Unreadable, shouldRewrite, rewritableRoute
<1>6. (\E w_1 : Streaming(Sym, rules, w_1))'
  BY <1>4, <1>5 DEF Streaming
<1>7. ~Unreadable(resp)
  BY DEF StreamInv
<1> QED
  BY <1>4, <1>5, <1>6, <1>7 DEF StreamInv

\* Only Hit, Respond, Stream and Complete touch a response; the rest go on or
\* end it with a status that is not 200, or with a reset.
LEMMA StreamStep == HandleInv /\ StreamInv /\ [Next]_vars => StreamInv'
<1> SUFFICES ASSUME HandleInv, StreamInv, [Next]_vars PROVE StreamInv'
  OBVIOUS
<1>0. /\ pc # "idle" => traffic = "proxy"
      /\ conn = "ended" /\ traffic = "proxy" => pc = "done"
      /\ pc = "body" => sent = 200
      /\ pc = "failed" => sent \in {0, 200}
  BY DEF HandleInv, StreamInv
<1> USE DEF Go, Onwards, Reply
<1>1. CASE Arrive
  <2>1. /\ pc = "idle" /\ pc' = "routed" /\ traffic = "proxy"
        /\ UNCHANGED <<body, at, pending, out, resp, traffic, conn>>
    BY <1>1 DEF Arrive, streamVars, confVars, respVars
  <2>2. Untouched /\ resp.encoding = "identity" /\ conn # "ended"
    BY <1>0, <2>1 DEF StreamInv
  <2>3. body \in Seq(Sym)
    BY DEF StreamInv, Streaming
  <2>4. (Untouched /\ body \in Seq(Sym) => \E w : Streaming(Sym, rules, w))'
    BY StreamFresh, PTL
  <2>5. Untouched' /\ body' \in Seq(Sym)
    BY <2>1, <2>2, <2>3 DEF Untouched
  <2>6. (\E w : Streaming(Sym, rules, w))'
    BY <2>4, <2>5
  <2>7. resp'.encoding = "identity" /\ ~Unreadable(resp)'
    BY <2>1, <2>2 DEF Unreadable
  <2> QED
    BY <2>1, <2>2, <2>5, <2>6, <2>7 DEF StreamInv
<1>2. CASE Admit \/ ReleaseKnown \/ IntelKnown \/ Bypass \/ Lookup \/ Lead
           \/ Acquired \/ Wait \/ WaitOver
  <2>1. /\ pc \in {"routed", "release", "intel", "decided", "lookup", "wait",
                   "acquire"}
        /\ pc' \in {"release", "intel", "decided", "lookup", "upstream", "wait",
                    "acquire"}
        /\ UNCHANGED <<streamVars, traffic, resp, route, conn>>
    <3> USE DEF confVars, respVars
    <3>1. CASE Admit
      BY <3>1 DEF Admit
    <3>2. CASE ReleaseKnown \/ IntelKnown
      BY <3>2 DEF ReleaseKnown, IntelKnown
    <3>3. CASE Bypass \/ Lookup \/ Lead \/ Acquired \/ WaitOver
      <4>1. /\ Onwards /\ pc \in {"decided", "lookup", "wait", "acquire"}
            /\ pc' \in {"upstream", "lookup", "acquire"}
        BY <3>3, Zenon DEF Bypass, Lookup, Lead, Acquired, WaitOver
      <4> QED
        BY <4>1
    <3>4. CASE Wait
      BY <3>4 DEF Wait
    <3> QED
      BY <1>2, <3>1, <3>2, <3>3, <3>4
  <2> QED
    BY <1>0, <2>1, StreamStays
<1>3. CASE Unauthorized \/ NotFound \/ Blocked
  <2>1. /\ pc' = "done" /\ sent' \in {401, 403, 404}
        /\ UNCHANGED <<streamVars, confVars, callVars, resp>>
    BY <1>3 DEF Unauthorized, NotFound, Refuse, Blocked
  <2> QED
    BY <2>1, StreamStays DEF confVars, callVars
<1>4. CASE Hit
  <2>1. /\ pc = "lookup" /\ pc' = "body" /\ body' = File
        /\ resp' = [type |-> "other", encoding |-> "identity"]
        /\ UNCHANGED <<at, pending, out, route, traffic, conn>>
    BY <1>4 DEF Hit, confVars
  <2>2. ~Unreadable(resp)' /\ body' \in Seq(Sym)
    BY <2>1, BodiesAre DEF Unreadable
  <2> QED
    BY <2>1, <2>2, StreamBegins
<1>5. CASE Respond
  <2>1. \E r : \E b \in {File} \cup Bodies : Responds(r, b)
    <3>1. PICK encoding \in {"identity", "gzip"} :
            \/ Responds([type |-> "other", encoding |-> encoding], File)
            \/ \E b \in Bodies :
                 Responds([type |-> "json", encoding |-> encoding], b)
      BY <1>5, Zenon DEF Respond
    <3> QED
      BY <3>1, Zenon
  <2>2. PICK r : \E b \in {File} \cup Bodies : Responds(r, b)
    BY <2>1
  <2>3. PICK b \in {File} \cup Bodies : Responds(r, b)
    BY <2>2
  <2>4. /\ pc = "upstream" /\ pc' \in {"body", "failed"} /\ body' = b
        /\ Unreadable(r) => pc' # "body"
        /\ resp' = r /\ UNCHANGED <<at, pending, out, route, traffic, conn>>
    BY <2>3 DEF Responds, confVars, callVars
  <2>5. Unreadable(resp)' = Unreadable(r)
    BY <2>4 DEF Unreadable, shouldRewrite, rewritableRoute
  <2> QED
    BY <2>3, <2>4, <2>5, BodiesAre, StreamBegins
<1>6. CASE AcquireFails \/ UpstreamFails \/ Cancelled \/ LeaseLost
           \/ BodyFails
  <2>1. /\ pc \in {"acquire", "upstream", "wait", "body"} /\ pc' = "failed"
        /\ UNCHANGED <<streamVars, traffic, resp, route, conn>>
    <3>1. PICK from \in {"acquire", "upstream", "wait", "body"} :
            \E why : Fails(from, why)
      BY <1>6, Zenon DEF AcquireFails, UpstreamFails, Cancelled, LeaseLost,
                         BodyFails
    <3>2. PICK why : Fails(from, why)
      BY <3>1
    <3> QED
      BY <3>2 DEF Fails, confVars, callVars
  <2> QED
    BY <1>0, <2>1, StreamStays
<1>7. CASE Stream
  <2>1. /\ pc = "body" /\ pc' = "body" /\ conn = "open" /\ conn' = "open"
        /\ UNCHANGED <<resp, route, traffic>> /\ ReadChunk(rules)
    BY <1>7 DEF Stream, confVars, callVars, respVars
  <2>2. PICK n \in 1 .. Len(body) - at : Copied(rules, n, FALSE)
    BY <2>1 DEF ReadChunk
  <2>3. n \in 0 .. Len(body) - at
    OBVIOUS
  <2> QED
    BY <2>1, <2>2, <2>3, StreamCopies
<1>8. CASE Complete
  <2> DEFINE n == Len(body) - at
  <2>1. /\ pc = "body" /\ pc' = "done" /\ conn = "open" /\ conn' = "ended"
        /\ UNCHANGED <<resp, route, traffic>> /\ Copied(rules, n, TRUE)
    BY <1>8 DEF Complete, ReadEOF, Close, confVars, callVars, respVars
  <2>2. n \in 0 .. n
    <3>1. body \in Seq(Sym) /\ at \in 0 .. Len(body)
      BY DEF StreamInv, Streaming
    <3>2. Len(body) \in Nat
      BY <3>1, LenProperties
    <3> QED
      BY <3>1, <3>2
  <2> QED
    BY <2>1, <2>2, StreamCopies
<1>9. CASE FailedBefore \/ FailedCancelled
  <2>1. upstreamErrorResponse \in {502, 503, 504}
    BY DEF upstreamErrorResponse
  <2>2. /\ pc' = "done" /\ sent' \in {0, 502, 503, 504}
        /\ UNCHANGED <<streamVars, confVars, callVars, resp>>
    BY <1>9, <2>1 DEF FailedBefore, FailedCancelled, respVars
  <2> QED
    BY <2>2, StreamStays DEF confVars, callVars
<1>10. CASE FailedAfter
  <2>1. /\ pc = "failed" /\ pc' = "done"
        /\ conn' = "ended" => conn = "ended"
        /\ UNCHANGED <<streamVars, confVars, callVars, respVars>>
    BY <1>10 DEF FailedAfter, Close
  <2>2. conn' # "ended"
    BY <1>0, <2>1
  <2> QED
    BY <2>1, <2>2, StreamStays DEF confVars, callVars, respVars
<1>11. CASE Explaining
  <2>1. /\ traffic = "explain"
        /\ UNCHANGED <<streamVars, confVars, pc, callVars, resp, conn>>
    BY <1>11 DEF Explaining, Explain
  <2> QED
    BY <2>1, StreamStays DEF confVars, callVars
<1>12. CASE Tick \/ Around \/ UNCHANGED vars
  <2>1. UNCHANGED <<streamVars, confVars, pc, route, respVars>>
    BY <1>12, AroundShape DEF Tick, callVars, vars
  <2>2. conn' = "ended" => conn = "ended"
    BY <1>12 DEF Tick, vars, Around, ClientLeaves, CutOff, Stopping, Shutdown,
                 ListenEnds, ShutdownEnds, Return, Signal, ListenFails
  <2> QED
    BY <2>1, <2>2, StreamStays DEF confVars, respVars
<1> QED
  BY <1>1, <1>2, <1>3, <1>4, <1>5, <1>6, <1>7, <1>8, <1>9, <1>10, <1>11,
     <1>12, Steps DEF Handling, Work

\* StreamInv holds from the start.
LEMMA StreamInit == Init => StreamInv
<1> SUFFICES ASSUME Init PROVE StreamInv
  OBVIOUS
<1>1. Untouched /\ body = <<>> /\ pc = "idle" /\ conn = "open"
  BY DEF Init, Idle, Untouched
<1>2. resp.encoding = "identity"
  BY DEF Init
<1>3. \E w : Streaming(Sym, rules, w)
  BY <1>1, BodiesAre, StreamFresh
<1> QED
  BY <1>1, <1>2, <1>3 DEF StreamInv, Unreadable

\* NothingEscapes: whatever the reads and wherever the body breaks off, the
\* client has the beginning of the rewritten text, or nothing at all of a body
\* that is to be rewritten and cannot be.
THEOREM OriginsNeverEscape == Spec => []NothingEscapes
<1>1. HandleInv /\ StreamInv => NothingEscapes
  <2> SUFFICES ASSUME StreamInv, resp.type = "json", rewritableRoute
               PROVE  IF resp.encoding = "identity"
                        THEN IsPrefix(out, Rewritten(body,
                                             rewriteRules(route.ecosystem)))
                        ELSE out = <<>>
    BY DEF NothingEscapes
  <2>1. PICK rs \in Origins : rs = rules
    BY RulesAre
  <2>2. PICK w : Streaming(Sym, rs, w)
    BY <2>1 DEF StreamInv
  <2>3. IsPrefix(out, Rewritten(body, rs))
    BY <2>2, SymFit, StreamOut
  <2>4. rs = rewriteRules(route.ecosystem)
    BY <2>1 DEF rules, shouldRewrite
  <2>5. resp.encoding # "identity" => out = <<>>
    BY DEF StreamInv, Unreadable, shouldRewrite, Untouched
  <2> QED
    BY <2>3, <2>4, <2>5
<1> QED
  BY <1>1, HandleInit, HandleStep, StreamInit, StreamStep, PTL DEF Spec

\* CompleteMeansWhole: a response that ends like a complete one is the whole
\* text with its origins replaced, and an answer of the firewall's own carries
\* no header of the response it replaces.
THEOREM CompleteIsWhole == Spec => []CompleteMeansWhole
<1>1. HandleInv /\ StreamInv => CompleteMeansWhole
  <2> SUFFICES ASSUME HandleInv, StreamInv PROVE CompleteMeansWhole
    OBVIOUS
  <2>1. PICK rs \in Origins : rs = rules
    BY RulesAre
  <2>2. PICK w : Streaming(Sym, rs, w)
    BY <2>1 DEF StreamInv
  <2>3. at = Len(body) /\ pending = <<>> => out = Rewritten(body, rs)
    BY <2>2, SymFit, StreamOut
  <2>4. conn = "ended" /\ sent = 200 /\ traffic = "proxy" =>
          at = Len(body) /\ pending = <<>>
    BY DEF StreamInv
  <2>5. sent >= 400 => header = "own"
    BY DEF HandleInv
  <2> QED
    BY <2>1, <2>3, <2>4, <2>5 DEF CompleteMeansWhole
<1> QED
  BY <1>1, HandleInit, HandleStep, StreamInit, StreamStep, PTL DEF Spec

-----------------------------------------------------------------------------
(* TypeOK.                                                                 *)

\* The part of it that no other invariant has.
RestInv ==
  /\ signals \in BOOLEAN /\ auth \subseteq {"bearer", "basic"}
  /\ now \in Nat /\ now <= MaxTime
  /\ header \in {"own", "upstream"}
  /\ conn \in {"open", "ended", "aborted", "gone", "cut", "killed"}
  /\ failure \in {"none", "queue", "timeout", "error", "canceled"}
  /\ listener \in {"up", "closed", "failed"}
  /\ main \in {"serving", "stopping", "stopped", "returned"}
  /\ result \in {"none", "ok", "deadline", "error"}

\* The steps of handle write headers and errors of a few kinds.
LEMMA HandlingWrites ==
  ASSUME Handling
  PROVE  /\ header' \in {header, "own", "upstream"}
         /\ failure' \in {failure, "queue", "timeout", "error", "canceled"}
<1> USE DEF Onwards, respVars
<1>1. CASE Arrive \/ Wait
  BY <1>1 DEF Arrive, Wait
<1>2. CASE Unauthorized \/ NotFound \/ Blocked
  BY <1>2 DEF Unauthorized, NotFound, Refuse, Blocked
<1>3. CASE Admit \/ ReleaseKnown \/ IntelKnown \/ Bypass \/ Lookup \/ Lead
           \/ Acquired \/ WaitOver
  <2>1. Onwards
    BY <1>3, Zenon DEF Admit, ReleaseKnown, IntelKnown, Bypass, Lookup, Lead,
                       Acquired, WaitOver
  <2> QED
    BY <2>1
<1>4. CASE AcquireFails \/ UpstreamFails \/ Cancelled \/ LeaseLost
           \/ BodyFails
  <2>1. \E from : \E why \in {"queue", "timeout", "error", "canceled"} :
          Fails(from, why)
    BY <1>4, Zenon DEF AcquireFails, UpstreamFails, Cancelled, LeaseLost,
                       BodyFails
  <2> QED
    BY <2>1 DEF Fails
<1>5. CASE Hit \/ Respond
  BY <1>5 DEF Hit, Respond, Responds
<1>6. CASE Stream \/ Complete
  BY <1>6 DEF Stream, Complete
<1>7. CASE FailedBefore \/ FailedCancelled \/ FailedAfter
  BY <1>7 DEF FailedBefore, FailedCancelled, FailedAfter
<1> QED
  BY <1>1, <1>2, <1>3, <1>4, <1>5, <1>6, <1>7 DEF Handling, Work

LEMMA RestStep == RestInv /\ [Next]_vars => RestInv'
<1> SUFFICES ASSUME RestInv, [Next]_vars PROVE RestInv'
  OBVIOUS
<1>1. CASE Handling
  <2>1. /\ UNCHANGED <<signals, auth, now, listener, main, result>>
        /\ conn' \in {conn, "ended", "aborted"}
    BY <1>1, HandlingShape DEF confVars, runVars
  <2> QED
    BY <1>1, <2>1, HandlingWrites DEF RestInv
<1>2. CASE Around
  <2>1. UNCHANGED <<signals, auth, now, header, failure>>
    BY <1>2, AroundShape DEF confVars, respVars
  <2>2. /\ conn' \in {conn, "gone", "cut", "killed"}
        /\ listener' \in {listener, "failed", "closed"}
        /\ main' \in {main, "stopping", "stopped", "returned"}
        /\ result' \in {result, "deadline", "ok", "error"}
    <3> USE DEF runVars
    <3>1. CASE ClientLeaves \/ CutOff \/ Signal \/ ListenFails
      BY <3>1 DEF ClientLeaves, CutOff, Signal, ListenFails
    <3>2. CASE Shutdown \/ ListenEnds \/ Return
      BY <3>2 DEF Shutdown, ListenEnds, Return
    <3>3. CASE ShutdownEnds
      BY <3>3 DEF ShutdownEnds
    <3> QED
      BY <1>2, <3>1, <3>2, <3>3 DEF Around, Stopping
  <2> QED
    BY <2>1, <2>2 DEF RestInv
<1>3. CASE Explaining
  <2>1. UNCHANGED <<signals, auth, now, header, failure, conn, runVars>>
    BY <1>3 DEF Explaining, Explain, confVars
  <2> QED
    BY <2>1 DEF RestInv, runVars
<1>4. CASE Tick
  <2>1. /\ now < MaxTime /\ now' = now + 1
        /\ UNCHANGED <<confVars, respVars, conn, runVars>>
    BY <1>4 DEF Tick
  <2>2. now' \in Nat /\ now' <= MaxTime
    BY <2>1, ServerAssumption DEF RestInv
  <2> QED
    BY <2>1, <2>2 DEF RestInv, confVars, respVars, runVars
<1>5. CASE UNCHANGED vars
  BY <1>5 DEF vars, RestInv, confVars, respVars, runVars
<1> QED
  BY <1>1, <1>2, <1>3, <1>4, <1>5, Steps

LEMMA RestInit == Init => RestInv
  BY ServerAssumption DEF Init, RestInv

\* TypeOK: the type of a request, its response and the server around it.  What
\* is held back of a body never grows beyond the longest proper beginning of
\* an origin.
THEOREM TypeCorrect == Spec => []TypeOK
<1>1. BucketInv /\ ExitInv /\ HandleInv /\ TimeInv /\ StreamInv /\ RestInv =>
        TypeOK
  <2> SUFFICES ASSUME BucketInv, ExitInv, HandleInv, TimeInv, StreamInv, RestInv
               PROVE  TypeOK
    OBVIOUS
  <2>1. /\ traffic \in {"proxy", "explain"} /\ cfg \in Config /\ pc \in Phases
        /\ until \in Nat /\ cutAt \in Nat /\ waited \in BOOLEAN /\ over \in Nat
        /\ errCh \in {"empty", "nil", "err"}
    BY DEF HandleInv, TimeInv, ExitInv
  <2>2. tokens \in 0 .. Burst * Unit /\ last \in 0 .. now
    BY FullBucket DEF BucketInv, Full
  <2>3. now \in 0 .. MaxTime
    BY ServerAssumption DEF RestInv
  <2>4. at \in 0 .. Len(body) /\ Len(pending) <= Keep(rules)
    BY DEF StreamInv, Streaming
  <2> QED
    BY <2>1, <2>2, <2>3, <2>4 DEF TypeOK, RestInv, Phases
<1> QED
  BY <1>1, BucketInit, BucketStep, ExitInit, ExitStep, HandleInit, HandleStep,
     TimeInit, TimeStep, StreamInit, StreamStep, RestInit, RestStep, PTL
  DEF Spec
=============================================================================
