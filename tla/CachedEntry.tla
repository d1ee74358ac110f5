---------------------------- MODULE CachedEntry ----------------------------
(***************************************************************************)
(* The life of one cached artifact: the upstream response, whether and for *)
(* how long it may be stored (responseBypassReason, npm_cache.go), its     *)
(* capture (serveAndStore), Store.Put, Store.Get, the staged read of       *)
(* loadCached, and the hit with its Age header.  The store is the file     *)
(* store, step by step and with crashes and power loss, or S3, where a Put *)
(* is atomic.                                                              *)
(*                                                                         *)
(* Fills of a key may overlap (module ArtifactFill says when), so there    *)
(* are several writers.  Second clock ticks make a second: Age and Date    *)
(* are whole seconds.  Clocks agree, and the upstream is honest: a         *)
(* response from some cache on the way has an Age or a Date.               *)
(***************************************************************************)
EXTENDS Integers, FiniteSetsExt, Redirect

CONSTANTS
  Writer,      \* fills of the key, each of one response
  Reader,      \* requests that look into the cache
  Route,       \* the routes considered, a subset of RouteKind
  StoreKind,   \* the stores considered, a subset of {"file", "s3"}
  Second,      \* clock ticks per second
  TTL,         \* cache.artifact_ttl in ticks
  Lifetime,    \* the s-maxage values the upstream sends, in seconds
  MaxTime,     \* bound: the clock stops there
  MaxFaults    \* bound: crashes and corruptions in a behaviour

\* An npm route whose responses qualify for prepareNPMCacheResponse, one that
\* does not (a token, another registry), and the other ecosystems.
RouteKind == {"npm", "npm_token", "other"}

ASSUME EntryAssumption ==
  /\ Route \subseteq RouteKind /\ StoreKind \subseteq {"file", "s3"}
  /\ Second \in Nat \ {0} /\ TTL \in Nat \ {0}
  /\ Lifetime \subseteq Nat /\ MaxTime \in Nat /\ MaxFaults \in Nat

VARIABLES
  now,
  route, store,  \* the configuration
  policy,   \* the route's redirect policy, which a restart may change
  wpc,      \* where each fill stands
  asked,    \* requestedAt
  chase,    \* the redirects followed
  resp,     \* the response received, with receivedAt and npmExpiresAt
  temp,     \* the entry being written; the temporary file
  file,     \* per key the entry, or NoEntry
  durable,  \* the entries the directory has on disk
  rpc, staged,  \* each reader, and the entry it opened
  shown,    \* the Age header of its hit
  faults

vars == <<now, route, store, policy, wpc, asked, chase, resp, temp, file,
          durable, rpc, staged, shown, faults>>
config == <<route, store, policy>>
writeVars == <<wpc, asked, chase, resp, temp>>
readVars == <<rpc, staged, shown>>

NoEntry == [content |-> "none"]
NoResponse == [received |-> 0]

Init ==
  /\ now = 0 /\ route \in Route /\ store \in StoreKind /\ policy \in Policy
  /\ wpc = [w \in Writer |-> "idle"]
  /\ asked = [w \in Writer |-> 0]
  /\ chase = [w \in Writer |-> NewChase]
  /\ resp = [w \in Writer |-> NoResponse]
  /\ temp = [w \in Writer |-> NoEntry]
  /\ file = [k \in Key |-> NoEntry] /\ durable = file
  /\ rpc = [r \in Reader |-> "idle"]
  /\ staged = [r \in Reader |-> NoEntry]
  /\ shown = [r \in Reader |-> 0]
  /\ faults = 0

Go(w, from, to) == wpc[w] = from /\ wpc' = [wpc EXCEPT ![w] = to]

\* The fill ends: its response and its temporary files are gone.
End(w, from) ==
  /\ Go(w, from, "done")
  /\ asked' = [asked EXCEPT ![w] = 0]
  /\ chase' = [chase EXCEPT ![w] = NewChase]
  /\ resp' = [resp EXCEPT ![w] = NoResponse]
  /\ temp' = [temp EXCEPT ![w] = NoEntry]

Seconds(ticks) == ticks \div Second
Truncated(ticks) == Seconds(ticks) * Second

-----------------------------------------------------------------------------
(* What may be stored.  A response is told apart by its cookies, its       *)
(* Cache-Control, the redirects behind it, and whether it is unfit (not a  *)
(* 200, with Vary, a range, encoded, too large).                           *)

Cookie == {"none", "cdn", "session", "mixed"}
Control == {"public", "revalidate", "private", "silent"}

\* Mutant of validCDNCookies: one CDN cookie is enough.
anyCDNCookie(cookie) == cookie \in {"none", "cdn", "mixed"}

\* Whether each Set-Cookie is a CDN visitor cookie, to be stripped.
validCDNCookies(cookie) == cookie \in {"none", "cdn"}

\* responseDisablesCaching
DisablesCaching(control, freshNPM) ==
  control = "private" \/ (control = "revalidate" /\ ~freshNPM)

\* Whether there is a reason not to store; cookies: some are left.
responseBypassReason(w, unfit, cookies, control, freshNPM) ==
  \/ unfit
  \/ redirected(chase[w]) /\ ~cacheableRedirect(policy, chase[w])
  \/ cookies
  \/ DisablesCaching(control, freshNPM)

\* npmFreshnessLifetime: public, and only directives it knows.
npmFresh(control) == control \in {"public", "revalidate"}

\* Mutant of npmAge: the time the request took is not counted, nor is Date.
npmAgeHeaderOnly(h, requestedAt) == h.age * Second

\* The response's age on arrival: Age plus the round trip, or since Date.
npmAge(h, requestedAt) ==
  Max({h.age * Second + (now - requestedAt)}
        \cup (IF h.dated THEN {now - Truncated(h.born)} ELSE {}))

\* Whether prepareNPMCacheResponse, or else serveUpstream, lets such a response
\* be stored.
Storable(w, unfit, cookie, control) ==
  CASE route = "npm" ->
         /\ npmFresh(control) /\ validCDNCookies(cookie)
         /\ ~responseBypassReason(w, unfit, FALSE, control, TRUE)
    [] route = "npm_token" ->
         ~responseBypassReason(w, unfit, cookie # "none", control, FALSE)
    [] OTHER ->
         ~responseBypassReason(w, unfit, ~validCDNCookies(cookie), control, FALSE)

\* History: what makes a response its client's own, if anything does.
Private(w, cookie, control) ==
  ({cookie} \cap {"session", "mixed"}) \cup ({control} \cap {"private"})
    \cup chase[w].picked

-----------------------------------------------------------------------------
(* A fill: serveUpstream and serveAndStore.                                *)

Ask(w) ==
  /\ Go(w, "idle", "asked")
  /\ asked' = [asked EXCEPT ![w] = now]
  /\ UNCHANGED <<now, config, chase, resp, temp, file, durable, readVars, faults>>

\* The upstream, or a later hop, redirects, and the policy lets the client
\* follow; if it does not, the request fails.
FollowRedirect(w) ==
  /\ wpc[w] = "asked"
  /\ \E origin \in Origin \cup {Upstream}, hop \in Hop :
       /\ upstreamRedirectPolicy(policy, chase[w], origin)
       /\ chase' = [chase EXCEPT ![w] = observe(chase[w], origin, hop)]
  /\ UNCHANGED <<now, config, wpc, asked, resp, temp, file, durable, readVars,
                 faults>>

\* The headers an honest upstream may send: made at born, sent at some time
\* since the request.
Headers(requestedAt) ==
  (UNION {[born : {born}, dated : BOOLEAN, life : Lifetime,
           age : IF born < requestedAt
                   THEN {Seconds(sent - born) : sent \in requestedAt .. now}
                   ELSE {0}] : born \in 0 .. now})
    \cup [born : 0 .. requestedAt, dated : {TRUE}, life : Lifetime, age : {0}]

\* A response arrives that may be stored; for npm its age must be below its
\* lifetime, the rest of which is its expiry.
Receive(w) ==
  \E unfit \in BOOLEAN, cookie \in Cookie, control \in Control :
    /\ Go(w, "asked", "body")
    /\ Storable(w, unfit, cookie, control)
    /\ \E h \in Headers(asked[w]) :
         LET age == npmAge(h, asked[w])
             private == Private(w, cookie, control)
         IN IF route = "npm"
              THEN /\ age < h.life * Second
                   /\ resp' = [resp EXCEPT ![w] =
                        [received |-> now, trip |-> now - asked[w],
                         private |-> private,
                         expires |-> now + h.life * Second - age,
                         head |-> [h EXCEPT !.age = Seconds(age)]]]
              ELSE resp' = [resp EXCEPT ![w] =
                     [received |-> now, trip |-> 0, private |-> private,
                      expires |-> 0, head |-> h]]
    /\ UNCHANGED <<now, config, asked, chase, temp, file, durable, readVars, faults>>

\* It may not be stored, or the request fails.
NotStored(w) ==
  /\ End(w, "asked")
  /\ UNCHANGED <<now, config, file, durable, readVars, faults>>

\* Mutant of aged: only the Age header and the time since it count.
agedByAge(age, date, base, at) ==
  age + (IF at > base THEN Seconds(at - base) ELSE 0)

\* Mutant of aged: what the Age header and the Date both tell counts twice.
agedTwice(age, date, base, at) ==
  age + (IF base > date THEN Seconds(base - date) ELSE 0)
    + (IF at > base THEN Seconds(at - base) ELSE 0)

\* agedHeaders, with the Date written when the response had none.
aged(age, date, base, at) ==
  Max({age} \cup (IF base > date THEN {Seconds(base - date)} ELSE {}))
    + (IF at > base THEN Seconds(at - base) ELSE 0)

Date(h, storedAt) == Truncated(IF h.dated THEN h.born ELSE storedAt)

\* Mutant of StillFresh: the time the body took is overlooked.
AlwaysFresh(r) == TRUE

\* The lifetime has not passed while the body was streamed.
StillFresh(r) == r.expires # 0 => r.expires > now

\* The Age to be stored: npm's is brought up to the present.
StoredAge(r) ==
  IF r.expires = 0
    THEN r.head.age
    ELSE aged(r.head.age,
              IF r.head.dated THEN Truncated(r.head.born) ELSE r.received,
              r.received, now)

\* The body has been streamed and captured: the PutRequest.
Capture(w) ==
  LET r == resp[w]
      h == r.head
  IN /\ Go(w, "body", "put")
     /\ StillFresh(r)
     /\ temp' = [temp EXCEPT ![w] =
          [content |-> "partial", synced |-> FALSE, stored |-> now,
           expires |-> Min({now + TTL} \cup ({r.expires} \ {0})),
           age |-> StoredAge(r), date |-> Date(h, now),
           born |-> h.born, dated |-> h.dated, life |-> h.life,
           trip |-> r.trip, private |-> r.private, seen |-> chase[w].seen]]
     /\ asked' = [asked EXCEPT ![w] = 0]
     /\ chase' = [chase EXCEPT ![w] = NewChase]
     /\ resp' = [resp EXCEPT ![w] = NoResponse]
     /\ UNCHANGED <<now, config, file, durable, readVars, faults>>

\* Streaming or capture fails, the body is too large, or npm's freshness is
\* over by now.
CaptureFails(w) ==
  /\ End(w, "body")
  /\ UNCHANGED <<now, config, file, durable, readVars, faults>>

-----------------------------------------------------------------------------
(* Store.Put, in the background after the response has been served.        *)

\* cacheKey: all else in it is the same for every request here.
CacheKey == redirectPolicyFingerprint(policy)

SetContent(w, content, synced) ==
  temp' = [temp EXCEPT ![w].content = content, ![w].synced = synced]

\* The file store copies the body into its temporary file, checking size and
\* checksum as it does.
WriteBody(w) ==
  /\ store = "file"
  /\ Go(w, "put", "written")
  /\ SetContent(w, "whole", FALSE)
  /\ UNCHANGED <<now, config, asked, chase, resp, file, durable, readVars,
                 faults>>

\* Mutant of Sync: the file is closed without it.
SkipSync(w) ==
  /\ store = "file"
  /\ Go(w, "written", "synced")
  /\ UNCHANGED <<now, config, asked, chase, resp, temp, file, durable, readVars,
                 faults>>

Sync(w) ==
  /\ store = "file"
  /\ Go(w, "written", "synced")
  /\ SetContent(w, "whole", TRUE)
  /\ UNCHANGED <<now, config, asked, chase, resp, file, durable, readVars,
                 faults>>

\* The rename replaces the entry; the directory is not synced.
Rename(w) ==
  /\ store = "file"
  /\ End(w, "synced")
  /\ file' = [file EXCEPT ![CacheKey] = temp[w]]
  /\ UNCHANGED <<now, config, durable, readVars, faults>>

\* S3 stores the object, and does so durably, or not at all.
PutObject(w) ==
  /\ store = "s3"
  /\ End(w, "put")
  /\ file' = [file EXCEPT ![CacheKey] =
                [temp[w] EXCEPT !.content = "whole", !.synced = TRUE]]
  /\ durable' = file'
  /\ UNCHANGED <<now, config, readVars, faults>>

\* An error or the StoreTimeout: the deferred removal of the temporary file.
PutFails(w) ==
  /\ wpc[w] \in {"put", "written", "synced"}
  /\ End(w, wpc[w])
  /\ UNCHANGED <<now, config, file, durable, readVars, faults>>

-----------------------------------------------------------------------------
(* A hit: Store.Get, loadCached, serveCached.                              *)

Expired(e) == e.expires <= now

\* What Store.Get returns: the file store compares the file's size.
FileReadable(e) == e.content \notin {"none", "partial"} /\ ~Expired(e)
ObjectReadable(e) == e.content # "none" /\ ~Expired(e)

\* loadCached begins; the reader keeps the file it opened when it is replaced.
Get(r) ==
  LET e == file[CacheKey]
  IN /\ rpc[r] = "idle"
     /\ IF store = "file" THEN FileReadable(e) ELSE ObjectReadable(e)
     /\ rpc' = [rpc EXCEPT ![r] = "staging"]
     /\ staged' = [staged EXCEPT ![r] = e]
     /\ UNCHANGED <<now, config, writeVars, file, durable, shown, faults>>

\* Mutant of Usable: the checksum is not compared.
UsableUnchecked(e) == ~Expired(e)

\* After copyBounded: size, checksum, and the expiry once more.
Usable(e) == e.content = "whole" /\ ~Expired(e)

Stage(r) ==
  /\ rpc[r] = "staging"
  /\ Usable(staged[r])
  /\ rpc' = [rpc EXCEPT ![r] = "staged"]
  /\ UNCHANGED <<now, config, writeVars, file, durable, staged, shown, faults>>

\* An entry that is not usable, a read error or the ReadTimeout: a miss.
StageFails(r) ==
  /\ rpc[r] = "staging"
  /\ rpc' = [rpc EXCEPT ![r] = "idle"]
  /\ staged' = [staged EXCEPT ![r] = NoEntry]
  /\ UNCHANGED <<now, config, writeVars, file, durable, shown, faults>>

\* The Age header of the hit.
serveCached(r) ==
  /\ rpc[r] = "staged"
  /\ rpc' = [rpc EXCEPT ![r] = "served"]
  /\ shown' = [shown EXCEPT ![r] =
       aged(staged[r].age, staged[r].date, staged[r].stored, now)]
  /\ UNCHANGED <<now, config, writeVars, file, durable, staged, faults>>

\* The body has been sent; the request is over.
HitEnds(r) ==
  /\ rpc[r] = "served"
  /\ rpc' = [rpc EXCEPT ![r] = "idle"]
  /\ staged' = [staged EXCEPT ![r] = NoEntry]
  /\ shown' = [shown EXCEPT ![r] = 0]
  /\ UNCHANGED <<now, config, writeVars, file, durable, faults>>

-----------------------------------------------------------------------------
(* The environment.                                                        *)

Tick ==
  /\ now < MaxTime
  /\ now' = now + 1
  /\ UNCHANGED <<config, writeVars, file, durable, readVars, faults>>

\* The operating system writes the directory back.
Flush ==
  /\ durable # file
  /\ durable' = file
  /\ UNCHANGED <<now, config, writeVars, file, readVars, faults>>

\* What a file may hold once the power was lost.
AfterLoss(e) ==
  IF e.content = "none" \/ e.synced
    THEN {e}
    ELSE {[e EXCEPT !.content = c] : c \in {"partial", "whole", "corrupt"}}

\* The machine stops: an entry is the one the directory has on disk, or the
\* newer one.
PowerLoss ==
  LET Left(k) == AfterLoss(file[k]) \cup AfterLoss(durable[k])
  IN /\ file' \in {f \in [Key -> UNION {Left(k) : k \in Key}] :
                    \A k \in Key : f[k] \in Left(k)}
     /\ durable' = file'

\* The process ends, perhaps with the machine, and is started again, perhaps
\* with another redirect policy.
Restart ==
  /\ faults < MaxFaults
  /\ faults' = faults + 1
  /\ policy' \in Policy
  /\ wpc' = [w \in Writer |-> IF wpc[w] = "idle" THEN "idle" ELSE "done"]
  /\ asked' = [w \in Writer |-> 0]
  /\ chase' = [w \in Writer |-> NewChase]
  /\ resp' = [w \in Writer |-> NoResponse]
  /\ temp' = [w \in Writer |-> NoEntry]
  /\ rpc' = [r \in Reader |-> "idle"]
  /\ staged' = [r \in Reader |-> NoEntry]
  /\ shown' = [r \in Reader |-> 0]
  /\ UNCHANGED <<file, durable>> \/ (store = "file" /\ PowerLoss)
  /\ UNCHANGED <<now, route, store>>

\* The medium corrupts an entry.
Corrupt(k) ==
  /\ faults < MaxFaults
  /\ file[k].content = "whole"
  /\ faults' = faults + 1
  /\ file' = [file EXCEPT ![k].content = "corrupt"]
  /\ UNCHANGED <<now, config, writeVars, durable, readVars>>

Fill(w) ==
  \/ Ask(w) \/ FollowRedirect(w) \/ Receive(w) \/ NotStored(w)
  \/ Capture(w) \/ CaptureFails(w)
  \/ WriteBody(w) \/ Sync(w) \/ Rename(w) \/ PutObject(w) \/ PutFails(w)

Hit(r) ==
  Get(r) \/ Stage(r) \/ StageFails(r) \/ serveCached(r) \/ HitEnds(r)

Next ==
  \/ \E w \in Writer : Fill(w)
  \/ \E r \in Reader : Hit(r)
  \/ \E k \in Key : Corrupt(k)
  \/ Tick \/ Flush \/ Restart

Spec == Init /\ [][Next]_vars

-----------------------------------------------------------------------------
(* Properties.                                                             *)

Content == {"partial", "whole", "corrupt"}
Sign == Cookie \cup Control \cup Hop

Entry ==
  [content : Content, synced : BOOLEAN, stored : Nat, expires : Nat,
   age : Nat, date : Nat, born : Nat, dated : BOOLEAN, life : Lifetime,
   trip : Nat, private : SUBSET Sign, seen : SUBSET Origin]

Response ==
  [received : Nat, trip : Nat, expires : Nat, private : SUBSET Sign,
   head : [born : Nat, dated : BOOLEAN, age : Nat, life : Lifetime]]

\* The state has its shape, and an entry expires after it was stored
\* (ValidatePut, ValidateEntry).
TypeOK ==
  /\ now \in Nat /\ route \in Route /\ store \in StoreKind /\ faults \in 0 .. MaxFaults
  /\ wpc \in [Writer ->
       {"idle", "asked", "body", "put", "written", "synced", "done"}]
  /\ rpc \in [Reader -> {"idle", "staging", "staged", "served"}]
  /\ policy \in Policy /\ chase \in [Writer -> Chase]
  /\ asked \in [Writer -> Nat] /\ shown \in [Reader -> Nat]
  /\ resp \in [Writer -> Response \cup {NoResponse}]
  /\ temp \in [Writer -> Entry \cup {NoEntry}]
  /\ staged \in [Reader -> Entry \cup {NoEntry}]
  /\ {file, durable} \subseteq [Key -> Entry \cup {NoEntry}]
  /\ \A k \in Key : file[k] # NoEntry => file[k].expires > file[k].stored

\* A hit serves the bytes that were stored: no crash, power loss or corruption
\* lets part of a body out (loadCached), and the file store never has part of
\* an entry under a key, as the temporary file is synced before the rename.
ServedIntact ==
  /\ \A r \in Reader :
       rpc[r] \in {"staged", "served"} => staged[r].content = "whole"
  /\ \A k \in Key :
       file[k].content # "partial" /\ durable[k].content # "partial"

\* What is replayed may be.  No client is given what was another's: a response
\* with a session cookie or marked private, or one that a hop selected by a
\* Vary or called private in its first Cache-Control field, the one that is
\* read (responseBypassReason, prepareNPMCacheResponse, redirectHops).  And a
\* redirected response is replayed only if it came by way of origins that the
\* policy in force trusts, and never where none is enforced: an origin that is
\* taken off the allowlist takes along what was stored from it
\* (cacheableRedirect, cacheKey).  That some are replayed at all is the code's
\* word against README.md, by which redirected responses bypass storage.
OnlyReplayable ==
  \A r \in Reader : rpc[r] \in {"staged", "served"} =>
    /\ staged[r].private \subseteq {"overlooked"}
    /\ staged[r].seen \subseteq (IF policy.enforce THEN policy.allowed ELSE {})

\* A hit is decided within the artifact TTL, and for npm before the response
\* has outlived the s-maxage its registry gave it, the time in other caches,
\* on the wire, in the capture and in staging included.  Without a Date the
\* age is known to a second.
HitFresh ==
  [][\A r \in Reader : rpc[r] = "staging" /\ rpc'[r] = "staged" =>
       LET e == staged[r]
       IN /\ now < e.stored + TTL
          /\ route = "npm" =>
               now < e.born + e.life * Second + (IF e.dated THEN 0 ELSE Second)
    ]_vars

\* How much too old a hit may look: its Date was cut to a second, and npm's
\* Age counts all of the time the request took (trip), part of which may have
\* gone by before the response was made or be in its Age already.
Overstated(dated, trip) == Max({trip, IF dated THEN Second - 1 ELSE 0})

\* A hit's Age is the age of the response.  It is less only by the fractions of
\* a second the conversions cut off: two with a Date, four for npm without one
\* (agedHeaders, prepareNPMCacheResponse); for the other ecosystems without a
\* Date there is no such bound, as the time the body took is not counted.  And
\* it is more only by what Overstated allows: no stretch of time that Age,
\* Date, round trip, transfer and storage each tell of is counted twice.
AgeHonest ==
  [][\A r \in Reader : rpc[r] = "staged" /\ rpc'[r] = "served" =>
       LET e == staged[r]
           age == now - e.born
           Cut(n) == age <= shown'[r] * Second + n * (Second - 1)
       IN /\ e.dated => Cut(2)
          /\ route = "npm" => Cut(4)
          /\ shown'[r] * Second <= age + Overstated(e.dated, e.trip)
    ]_vars

=============================================================================
