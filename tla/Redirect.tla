------------------------------ MODULE Redirect ------------------------------
(***************************************************************************)
(* Upstream redirects (doOnce, proxy/proxy.go): which are followed, what   *)
(* the hops are remembered for, and which redirected responses may be      *)
(* stored, under which key.                                                *)
(*                                                                         *)
(* A chase is the state of one client.Do: where it is, how many redirects  *)
(* it has followed, and whether a hop was uncacheable.  seen and picked    *)
(* are history: the foreign origins it passed, and how hops said that what *)
(* follows was chosen for this client.                                     *)
(***************************************************************************)
EXTENDS Naturals

CONSTANTS
  Origin,        \* origins other than the route's upstream
  Upstream,      \* the origin of route.UpstreamURL
  MaxRedirects   \* maxUpstreamRedirects

ASSUME OriginAssumption == Upstream \notin Origin /\ MaxRedirects \in Nat

\* What a hop says of the response it leads to: nothing; by a Vary, or private
\* or no-store in its first Cache-Control field, that it was selected for this
\* client; or that in a later Cache-Control field only.
Hop == {"plain", "selective", "overlooked"}

\* The route's EnforceRedirectOrigins and AllowedRedirectOrigins; the list is
\* not looked at when it is not enforced.
Policy ==
  [enforce : {TRUE}, allowed : SUBSET Origin] \cup [enforce : {FALSE}, allowed : {{}}]

Chase ==
  [at : Origin \cup {Upstream}, via : 0 .. MaxRedirects,
   uncacheable : BOOLEAN, seen : SUBSET Origin,
   picked : SUBSET (Hop \ {"plain"})]

NewChase ==
  [at |-> Upstream, via |-> 0, uncacheable |-> FALSE, seen |-> {}, picked |-> {}]

redirected(chase) == chase.via > 0

\* Whether CheckRedirect lets the client follow a redirect to origin.  Its via
\* has the first request, too.
upstreamRedirectPolicy(policy, chase, origin) ==
  /\ chase.via + 1 < MaxRedirects
  /\ origin = Upstream \/ ~policy.enforce \/ origin \in policy.allowed

\* Mutant of observe: only the last hop counts.
observeLast(chase, origin, hop) ==
  [at |-> origin, via |-> chase.via + 1, uncacheable |-> hop = "selective",
   seen |-> chase.seen \cup ({origin} \ {Upstream}),
   picked |-> chase.picked \cup ({hop} \ {"plain"})]

\* The client follows a hop to origin; redirectHops.observe has read the first
\* Cache-Control field.
observe(chase, origin, hop) ==
  [at |-> origin, via |-> chase.via + 1,
   uncacheable |-> chase.uncacheable \/ hop = "selective",
   seen |-> chase.seen \cup ({origin} \ {Upstream}),
   picked |-> chase.picked \cup ({hop} \ {"plain"})]

\* Whether a redirected response may be stored: not after a bounce back to the
\* upstream, and only where an allowlist is enforced.
cacheableRedirect(policy, chase) ==
  /\ policy.enforce
  /\ ~chase.uncacheable
  /\ chase.at # Upstream
  /\ chase.at \in policy.allowed

\* Mutant of redirectPolicyFingerprint: the key does not depend on the policy.
noFingerprint(policy) == {}

\* What of the policy goes into the cache key: the sorted allowlist, if it is
\* enforced.
redirectPolicyFingerprint(policy) ==
  IF policy.enforce THEN {policy.allowed} ELSE {}

Key == {{}} \cup {{allowed} : allowed \in SUBSET Origin}

=============================================================================
