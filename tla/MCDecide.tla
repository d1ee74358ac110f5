------------------------------ MODULE MCDecide ------------------------------
(* Instances of Decide.                                                    *)
EXTENDS Decide, TLC

CONSTANTS w1, w2, p1, p2, p3, p4, p5, p6, p7, p8

Artifacts == [p \in Package |-> "artifact"]
NoRules == [p \in Package |-> "none"]
OneGlob == p1 :> "none" @@ p2 :> "allow_glob"
Workers == Permutations(Worker)

AtOnce == [p \in Package |-> 1]

\* One package of every kind and every rule.
EveryKind ==
  p1 :> "artifact" @@ p2 :> "gomod" @@ p3 :> "static" @@ p4 :> "metadata"
    @@ p5 :> "unidentified" @@ p6 :> "unlisted" @@ p7 :> "artifact"
    @@ p8 :> "artifact"
EveryRule ==
  p1 :> "none" @@ p2 :> "none" @@ p3 :> "none" @@ p4 :> "none"
    @@ p5 :> "none" @@ p6 :> "warn" @@ p7 :> "deny" @@ p8 :> "allow_exact"
=============================================================================
