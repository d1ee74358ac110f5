--------------------------- MODULE MCArtifactFill ---------------------------
(* Instances of ArtifactFill: which request arrives at which replica.      *)
EXTENDS ArtifactFill, TLC

CONSTANTS r1, r2, q1, q2, q3

\* Two requests at one replica, one at the other.
TwoAndOne == q1 :> r1 @@ q2 :> r1 @@ q3 :> r2

\* One request at each replica.
OneEach == q1 :> r1 @@ q3 :> r2

=============================================================================
