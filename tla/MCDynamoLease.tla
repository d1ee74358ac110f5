--------------------------- MODULE MCDynamoLease ---------------------------
(* Instances of DynamoLease: two attempts from replicas whose     *)
(* clocks differ.                                                          *)
EXTENDS DynamoLease, TLC

CONSTANTS a1, a2

NoSkew == a1 :> 0 @@ a2 :> 0
SecondAhead == a1 :> 0 @@ a2 :> 1
=============================================================================
