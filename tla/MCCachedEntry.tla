--------------------------- MODULE MCCachedEntry ---------------------------
(* CachedEntry with interchangeable foreign origins. *)
EXTENDS CachedEntry, TLC

OriginSymmetry == Permutations(Origin)

=============================================================================
