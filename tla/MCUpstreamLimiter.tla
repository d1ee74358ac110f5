------------------------- MODULE MCUpstreamLimiter -------------------------
(* Instances of UpstreamLimiter.                                           *)
EXTENDS UpstreamLimiter

CONSTANTS r1, r2, q1, q2
=============================================================================
