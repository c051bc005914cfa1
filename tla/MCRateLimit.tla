----------------------------- MODULE MCRateLimit ----------------------------
(***************************************************************************)
(* TLC instance of RateLimit.                                              *)
(***************************************************************************)
EXTENDS RateLimit, TLC

CONSTANTS r1, r2

MCSkew == r1 :> 0 @@ r2 :> MaxSkew

Symmetry == Permutations(Requests)
=============================================================================
