---------------------------- MODULE MCRateLimiter ----------------------------
(* Values for TLC.                                                             *)
EXTENDS RateLimiter, TLC

CONSTANTS k1, k2

MCKeys == {k1, k2}
Symmetry == Permutations(MCKeys)
=============================================================================
