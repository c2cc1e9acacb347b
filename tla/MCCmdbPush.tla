----------------------------- MODULE MCCmdbPush -----------------------------
(***************************************************************************)
(* Instances of CmdbPush for TLC.                                          *)
(***************************************************************************)
EXTENDS CmdbPush, TLC

CONSTANTS p1, p2, f1, f2, f3

HandlerSymmetry == Permutations(Handler)
=============================================================================
