------------------------------ MODULE MCScaScan ------------------------------
(***************************************************************************)
(* Instances of ScaScan for TLC.                                           *)
(***************************************************************************)
EXTENDS ScaScan, TLC

CONSTANTS w1, w2, k1

WorkerSymmetry == Permutations(Worker)
=============================================================================
