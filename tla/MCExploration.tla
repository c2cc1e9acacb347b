--------------------------- MODULE MCExploration ---------------------------
(***************************************************************************)
(* Instances of Exploration for TLC.                                       *)
(***************************************************************************)
EXTENDS Exploration

CONSTANTS q1, e1
=============================================================================
