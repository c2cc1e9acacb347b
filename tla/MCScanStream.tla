---------------------------- MODULE MCScanStream ----------------------------
(***************************************************************************)
(* Instances of ScanStream for TLC.                                        *)
(***************************************************************************)
EXTENDS ScanStream

CONSTANTS r1, a1, a2, a3, a4, h1

SharedHash == [a \in Alert |-> h1]
NoTwins == [a \in Alert |-> {a}]
=============================================================================
