--------------------------- MODULE MCScanPipeline ---------------------------
(***************************************************************************)
(* An instance of ScanPipeline for TLC: two runs over one alert.           *)
(***************************************************************************)
EXTENDS ScanPipeline, TLC

CONSTANTS r1, r2, a1, a2, a3, a4, h1, h2

J(v, c, re, f) == [verdict |-> v, conf |-> c, reclassified |-> re, failed |-> f]

\* For two concurrent runs: a true positive, a storable and a weak false
\* positive; the judge's own failure comes from FailOpen.
FewJudgements ==
  {J("tp", 8, FALSE, FALSE), J("fp", 9, FALSE, FALSE), J("fp", 6, FALSE, FALSE)}

\* All alerts share a bughash.
SharedHash == [a \in Alert |-> h1]

\* No two alerts render to one prompt.
NoTwins == [a \in Alert |-> {a}]

RunSymmetry == Permutations(Run)
=============================================================================
