---------------------------- MODULE MCJudgeChain ----------------------------
(***************************************************************************)
(* Instances of JudgeChain for TLC.                                        *)
(***************************************************************************)
EXTENDS JudgeChain, TLC

CONSTANTS j1, j2, a1, a2, k1, sqli, authz

A(v, c, ts, ev, pl) ==
  [verdict |-> v, conf |-> c, types |-> ts, evidence |-> ev, payload |-> pl]

\* The declared type of both alerts is SQL injection, as in one prompt.
AllSqli == [a \in Alert |-> sqli]
OneKey == [a \in Alert |-> k1]

\* cwe_registry.json: SQL injection requires both facts, authorization none.
RegistryFacts == [t \in Type |-> IF t = sqli THEN Fact ELSE {}]

\* For two jobs: what they need to differ, to be challenged and to be rejected.
FewAnswers ==
  {A("tp", 9, {sqli}, TRUE, TRUE), A("fp", 8, {sqli, authz}, FALSE, FALSE),
   A("fp", 3, {}, TRUE, TRUE)}

Symmetric == Permutations(Job) \cup Permutations(Alert)
=============================================================================
