---------------------------- MODULE VerdictLedger ----------------------------
(***************************************************************************)
(* What the bughash store promises to everybody who inherits a verdict     *)
(* from it: a stored verdict was, at some time, backed by a report.  A     *)
(* report is evidence for "tp" when it contains a true positive, and       *)
(* evidence for "fp" when it counts the alert as auto-suppressed.  Nothing *)
(* else is ever stored, and no verdict is ever withdrawn to "none".        *)
(*                                                                         *)
(* ScanPipeline, with its concurrent runs, crashes and failing writes, is  *)
(* shown to implement this module.                                         *)
(***************************************************************************)
CONSTANT Hash           \* the bughashes

VARIABLES
  ledger,               \* ledger[h] is the verdict later runs inherit
  evidence              \* what the reports so far have supported

vars == <<ledger, evidence>>

Inheritable == {"tp", "fp"}

TypeOK ==
  /\ ledger \in [Hash -> {"none"} \cup Inheritable]
  /\ evidence \subseteq (Hash \X Inheritable)

Init ==
  /\ ledger = [h \in Hash |-> "none"]
  /\ evidence = {}

\* A report is made; its inheritable verdicts become evidence.
Publish ==
  /\ \E support \in SUBSET (Hash \X Inheritable) :
        evidence' = evidence \cup support
  /\ UNCHANGED ledger

\* A supported verdict is stored, over whatever was stored before.
Record ==
  /\ \E h \in Hash, v \in Inheritable :
        /\ <<h, v>> \in evidence
        /\ ledger' = [ledger EXCEPT ![h] = v]
  /\ UNCHANGED evidence

Next == Publish \/ Record

Spec == Init /\ [][Next]_vars

\* Every verdict that can be inherited is backed by a report.
Supported ==
  \A h \in Hash : ledger[h] # "none" => <<h, ledger[h]>> \in evidence
==============================================================================
