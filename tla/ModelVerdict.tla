---------------------------- MODULE ModelVerdict ----------------------------
(***************************************************************************)
(* What the judge chain promises about a conclusive verdict, a true or a   *)
(* false positive: the model gave it, for that very prompt.  The guards,   *)
(* the verifier and the falsifier may only turn it into "uncertain", and   *)
(* the cache repeats only what the model said before.                      *)
(***************************************************************************)
CONSTANTS Job, Prompt

VARIABLES
  prompt,   \* prompt[j]: what job j is asking about
  opinion,  \* opinion[j]: the verdict job j holds, or "none"
  shared,   \* shared[p]: the conclusive verdict other jobs may reuse, or "none"
  said      \* the conclusive verdicts the model has given, with their prompts

vars == <<prompt, opinion, shared, said>>

Conclusive == {"tp", "fp"}

Init ==
  /\ prompt \in [Job -> Prompt]
  /\ opinion = [j \in Job |-> "none"]
  /\ shared = [p \in Prompt |-> "none"]
  /\ said = {}

Take(j) ==
  /\ opinion[j] = "none"
  /\ \E p \in Prompt : prompt' = [prompt EXCEPT ![j] = p]
  /\ UNCHANGED <<opinion, shared, said>>

\* The model answers v, which the job holds at once or does not trust.
Answer(j) ==
  /\ \E v \in Conclusive, trusted \in BOOLEAN :
       /\ said' = said \cup {<<prompt[j], v>>}
       /\ opinion' = [opinion EXCEPT ![j] = IF trusted THEN v ELSE "uncertain"]
  /\ UNCHANGED <<prompt, shared>>

Doubt(j) ==
  /\ opinion' = [opinion EXCEPT ![j] = "uncertain"]
  /\ UNCHANGED <<prompt, shared, said>>

Reuse(j) ==
  /\ opinion[j] = "none"
  /\ shared[prompt[j]] # "none"
  /\ opinion' = [opinion EXCEPT ![j] = shared[prompt[j]]]
  /\ UNCHANGED <<prompt, shared, said>>

Share(j) ==
  /\ opinion[j] \in Conclusive
  /\ shared' = [shared EXCEPT ![prompt[j]] = opinion[j]]
  /\ UNCHANGED <<prompt, opinion, said>>

Drop(j) ==
  /\ opinion' = [opinion EXCEPT ![j] = "none"]
  /\ \E p \in Prompt : prompt' = [prompt EXCEPT ![j] = p]
  /\ UNCHANGED <<shared, said>>

Forget(p) ==
  /\ shared' = [shared EXCEPT ![p] = "none"]
  /\ UNCHANGED <<prompt, opinion, said>>

Next ==
  \/ \E j \in Job : \/ Take(j)
                    \/ Answer(j)
                    \/ Doubt(j)
                    \/ Reuse(j)
                    \/ Share(j)
                    \/ Drop(j)
  \/ \E p \in Prompt : Forget(p)

Spec == Init /\ [][Next]_vars

\* Every conclusive verdict, held or shared, was given by the model.
Said ==
  /\ \A j \in Job :
       opinion[j] \in Conclusive => <<prompt[j], opinion[j]>> \in said
  /\ \A p \in Prompt : shared[p] # "none" => <<p, shared[p]>> \in said
=============================================================================
