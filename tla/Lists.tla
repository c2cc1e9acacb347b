-------------------------------- MODULE Lists --------------------------------
(***************************************************************************)
(* The entries of a list at some of its places, and a walk along a list.   *)
(* What a walk does at an entry is a function of what there is so far and  *)
(* of the entry, so that what holds of every walk can be said once.        *)
(***************************************************************************)
EXTENDS Integers, Sequences, FiniteSets, SequencesExt

\* The place of I that k - 1 others come before.
Nth(I, k) == CHOOSE i \in I : Cardinality({j \in I : j < i}) = k - 1

\* The entries of list at the places I, in their order.
Pick(list, I) == [k \in 1..Cardinality(I) |-> list[Nth(I, k)]]

\* The places where a key is met for the first time.
Firsts(keys) ==
  {i \in DOMAIN keys : \A j \in DOMAIN keys : j < i => keys[j] # keys[i]}

\* The first n entries.
Prefix(list, n) == SubSeq(list, 1, IF n < Len(list) THEN n ELSE Len(list))

\* What is left of start when step was applied to every entry in turn.
Walked(step, start, list) ==
  LET at[n \in 0..Len(list)] == IF n = 0 THEN start ELSE step[<<at[n - 1], list[n]>>]
  IN  at[Len(list)]

=============================================================================
