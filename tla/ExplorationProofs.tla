--------------------------- MODULE ExplorationProofs ---------------------------
(***************************************************************************)
(* Theorems about Exploration: what is sent to the model, how much of it,  *)
(* how often, and what the log says of it, for any numbers of rounds and   *)
(* calls, any budgets and any queries.                                     *)
(***************************************************************************)
EXTENDS Exploration, SequenceTheorems, WellFoundedInduction, TLAPS

Conversation == [size : Nat, owed : Nat, stray : BOOLEAN, shown : SUBSET Query]

TypeOK ==
  /\ turn \in Seq(Tool)
  /\ pc \in Asking \cup {"idle", "turn", "guards", "rebuilt", "settled"}
  /\ attempt \in 0..3
  /\ conv \in Conversation
  /\ kept \in Conversation
  /\ finish \in Verdicts \cup {"none"}
  /\ seen \subseteq Query
  /\ fresh \in BOOLEAN
  /\ streak \in Nat
  /\ round \in 0..MaxRounds
  /\ second \in BOOLEAN
  /\ loopLog \subseteq Query
  /\ log \subseteq Query
  /\ verdict \in {"none", "given", "failed"}
  /\ requests \in Nat
  /\ indexed \in BOOLEAN

\* A turn of the loop is under way, though a request aside may be as well.
InTurn == {"turn", "distil"}

\* An answer is awaited only where one is asked for, within a turn of the loop
\* the round is not counted yet, and only the second question distils.
Waiting ==
  /\ attempt > 0 => pc \in Asking
  /\ pc \in InTurn \/ (pc = "loop" /\ attempt > 0) => round < MaxRounds
  /\ pc \in InTurn => Len(turn) <= MaxCalls
  /\ pc = "distil" => second

\* Every conversation can go on; within a turn the results still to come are owed.
Paired ==
  /\ kept.owed = 0 /\ ~kept.stray
  /\ ~conv.stray
  /\ conv.owed = IF pc \in InTurn THEN Len(turn) ELSE 0

\* A conversation without the result of an engine tool keeps to a size.
Fit(c, n) == c.shown \cap EngineQuery = {} => c.size <= n

Limit == CharBudget + LongestTurn

\* The results still to come in a turn fit the limit, and so does what is kept; only
\* the question that is put after it goes beyond.
Fitting ==
  /\ Fit(kept, Limit)
  /\ Fit(conv, Limit + 1)
  /\ pc = "loop" /\ attempt > 0 => conv.size <= CharBudget
  /\ pc = "loop" /\ ~second => Fit(conv, Limit)
  /\ pc \in InTurn => Fit(conv, Limit - Len(turn) * Chunk)

\* What the rounds after the first n of the second question can cost.
Rounds(n) == (MaxRounds - n) * RoundCost

\* The requests that are still possible, the one under way included, when the
\* attempts of the harness are not counted.
LeftAt(p, n, again) ==
  CASE p \in {"loop", "turn", "distil"} ->
         IF again THEN Rounds(n) + 2 ELSE MaxRounds - n + 8 + MaxSecond
    [] p = "required" -> 8 + MaxSecond
    [] p = "auto" -> 7 + MaxSecond
    [] p = "tool" -> 6 + MaxSecond
    [] p = "text" -> 5 + MaxSecond
    [] p = "repair" -> 4 + MaxSecond
    [] p = "deformed" -> 3 + MaxSecond
    [] p = "guards" -> 2 + MaxSecond
    [] p = "requiredAgain" -> 4
    [] p = "autoAgain" -> 3
    [] p \in {"rebuilt", "settled", "falsify"} -> 2
    [] p = "backfill" -> 1
    [] OTHER -> 0

Left == LeftAt(pc, round, second)

\* The attempts that count as used: within a turn those of its request, and of a summary
\* for each call executed so far, n being left.
Summaries(n, again) == IF again THEN 3 * (MaxCalls - n) ELSE 0

SpentAt(p, a, n, again) ==
  CASE p = "turn" -> 3 + Summaries(n, again)
    [] p = "distil" -> a + Summaries(n, again)
    [] OTHER -> a

Spent == SpentAt(pc, attempt, Len(turn), second)

\* What was asked and what may still be asked is bounded together.
Budgeted == requests + 3 * Left <= 3 * (MaxRounds + 8 + MaxSecond) + Spent

\* The second question is behind: what it showed is logged only when it ended with a
\* verdict.
Closing == {"idle", "settled", "falsify", "backfill"}

\* What a conversation shows is in the log of the loop that is under way, or in
\* the log the guards are given.
Logs ==
  /\ kept.shown \subseteq log
  /\ IF pc \in {"loop"} \cup InTurn
     THEN conv.shown \subseteq loopLog \cup (IF second THEN log ELSE {})
     ELSE pc \notin Closing => conv.shown \subseteq log

IInv ==
  /\ TypeOK
  /\ Waiting
  /\ Paired
  /\ Fitting
  /\ Budgeted
  /\ Logs

-----------------------------------------------------------------------------
(* Conversations and turns.                                                *)

LEMMA PromptTyped == Prompt \in Conversation
BY DEF Prompt, Conversation

LEMMA SayTyped ==
  ASSUME NEW c \in Conversation
  PROVE  /\ Say(c) \in Conversation
         /\ Say(c).size = c.size + 1
         /\ Say(c).owed = c.owed /\ Say(c).stray = c.stray /\ Say(c).shown = c.shown
BY DEF Say, Conversation

LEMMA CallsTyped ==
  ASSUME NEW calls \in Calls
  PROVE  calls \in Seq(Tool) /\ Len(calls) \in 1..MaxCalls
<1>1. PICK n \in 1..MaxCalls : calls \in [1..n -> Tool]
  BY DEF Calls
<1>2. n \in Nat
  BY <1>1, ConstantsAssumption
<1>3. calls \in Seq(Tool)
  BY <1>1, <1>2, SeqDef, Zenon
<1>4. Len(calls) = n
  BY <1>1, <1>2, <1>3, LenProperties
<1>5. QED  BY <1>1, <1>3, <1>4

\* A turn that calls the finish tool has a last call of it.
LEMMA LastVerdictTyped ==
  ASSUME NEW calls \in Calls
  PROVE  LastVerdict(calls) \in Verdicts \cup {"none"}
<1>1. CASE VerdictCalls(calls) = {}
  BY <1>1 DEF LastVerdict
<1>2. CASE VerdictCalls(calls) # {}
  <2> DEFINE later == {p \in (1..MaxCalls) \X (1..MaxCalls) : p[1] > p[2]}
             V == VerdictCalls(calls)
  <2>1. V \subseteq 1..MaxCalls
    BY CallsTyped, LenProperties, ConstantsAssumption DEF VerdictCalls
  <2>2. MaxCalls \in Nat
    BY ConstantsAssumption
  <2>3. PICK m \in V : \A j \in V : j <= m
    <3> DEFINE Before == {MaxCalls - i : i \in V}
    <3>1. Before \subseteq Nat /\ Before # {}
      BY <1>2, <2>1, <2>2
    <3>2. PICK b \in Before : \A c \in Before : <<c, b>> \notin OpToRel(<, Nat)
      BY <3>1, NatLessThanWellFounded, WFMin
    <3>3. \A c \in Before : ~(c < b)
      BY <3>1, <3>2 DEF OpToRel
    <3>4. PICK m \in V : b = MaxCalls - m
      BY <3>2
    <3>5. \A j \in V : ~(MaxCalls - j < MaxCalls - m)
      BY <3>3, <3>4
    <3>6. \A j \in V : j <= m
      BY <2>1, <2>2, <3>5
    <3>7. QED  BY <3>6
  <2>4. QED  BY <1>2, <2>3 DEF LastVerdict, VerdictCalls
<1>3. QED  BY <1>1, <1>2

LEMMA TurnTyped ==
  ASSUME NEW c \in Conversation, NEW calls \in Calls
  PROVE  /\ AssistantTurn(c, calls) \in Conversation
         /\ AssistantTurn(c, calls).size = c.size + 1
         /\ AssistantTurn(c, calls).owed = Len(calls)
         /\ AssistantTurn(c, calls).stray = c.stray
         /\ AssistantTurn(c, calls).shown = c.shown
<1>1. Len(calls) \in Nat
  BY CallsTyped, ConstantsAssumption
<1> DEFINE d == [c EXCEPT !.size = @ + 1]
           t == [d EXCEPT !.owed = Len(calls)]
<1>2. AssistantTurn(c, calls) = t
  BY Zenon DEF AssistantTurn
<1>3. /\ d \in Conversation
      /\ d.size = c.size + 1 /\ d.owed = c.owed /\ d.stray = c.stray /\ d.shown = c.shown
  BY DEF Conversation
<1> HIDE DEF d
<1>4. /\ t \in Conversation
      /\ t.size = d.size /\ t.owed = Len(calls) /\ t.stray = d.stray /\ t.shown = d.shown
  BY <1>1, <1>3 DEF Conversation
<1> HIDE DEF t
<1>5. QED  BY <1>2, <1>3, <1>4, Zenon

\* A result adds its size and its query and pays one call off.
LEMMA ResultTyped ==
  ASSUME NEW c \in Conversation, NEW call, NEW n \in Nat
  PROVE  /\ ResultOf(c, call, n) \in Conversation
         /\ ResultOf(c, call, n).size = c.size + n
         /\ ResultOf(c, call, n).owed = IF c.owed > 0 THEN c.owed - 1 ELSE 0
         /\ ResultOf(c, call, n).stray = (c.stray \/ c.owed = 0)
         /\ ResultOf(c, call, n).shown = c.shown \cup ({call} \cap Query)
<1> DEFINE o == IF c.owed > 0 THEN c.owed - 1 ELSE 0
           s == c.stray \/ c.owed = 0
           q == c.shown \cup ({call} \cap Query)
           t == ResultOf(c, call, n)
<1>1. s \in BOOLEAN
  BY Zenon
<1>2. o \in Nat /\ c.size + n \in Nat /\ q \in SUBSET Query
  BY DEF Conversation
<1>3. t = [size |-> c.size + n, owed |-> o, stray |-> s, shown |-> q]
  BY DEF ResultOf, Result
<1> HIDE DEF o, s, q, t
<1>4. t \in Conversation /\ t.size = c.size + n /\ t.owed = o /\ t.shown = q
  <2>1. s = TRUE \/ s = FALSE
    BY <1>1, Zenon
  <2>2. CASE s = TRUE
    BY <1>2, <1>3, <2>2 DEF Conversation
  <2>3. CASE s = FALSE
    BY <1>2, <1>3, <2>3 DEF Conversation
  <2>4. QED  BY <2>1, <2>2, <2>3, Zenon
<1>5. t.stray = s
  BY <1>3, Zenon
<1>6. QED  BY <1>4, <1>5, Zenon DEF o, s, q, t

-----------------------------------------------------------------------------
(* Types.                                                                  *)

\* What the paths out of a request or of the loop leave.
Moved == 
  /\ pc' \in (Asking \ {"distil"}) \cup {"idle", "guards", "rebuilt", "settled"}
  /\ conv' \in Conversation /\ kept' \in Conversation
  /\ conv' \in {conv, Say(conv), Prompt} /\ kept' \in {kept, conv}
  /\ second' = second
  /\ log' \subseteq Query
  /\ verdict' \in {"none", "given", "failed"}

LEMMA GoTyped ==
  ASSUME TypeOK, NEW p \in (Asking \ {"distil"}) \cup {"idle", "guards", "settled"}, Go(p)
  PROVE  Moved
BY DEF Go, TypeOK, Moved

LEMMA NoFinishTyped ==
  ASSUME TypeOK, NoFinish
  PROVE  Moved
<1>1. log' \subseteq Query
  BY DEF NoFinish, Logged, TypeOK
<1>2. Say(conv) \in Conversation
  BY SayTyped DEF TypeOK
<1>3. QED  BY <1>1, <1>2 DEF NoFinish, TypeOK, Moved, Asking, Forced

LEMMA SingleTurnTyped ==
  ASSUME TypeOK, SingleTurn
  PROVE  Moved
BY PromptTyped DEF SingleTurn, TypeOK, Moved, Asking

LEMMA GivenTyped ==
  ASSUME TypeOK, Given
  PROVE  Moved
BY DEF Given, Receivers, TypeOK, Moved, Asking, Aside

LEMMA GiveUpTyped ==
  ASSUME TypeOK, GiveUp
  PROVE  Moved
BY DEF GiveUp, TypeOK, Moved

LEMMA FailsTyped ==
  ASSUME TypeOK, Fails
  PROVE  Moved
<1>1. {"auto", "text", "autoAgain"} \subseteq Asking \ {"distil"}
  BY DEF Asking, Forced, Again
<1>2. QED
  BY <1>1, GoTyped, NoFinishTyped, SingleTurnTyped, GiveUpTyped DEF Fails

LEMMA AnswersTyped ==
  ASSUME TypeOK, Answers
  PROVE  Moved
<1>1. {"text", "repair"} \subseteq Asking \ {"distil"}
  BY DEF Asking
<1>2. CASE pc = "text" /\ pc' = "repair" /\ conv' = Prompt
           /\ UNCHANGED <<kept, second, log, verdict>>
  BY <1>1, <1>2, PromptTyped DEF TypeOK, Moved
<1>3. QED
  BY <1>1, <1>2, GoTyped, NoFinishTyped, SingleTurnTyped, GivenTyped, GiveUpTyped DEF Answers

LEMMA CallsVerdictTyped ==
  ASSUME TypeOK, NEW v, CallsVerdict(v)
  PROVE  Moved
<1>1. "text" \in Asking \ {"distil"}
  BY DEF Asking
<1>2. QED
  BY <1>1, GoTyped, SingleTurnTyped, GivenTyped DEF CallsVerdict

LEMMA EndTurnTyped ==
  ASSUME TypeOK, EndTurn
  PROVE  Moved
<1>1. {"loop", "deformed"} \subseteq Asking \ {"distil"}
  BY DEF Asking, Aside
<1>2. CASE /\ verdict' = "given"
           /\ pc' \in Receivers(second)
           /\ kept' = IF second THEN kept ELSE conv
           /\ log' = Logged
           /\ UNCHANGED <<conv, second>>
  BY <1>1, <1>2 DEF TypeOK, Moved, Logged, Receivers
<1>3. QED
  BY <1>1, <1>2, GoTyped, NoFinishTyped DEF EndTurn

\* A request aside changes nothing but where the judge call goes on.
LEMMA AsideKeeps ==
  ASSUME AsideOver
  PROVE  /\ attempt > 0 /\ attempt' = 0
         /\ UNCHANGED <<conv, kept, second, log, verdict, turn, finish, seen, fresh, streak,
                        round, loopLog, requests, indexed>>
         /\ \/ pc = "deformed" /\ pc' = "guards"
            \/ pc = "distil" /\ pc' = "turn"
            \/ pc = "falsify" /\ pc' \in {"backfill", "idle"}
            \/ pc = "backfill" /\ pc' = "idle"
BY DEF AsideOver, Aside, AfterAside, Go, loopVars

\* Only the second question goes aside within a turn.
LEMMA ExecuteStays ==
  ASSUME Execute
  PROVE  pc = "turn" /\ pc' \in InTurn /\ (pc' = "distil" => second)
BY DEF Execute, InTurn

LEMMA AsideAsks == Aside \subseteq Asking
BY DEF Asking

\* The answer to one call of a turn.
LEMMA ResultsTyped ==
  ASSUME TypeOK, turn # <<>>, NEW n \in Nat
  PROVE  /\ ResultOf(conv, Head(turn), n) \in Conversation
         /\ Tail(turn) \in Seq(Tool) /\ Head(turn) \in Tool
         /\ Len(turn) \in Nat \ {0} /\ Len(Tail(turn)) = Len(turn) - 1
<1>1. conv \in Conversation /\ turn \in Seq(Tool)
  BY DEF TypeOK
<1>2. QED  BY <1>1, ResultTyped, HeadTailProperties, LenProperties, EmptySeq

LEMMA SizesTyped ==
  ASSUME NEW q, NEW n \in Sizes(q)
  PROVE  n \in Nat \ {0}
BY ConstantsAssumption DEF Sizes

LEMMA NoTurn == <<>> \in Seq(Tool) /\ Len(<<>>) = 0
OBVIOUS

LEMMA InitTypes == Init => TypeOK
<1> SUFFICES ASSUME Init PROVE TypeOK
  OBVIOUS
<1>1. MaxRounds \in Nat
  BY ConstantsAssumption
<1>2. turn \in Seq(Tool)
  BY NoTurn DEF Init
<1>3. /\ pc \in Asking \cup {"idle", "turn", "guards", "rebuilt", "settled"}
      /\ attempt \in 0..3
      /\ streak \in Nat /\ round \in 0..MaxRounds /\ requests \in Nat
  BY <1>1 DEF Init
<1>4. conv \in Conversation /\ kept \in Conversation
  BY PromptTyped DEF Init
<1>5. finish \in Verdicts \cup {"none"} /\ verdict \in {"none", "given", "failed"}
  BY DEF Init
<1>6. seen \subseteq Query /\ loopLog \subseteq Query /\ log \subseteq Query
  BY DEF Init
<1>7. fresh \in BOOLEAN /\ second \in BOOLEAN /\ indexed \in BOOLEAN
  BY DEF Init
<1>8. QED  BY <1>2, <1>3, <1>4, <1>5, <1>6, <1>7, Zenon DEF TypeOK

LEMMA NextTypes ==
  ASSUME TypeOK, Waiting, [Next]_vars
  PROVE  TypeOK'
<1>0. MaxRounds \in Nat
  BY ConstantsAssumption
<1>1. CASE Begin
  <2>1. turn' \in Seq(Tool)
    BY <1>1, NoTurn DEF Begin
  <2>2. /\ pc' \in Asking \cup {"idle", "turn", "guards", "rebuilt", "settled"}
        /\ attempt' \in 0..3
        /\ streak' \in Nat /\ round' \in 0..MaxRounds /\ requests' \in Nat
    BY <1>0, <1>1 DEF Begin, Asking
  <2>3. conv' \in Conversation /\ kept' \in Conversation
    BY <1>1, PromptTyped DEF Begin
  <2>4. finish' \in Verdicts \cup {"none"} /\ verdict' \in {"none", "given", "failed"}
    BY <1>1 DEF Begin
  <2>5. seen' \subseteq Query /\ loopLog' \subseteq Query /\ log' \subseteq Query
    BY <1>1 DEF Begin
  <2>6. fresh' \in BOOLEAN /\ second' \in BOOLEAN /\ indexed' \in BOOLEAN
    BY <1>1 DEF Begin
  <2>7. QED  BY <2>1, <2>2, <2>3, <2>4, <2>5, <2>6, Zenon DEF TypeOK
<1>2. CASE Ask
  BY <1>2 DEF Ask, TypeOK, loopVars
<1>3. CASE Retry
  BY <1>3 DEF Retry, MayRetry, TypeOK, loopVars
<1>4. CASE Fails
  BY <1>4, FailsTyped DEF Fails, Moved, TypeOK, loopVars
<1>5. CASE Answers
  BY <1>5, AnswersTyped DEF Answers, Moved, TypeOK, loopVars
<1>6. ASSUME NEW calls \in Calls, CallsTools(calls)
      PROVE  TypeOK'
  <2>1. AssistantTurn(conv, calls) \in Conversation
    BY TurnTyped DEF TypeOK
  <2>2. calls \in Seq(Tool) /\ LastVerdict(calls) \in Verdicts \cup {"none"}
    BY CallsTyped, LastVerdictTyped
  <2>3. turn' \in Seq(Tool) /\ finish' \in Verdicts \cup {"none"} /\ fresh' \in BOOLEAN
    BY <1>6, <2>2 DEF CallsTools
  <2>4. pc' = "turn" /\ attempt' \in 0..3 /\ conv' \in Conversation
    BY <1>6, <2>1 DEF CallsTools
  <2>5. UNCHANGED <<kept, seen, streak, round, second, loopLog, log, verdict, requests, indexed>>
    BY <1>6 DEF CallsTools
  <2>6. QED  BY <2>3, <2>4, <2>5 DEF TypeOK
<1>7. ASSUME NEW v, CallsVerdict(v)
      PROVE  TypeOK'
  BY <1>7, CallsVerdictTyped DEF CallsVerdict, Moved, TypeOK, loopVars
<1>8. CASE AnswerItself
  BY <1>8, ResultsTyped DEF AnswerItself, TypeOK
<1>9. CASE AnswerFromCache
  <2>1. Head(turn) \in Query
    BY <1>9 DEF AnswerFromCache, TypeOK
  <2>2. QED
    BY <1>9, <2>1, SizesTyped, ResultsTyped DEF AnswerFromCache, TypeOK
<1>10. CASE Execute
  <2>1. pc' \in Asking \cup {"turn"}
    BY <1>10, ExecuteStays, AsideAsks DEF InTurn, Aside
  <2>2. QED  BY <1>10, <2>1, SizesTyped, ResultsTyped DEF Execute, TypeOK
<1>11. CASE EndTurn
  <2>1. round' \in 0..MaxRounds /\ streak' \in Nat
    BY <1>0, <1>11 DEF EndTurn, TypeOK, Waiting, InTurn
  <2>2. QED
    BY <1>11, <2>1, EndTurnTyped DEF EndTurn, Moved, TypeOK
<1>12. CASE LoopOver
  BY <1>12, NoFinishTyped DEF LoopOver, Moved, TypeOK, loopVars
<1>13. CASE Accept \/ Rebuilt
  BY <1>13 DEF Accept, Rebuilt, Go, TypeOK, loopVars
<1>14. CASE RejectFact
  BY <1>0, <1>14, SayTyped DEF RejectFact, TypeOK, Asking
<1>15. CASE RejectBareFp
  BY <1>15, SayTyped DEF RejectBareFp, TypeOK, Asking, Again, loopVars
<1>16. CASE Unusable
  BY <1>16 DEF Unusable, GiveUp, TypeOK, loopVars
<1>17. CASE Settle
  BY <1>17, AsideAsks DEF Settle, Go, TypeOK, loopVars, Aside
<1>18. CASE AsideOver
  BY <1>18, AsideKeeps, AsideAsks DEF TypeOK, Aside
<1>19. CASE UNCHANGED vars
  BY <1>19 DEF vars, loopVars, TypeOK
<1>20. QED
  BY <1>1, <1>2, <1>3, <1>4, <1>5, <1>6, <1>7, <1>8, <1>9, <1>10, <1>11, <1>12, <1>13,
     <1>14, <1>15, <1>16, <1>17, <1>18, <1>19 DEF Next, Step, Reply

-----------------------------------------------------------------------------
(* What is awaited, and what is owed.                                      *)

\* The places where nothing is asked of the model.
LEMMA Quiet ==
  /\ {"turn", "idle", "guards", "rebuilt", "settled"} \cap Asking = {}
  /\ InTurn \cap ((Asking \ {"distil"}) \cup {"idle", "guards", "rebuilt", "settled"}) = {}
BY DEF Asking, Aside, InTurn, Forced, Again

\* The ways on lead out of a turn.
LEMMA MovedOut ==
  ASSUME Moved
  PROVE  pc' \notin InTurn
BY Quiet DEF Moved

LEMMA MovedWaiting ==
  ASSUME Moved, attempt' = 0
  PROVE  Waiting'
<1>1. pc' \notin InTurn
  BY MovedOut
<1>2. QED  BY <1>1 DEF Waiting, InTurn

LEMMA NextWaiting ==
  ASSUME TypeOK, Waiting, [Next]_vars
  PROVE  Waiting'
<1>0. MaxRounds \in Nat
  BY ConstantsAssumption
<1>1. CASE Begin
  BY <1>1 DEF Begin, Waiting, InTurn
<1>2. CASE Ask
  BY <1>2, Quiet DEF Ask, MayAsk, Waiting, InTurn, loopVars
<1>3. CASE Retry
  BY <1>3 DEF Retry, Waiting, InTurn, loopVars
<1>4. CASE Fails
  BY <1>4, FailsTyped, MovedWaiting DEF Fails
<1>5. CASE Answers
  BY <1>5, AnswersTyped, MovedWaiting DEF Answers
<1>6. ASSUME NEW calls \in Calls, CallsTools(calls)
      PROVE  Waiting'
  <2>1. Len(calls) <= MaxCalls
    BY CallsTyped, ConstantsAssumption
  <2>2. QED  BY <1>6, <2>1 DEF CallsTools, Waiting, InTurn
<1>7. ASSUME NEW v, CallsVerdict(v)
      PROVE  Waiting'
  BY <1>7, CallsVerdictTyped, MovedWaiting DEF CallsVerdict
<1>8. CASE AnswerItself \/ AnswerFromCache \/ Execute
  <2>1. pc = "turn" /\ turn # <<>> /\ turn' = Tail(turn) /\ UNCHANGED <<attempt, round, second>>
    BY <1>8 DEF AnswerItself, AnswerFromCache, Execute
  <2>2. pc' \in InTurn /\ (pc' = "distil" => second)
    BY <1>8, ExecuteStays DEF AnswerItself, AnswerFromCache, InTurn
  <2>3. Len(turn') <= MaxCalls
    <3>1. Len(turn) \in Nat /\ Len(turn') = Len(turn) - 1
      BY <2>1, HeadTailProperties, LenProperties, EmptySeq DEF TypeOK
    <3>2. QED  BY <2>1, <3>1, ConstantsAssumption DEF Waiting, InTurn
  <2>4. attempt' = 0
    BY <2>1, Quiet DEF Waiting, TypeOK
  <2>5. QED  BY <2>1, <2>2, <2>3, <2>4 DEF Waiting, InTurn
<1>9. CASE EndTurn
  <2>1. attempt = 0 /\ attempt' = 0
    BY <1>9, Quiet DEF EndTurn, Waiting, TypeOK
  <2>2. QED  BY <1>9, <2>1, EndTurnTyped, MovedWaiting
<1>10. CASE LoopOver
  BY <1>10, NoFinishTyped, MovedWaiting DEF LoopOver
<1>11. CASE Accept \/ Rebuilt \/ Unusable \/ Settle \/ RejectFact \/ RejectBareFp
  <2>1. attempt = 0 /\ attempt' = 0
    BY <1>11, Quiet DEF Accept, Rebuilt, Unusable, Settle, RejectFact, RejectBareFp, Waiting, TypeOK
  <2>2. pc' \in {"settled", "idle", "falsify", "backfill", "loop", "requiredAgain"}
    BY <1>11 DEF Accept, Rebuilt, Unusable, Settle, RejectFact, RejectBareFp, GiveUp, Go
  <2>3. QED  BY <2>1, <2>2 DEF Waiting, InTurn
<1>12. CASE AsideOver
  BY <1>12, AsideKeeps DEF Waiting, InTurn
<1>13. CASE UNCHANGED vars
  BY <1>13 DEF vars, loopVars, Waiting, InTurn
<1>14. QED
  BY <1>1, <1>2, <1>3, <1>4, <1>5, <1>6, <1>7, <1>8, <1>9, <1>10, <1>11, <1>12, <1>13
  DEF Next, Step, Reply

\* Outside of a turn nothing is owed, and the ways on owe nothing.
LEMMA MovedPaired ==
  ASSUME TypeOK, Paired, pc # "distil", pc = "turn" => turn = <<>>, Moved
  PROVE  Paired'
<1>1. conv.owed = 0 /\ ~conv.stray
  BY NoTurn DEF Paired, InTurn
<1>2. /\ Say(conv).owed = 0 /\ ~Say(conv).stray
      /\ Prompt.owed = 0 /\ ~Prompt.stray
  BY <1>1, SayTyped DEF TypeOK, Prompt
<1>3. pc' \notin InTurn
  BY MovedOut
<1>4. kept'.owed = 0 /\ ~kept'.stray
  BY <1>1 DEF Moved, Paired
<1>5. conv'.owed = 0 /\ ~conv'.stray
  BY <1>1, <1>2 DEF Moved
<1>6. QED  BY <1>3, <1>4, <1>5 DEF Paired

\* Each result pays off one call.
LEMMA ResultPaired ==
  ASSUME TypeOK, Paired, pc = "turn", turn # <<>>, NEW n \in Nat,
         conv' = ResultOf(conv, Head(turn), n), turn' = Tail(turn), pc' \in InTurn,
         kept' = kept
  PROVE  Paired'
<1>1. conv.owed = Len(turn) /\ ~conv.stray /\ conv \in Conversation
  BY DEF Paired, TypeOK, InTurn
<1>2. Len(turn) \in Nat \ {0} /\ Len(Tail(turn)) = Len(turn) - 1
  BY ResultsTyped
<1>3. conv'.owed = Len(turn')
  BY <1>1, <1>2, ResultTyped
<1>4. ~conv'.stray
  BY <1>1, <1>2, ResultTyped
<1>5. QED  BY <1>3, <1>4 DEF Paired

LEMMA NextPaired ==
  ASSUME TypeOK, Waiting, Paired, [Next]_vars
  PROVE  Paired'
<1> USE DEF InTurn
<1>0. pc # "turn" \/ attempt = 0
  BY Quiet DEF Waiting, TypeOK
<1>1. CASE Begin
  BY <1>1 DEF Begin, Paired, Prompt
<1>2. CASE Ask
  BY <1>2 DEF Ask, Paired, loopVars
<1>3. CASE Retry
  BY <1>3 DEF Retry, Paired, loopVars
<1>4. CASE Fails
  <2>1. pc # "distil"
    BY <1>4 DEF Fails, TextPath
  <2>2. QED  BY <1>0, <1>4, <2>1, FailsTyped, MovedPaired DEF Fails
<1>5. CASE Answers
  <2>1. pc # "distil"
    BY <1>5 DEF Answers, TextPath, Forced, Again
  <2>2. QED  BY <1>0, <1>5, <2>1, AnswersTyped, MovedPaired DEF Answers
<1>6. ASSUME NEW calls \in Calls, CallsTools(calls)
      PROVE  Paired'
  <2>1. conv'.owed = Len(turn') /\ conv'.stray = conv.stray
    BY <1>6, TurnTyped DEF CallsTools, TypeOK
  <2>2. pc' = "turn" /\ kept' = kept
    BY <1>6 DEF CallsTools
  <2>3. QED  BY <2>1, <2>2 DEF Paired
<1>7. ASSUME NEW v, CallsVerdict(v)
      PROVE  Paired'
  <2>1. pc # "distil"
    BY <1>7 DEF CallsVerdict, Forced, Again
  <2>2. QED  BY <1>0, <1>7, <2>1, CallsVerdictTyped, MovedPaired DEF CallsVerdict
<1>8. CASE AnswerItself
  BY <1>8, ResultPaired DEF AnswerItself
<1>9. CASE AnswerFromCache
  BY <1>9, ResultPaired, SizesTyped DEF AnswerFromCache
<1>10. CASE Execute
  BY <1>10, ResultPaired, SizesTyped, ExecuteStays DEF Execute
<1>11. CASE EndTurn
  BY <1>11, EndTurnTyped, MovedPaired DEF EndTurn
<1>12. CASE LoopOver
  BY <1>12, NoFinishTyped, MovedPaired DEF LoopOver
<1>13. CASE Accept \/ Rebuilt \/ Unusable \/ Settle
  BY <1>13 DEF Accept, Rebuilt, Unusable, Settle, GiveUp, Go, Paired
<1>14. CASE RejectFact
  BY <1>14, SayTyped DEF RejectFact, Paired, TypeOK
<1>15. CASE RejectBareFp
  BY <1>15, SayTyped DEF RejectBareFp, Paired, TypeOK
<1>16. CASE AsideOver
  BY <1>16, AsideKeeps DEF Paired
<1>17. CASE UNCHANGED vars
  BY <1>17 DEF vars, loopVars, Paired
<1>18. QED
  BY <1>1, <1>2, <1>3, <1>4, <1>5, <1>6, <1>7, <1>8, <1>9, <1>10, <1>11, <1>12, <1>13,
     <1>14, <1>15, <1>16, <1>17 DEF Next, Step, Reply

-----------------------------------------------------------------------------
(* What the log says.                                                      *)

\* A prompt shows no result, and prose adds none.
LEMMA NothingShown ==
  ASSUME TypeOK
  PROVE  /\ Prompt.shown = {}
         /\ Say(conv).shown = conv.shown /\ Say(kept).shown = kept.shown
BY SayTyped DEF Prompt, TypeOK

\* Where the loop is over, what it showed is logged.
LEMMA NoFinishLogs ==
  ASSUME TypeOK, Logs, pc \in {"loop", "turn"}, NoFinish
  PROVE  Logs'
<1>1. kept.shown \subseteq log
  BY DEF Logs
<1>2. conv.shown \subseteq loopLog \cup (IF second THEN log ELSE {})
  BY DEF Logs, InTurn
<1>3. CASE second
  BY <1>1, <1>2, <1>3 DEF NoFinish, Logged, Logs, InTurn, Closing
<1>4. CASE ~second
  <2>1. log' = loopLog /\ pc' = "required" /\ kept' = conv /\ conv' = Say(conv)
    BY <1>4 DEF NoFinish, Logged
  <2>2. conv.shown \subseteq loopLog
    BY <1>2, <1>4
  <2>3. kept'.shown \subseteq log' /\ conv'.shown \subseteq log'
    BY <2>1, <2>2, NothingShown
  <2>4. QED  BY <2>1, <2>3 DEF Logs, InTurn
<1>5. QED  BY <1>3, <1>4

\* Behind the loop the log stays as it is, and so does what is shown, or less.
LEMMA MovedLogs ==
  ASSUME TypeOK, Logs, pc \notin {"loop", "turn", "distil"},
         pc \in Closing => pc' \in Closing,
         pc' \notin {"loop", "turn", "distil"}, conv' \in {conv, Prompt}, kept' = kept, log' = log
  PROVE  Logs'
<1>1. kept.shown \subseteq log /\ (pc' \notin Closing => conv.shown \subseteq log)
  BY DEF Logs, InTurn, Closing
<1>2. pc' \notin Closing => conv'.shown \subseteq log
  BY <1>1, NothingShown
<1>3. QED  BY <1>1, <1>2 DEF Logs, InTurn

\* A result is in the log of the loop when it is shown.
LEMMA ResultLogs ==
  ASSUME TypeOK, Logs, pc = "turn", turn # <<>>, NEW n \in Nat,
         conv' = ResultOf(conv, Head(turn), n), pc' \in InTurn,
         UNCHANGED <<kept, second, log>>,
         loopLog' = loopLog \cup ({Head(turn)} \cap Query)
  PROVE  Logs'
<1>1. conv'.shown = conv.shown \cup ({Head(turn)} \cap Query)
  BY ResultTyped DEF TypeOK
<1>2. conv.shown \subseteq loopLog \cup (IF second THEN log ELSE {}) /\ kept.shown \subseteq log
  BY DEF Logs, InTurn
<1>3. QED  BY <1>1, <1>2 DEF Logs

LEMMA NextLogs ==
  ASSUME TypeOK, Waiting, Logs, [Next]_vars
  PROVE  Logs'
<1> USE DEF InTurn, Closing
<1>0. attempt > 0 => pc # "turn" /\ pc # "idle"
  BY Quiet DEF Waiting
<1>1. CASE Begin
  BY <1>1 DEF Begin, Logs, Prompt
<1>2. CASE Ask
  BY <1>2 DEF Ask, Logs, loopVars
<1>3. CASE Retry
  BY <1>3 DEF Retry, Logs, loopVars
<1>4. CASE Fails
  <2>1. CASE pc = "loop" /\ NoFinish
    BY <2>1, NoFinishLogs
  <2>2. CASE pc = "auto" /\ SingleTurn
    BY <2>2, MovedLogs DEF SingleTurn
  <2>3. CASE pc \in TextPath /\ GiveUp
    BY <2>3, MovedLogs DEF GiveUp, TextPath
  <2>4. CASE \/ pc = "required" /\ Go("auto")
             \/ pc = "tool" /\ Go("text")
             \/ pc = "requiredAgain" /\ Go("autoAgain")
             \/ pc = "autoAgain" /\ Go("settled")
    BY <2>4, MovedLogs DEF Go
  <2>5. QED  BY <1>4, <2>1, <2>2, <2>3, <2>4 DEF Fails
<1>5. CASE Answers
  <2>1. CASE pc = "loop" /\ NoFinish
    BY <2>1, NoFinishLogs
  <2>2. CASE pc \in Forced /\ SingleTurn
    BY <2>2, MovedLogs DEF SingleTurn, Forced
  <2>3. CASE pc \in TextPath /\ (Given \/ GiveUp)
    BY <2>3, MovedLogs DEF Given, Receivers, GiveUp, TextPath, Again
  <2>4. CASE /\ pc = "text" /\ pc' = "repair" /\ conv' = Prompt
             /\ UNCHANGED <<kept, second, log, verdict>>
    BY <2>4, MovedLogs
  <2>5. CASE pc = "tool" /\ Go("text")
    BY <2>5, MovedLogs DEF Go
  <2>6. CASE pc \in Again /\ Go("settled")
    BY <2>6, MovedLogs DEF Go, Again
  <2>7. QED  BY <1>5, <2>1, <2>2, <2>3, <2>4, <2>5, <2>6 DEF Answers, TextPath
<1>6. ASSUME NEW calls \in Calls, CallsTools(calls)
      PROVE  Logs'
  <2>1. conv'.shown = conv.shown
    BY <1>6, TurnTyped DEF CallsTools, TypeOK
  <2>2. pc = "loop" /\ pc' = "turn" /\ UNCHANGED <<kept, second, loopLog, log>>
    BY <1>6 DEF CallsTools
  <2>3. QED  BY <2>1, <2>2 DEF Logs
<1>7. ASSUME NEW v, CallsVerdict(v)
      PROVE  Logs'
  BY <1>7, MovedLogs DEF CallsVerdict, SingleTurn, Given, Receivers, Go, Forced, Again
<1>8. CASE AnswerItself
  <2>1. loopLog = loopLog \cup ({Head(turn)} \cap Query)
    BY <1>8 DEF AnswerItself
  <2>2. QED  BY <1>8, <2>1, ResultLogs DEF AnswerItself
<1>9. CASE AnswerFromCache
  <2>1. {Head(turn)} = {Head(turn)} \cap Query
    BY <1>9 DEF AnswerFromCache, TypeOK
  <2>2. QED  BY <1>9, <2>1, ResultLogs, SizesTyped DEF AnswerFromCache
<1>10. CASE Execute
  <2>1. {Head(turn)} = {Head(turn)} \cap Query
    BY <1>10 DEF Execute
  <2>2. QED  BY <1>10, <2>1, ResultLogs, SizesTyped, ExecuteStays DEF Execute
<1>11. CASE EndTurn
  <2>1. CASE NoFinish
    BY <1>11, <2>1, NoFinishLogs DEF EndTurn
  <2>2. CASE Go("loop")
    BY <1>11, <2>2 DEF EndTurn, Go, Logs
  <2>3. CASE /\ finish = "submit"
             /\ pc' \in Receivers(second)
             /\ kept' = IF second THEN kept ELSE conv
             /\ log' = Logged
             /\ UNCHANGED <<conv, second>>
    <3>1. pc = "turn"
      BY <1>11 DEF EndTurn
    <3>2. log' = loopLog \cup (IF second THEN log ELSE {})
      BY <2>3, <3>1 DEF Logged
    <3>3. conv.shown \subseteq log' /\ (second => kept.shown \subseteq log')
      BY <3>1, <3>2 DEF Logs
    <3>4. QED  BY <2>3, <3>3 DEF Logs, Receivers
  <2>4. QED  BY <1>11, <2>1, <2>2, <2>3 DEF EndTurn
<1>12. CASE LoopOver
  BY <1>12, NoFinishLogs DEF LoopOver
<1>13. CASE Accept \/ Rebuilt \/ Unusable \/ Settle
  BY <1>13, MovedLogs DEF Accept, Rebuilt, Unusable, Settle, GiveUp, Go
<1>14. CASE RejectFact
  <2>1. conv'.shown = kept.shown /\ second' /\ pc' = "loop" /\ UNCHANGED <<kept, log>>
    BY <1>14, NothingShown DEF RejectFact
  <2>2. QED  BY <2>1 DEF Logs
<1>15. CASE RejectBareFp
  <2>1. conv'.shown = kept.shown /\ pc' = "requiredAgain" /\ UNCHANGED <<kept, log>>
    BY <1>15, NothingShown DEF RejectBareFp
  <2>2. QED  BY <2>1 DEF Logs
<1>16. CASE AsideOver
  BY <1>16, AsideKeeps DEF Logs
<1>17. CASE UNCHANGED vars
  BY <1>17 DEF vars, loopVars, Logs
<1>18. QED
  BY <1>1, <1>2, <1>3, <1>4, <1>5, <1>6, <1>7, <1>8, <1>9, <1>10, <1>11, <1>12, <1>13,
     <1>14, <1>15, <1>16, <1>17 DEF Next, Step, Reply

-----------------------------------------------------------------------------
(* How many requests.                                                      *)

LEMMA ProductGrows ==
  ASSUME NEW a \in Nat, NEW b \in Nat, NEW c \in Nat, a <= b
  PROVE  a * c \in Nat /\ b * c \in Nat /\ a * c <= b * c
OBVIOUS

LEMMA OneLess ==
  ASSUME NEW n \in Nat \ {0}, NEW c \in Nat
  PROVE  (n - 1) * c = n * c - c /\ n * c \in Nat /\ (n - 1) * c \in Nat
OBVIOUS

LEMMA BoundTyped ==
  /\ MaxRounds \in Nat /\ MaxCalls \in Nat \ {0} /\ RoundCost = 1 + MaxCalls
  /\ MaxRounds * RoundCost \in Nat
  /\ MaxSecond \in Nat /\ 2 <= MaxSecond /\ MaxRounds * RoundCost <= MaxSecond
<1>1. MaxRounds \in Nat /\ MaxCalls \in Nat \ {0} /\ RoundCost \in Nat /\ RoundCost = 1 + MaxCalls
  BY ConstantsAssumption DEF RoundCost
<1>2. MaxRounds * RoundCost \in Nat
  BY <1>1, ProductGrows
<1>3. QED  BY <1>1, <1>2 DEF MaxSecond

LEMMA RoundsTyped ==
  ASSUME NEW n \in 0..MaxRounds
  PROVE  /\ Rounds(n) \in Nat
         /\ n < MaxRounds => Rounds(n) = Rounds(n + 1) + RoundCost /\ Rounds(n + 1) \in Nat
<1> DEFINE m == MaxRounds - n
<1>1. m \in Nat /\ RoundCost \in Nat /\ MaxRounds - (n + 1) = m - 1 /\ (n < MaxRounds => m # 0)
  BY BoundTyped
<1>2. Rounds(n) = m * RoundCost /\ Rounds(n + 1) = (m - 1) * RoundCost
  BY <1>1 DEF Rounds
<1> HIDE DEF m
<1>3. m * RoundCost \in Nat
  BY <1>1, ProductGrows
<1>4. m # 0 => (m - 1) * RoundCost = m * RoundCost - RoundCost /\ (m - 1) * RoundCost \in Nat
  BY <1>1, OneLess
<1>5. QED  BY <1>1, <1>2, <1>3, <1>4

LEMMA LeftIs ==
  ASSUME NEW p, NEW n, NEW again
  PROVE  /\ p \in {"loop", "turn", "distil"} =>
              LeftAt(p, n, again) = IF again THEN Rounds(n) + 2 ELSE MaxRounds - n + 8 + MaxSecond
         /\ p = "required" => LeftAt(p, n, again) = 8 + MaxSecond
         /\ p = "auto" => LeftAt(p, n, again) = 7 + MaxSecond
         /\ p = "tool" => LeftAt(p, n, again) = 6 + MaxSecond
         /\ p = "text" => LeftAt(p, n, again) = 5 + MaxSecond
         /\ p = "repair" => LeftAt(p, n, again) = 4 + MaxSecond
         /\ p = "deformed" => LeftAt(p, n, again) = 3 + MaxSecond
         /\ p = "guards" => LeftAt(p, n, again) = 2 + MaxSecond
         /\ p = "requiredAgain" => LeftAt(p, n, again) = 4
         /\ p = "autoAgain" => LeftAt(p, n, again) = 3
         /\ p \in {"rebuilt", "settled", "falsify"} => LeftAt(p, n, again) = 2
         /\ p = "backfill" => LeftAt(p, n, again) = 1
         /\ p = "idle" => LeftAt(p, n, again) = 0
BY DEF LeftAt

Place == Asking \cup {"idle", "turn", "guards", "rebuilt", "settled"}

LEMMA LeftTyped ==
  ASSUME NEW p \in Place, NEW n \in 0..MaxRounds, NEW again
  PROVE  LeftAt(p, n, again) \in Nat
<1>1. n \in Nat /\ MaxRounds - n \in Nat /\ Rounds(n) \in Nat
  BY BoundTyped, RoundsTyped
<1>2. p \in {"loop", "turn", "distil", "required", "auto", "tool", "text", "repair", "deformed",
             "guards", "requiredAgain", "autoAgain", "falsify", "backfill", "idle", "rebuilt",
             "settled"}
  BY DEF Place, Asking, Aside, Forced, Again
<1>3. QED
  BY <1>1, <1>2, LeftIs, BoundTyped

LEMMA SpentIs ==
  ASSUME NEW p, NEW a, NEW n, NEW again
  PROVE  /\ p = "turn" => SpentAt(p, a, n, again) = 3 + Summaries(n, again)
         /\ p = "distil" => SpentAt(p, a, n, again) = a + Summaries(n, again)
         /\ p \notin InTurn => SpentAt(p, a, n, again) = a
BY DEF SpentAt, InTurn

LEMMA SummariesTyped ==
  ASSUME NEW n \in 0..MaxCalls, NEW again \in BOOLEAN
  PROVE  /\ Summaries(n, again) \in Nat
         /\ n > 0 => /\ Summaries(n, again) <= Summaries(n - 1, again)
                     /\ again => Summaries(n - 1, again) = 3 + Summaries(n, again)
         /\ 3 + Summaries(0, again) = IF again THEN 3 * RoundCost ELSE 3
BY BoundTyped DEF Summaries

LEMMA SpentAtTyped ==
  ASSUME NEW p, NEW a \in 0..3, NEW t \in Seq(Tool), NEW again \in BOOLEAN,
         p \in InTurn => Len(t) <= MaxCalls
  PROVE  /\ SpentAt(p, a, Len(t), again) \in Nat
         /\ p \in InTurn => Len(t) \in 0..MaxCalls
<1>1. Len(t) \in Nat
  BY LenProperties
<1>2. p \in InTurn => Len(t) \in 0..MaxCalls
  BY <1>1, BoundTyped
<1>3. p \in InTurn => Summaries(Len(t), again) \in Nat
  BY <1>2, SummariesTyped
<1>4. QED  BY <1>2, <1>3, SpentIs DEF InTurn

LEMMA SpentTyped ==
  ASSUME TypeOK, Waiting
  PROVE  /\ Spent \in Nat
         /\ pc \in InTurn => Len(turn) \in 0..MaxCalls
BY SpentAtTyped DEF Spent, TypeOK, Waiting

LEMMA SpentTypedNext ==
  ASSUME TypeOK', Waiting'
  PROVE  /\ Spent' \in Nat
         /\ pc' \in InTurn => Len(turn') \in 0..MaxCalls
<1>1. pc' \in InTurn => Len(turn') <= MaxCalls
  BY DEF Waiting, InTurn
<1>2. turn' \in Seq(Tool) /\ attempt' \in 0..3 /\ second' \in BOOLEAN
  BY DEF TypeOK
<1>3. QED  BY <1>1, <1>2, SpentAtTyped DEF Spent

Bound == 3 * (MaxRounds + 8 + MaxSecond)

\* A step keeps to the budget when what it asks and what it leaves to come are paid for
\* by what it spends.
LEMMA Balance ==
  ASSUME TypeOK, TypeOK', Waiting, Waiting', Budgeted,
         (requests' - requests) + 3 * (Left' - Left) <= Spent' - Spent
  PROVE  Budgeted'
<1>1. requests \in Nat /\ requests' \in Nat /\ Bound \in Nat
  BY BoundTyped DEF TypeOK, Bound
<1>2. Spent \in Nat /\ Spent' \in Nat
  BY SpentTyped, SpentTypedNext
<1>3. Left \in Nat /\ LeftAt(pc', round', second') \in Nat
  BY LeftTyped DEF Left, TypeOK, Place
<1>4. Left' = LeftAt(pc', round', second')
  BY DEF Left
<1>5. requests + 3 * Left <= Bound + Spent
  BY DEF Budgeted, Bound
<1>6. requests' + 3 * Left' <= Bound + Spent'
  BY <1>1, <1>2, <1>3, <1>4, <1>5
<1>7. QED  BY <1>6 DEF Budgeted, Bound, MaxSecond, RoundCost

\* Outside of a turn only the attempts of one request are spent.
LEMMA FewerLeft ==
  ASSUME TypeOK, TypeOK', Waiting, Waiting', Budgeted, requests' = requests,
         pc \notin InTurn, pc' \notin InTurn, attempt' = 0,
         LeftAt(pc', round', second') <= LeftAt(pc, round, second),
         attempt > 0 => LeftAt(pc', round', second') < LeftAt(pc, round, second)
  PROVE  Budgeted'
<1>1. Spent = attempt /\ Spent' = 0 /\ attempt \in 0..3 /\ requests \in Nat
  BY SpentIs DEF Spent, TypeOK
<1>2. LeftAt(pc, round, second) \in Nat /\ LeftAt(pc', round', second') \in Nat
  BY LeftTyped DEF TypeOK, Place
<1>3. Left = LeftAt(pc, round, second) /\ Left' = LeftAt(pc', round', second')
  BY DEF Left
<1>4. (requests' - requests) + 3 * (Left' - Left) <= Spent' - Spent
  BY <1>1, <1>2, <1>3
<1>5. QED  BY <1>4, Balance

\* A loop that is over in a round leaves the paths behind it, or what follows the second
\* question.
LEMMA NoFinishLeft ==
  ASSUME TypeOK, pc \in {"loop", "turn"}, NoFinish
  PROVE  /\ LeftAt(pc', round', second') <= LeftAt(pc, round, second)
         /\ round < MaxRounds =>
              LeftAt(pc', round', second') + (IF second THEN RoundCost ELSE 1)
                <= LeftAt(pc, round, second)
<1>1. round \in Nat /\ round <= MaxRounds /\ round \in 0..MaxRounds
  BY BoundTyped DEF TypeOK
<1>2. second' = second /\ pc' = IF second THEN "settled" ELSE "required"
  BY DEF NoFinish
<1>3. LeftAt(pc, round, second)
        = IF second THEN Rounds(round) + 2 ELSE MaxRounds - round + 8 + MaxSecond
  BY LeftIs
<1>4. LeftAt(pc', round', second') = IF second THEN 2 ELSE 8 + MaxSecond
  BY <1>2, LeftIs
<1>5. /\ Rounds(round) \in Nat
      /\ round < MaxRounds => RoundCost <= Rounds(round)
  BY <1>1, RoundsTyped, BoundTyped
<1>6. QED  BY <1>1, <1>3, <1>4, <1>5, BoundTyped

\* Behind the loop each way on leaves fewer requests.
LEMMA LaterLeft ==
  ASSUME \/ pc = "required" /\ pc' \in {"auto", "tool", "deformed", "guards"}
         \/ pc = "auto" /\ pc' \in {"tool", "deformed", "guards"}
         \/ pc = "tool" /\ pc' \in {"text", "deformed", "guards"}
         \/ pc = "text" /\ pc' \in {"repair", "deformed", "guards", "idle"}
         \/ pc = "repair" /\ pc' \in {"deformed", "guards", "idle"}
         \/ pc = "deformed" /\ pc' = "guards"
         \/ pc = "requiredAgain" /\ pc' \in {"autoAgain", "rebuilt", "settled"}
         \/ pc = "autoAgain" /\ pc' \in {"rebuilt", "settled"}
         \/ pc = "falsify" /\ pc' \in {"backfill", "idle"}
         \/ pc = "backfill" /\ pc' = "idle"
  PROVE  /\ LeftAt(pc', round', second') < LeftAt(pc, round, second)
         /\ LeftAt(pc', round', second') <= LeftAt(pc, round, second)
         /\ pc \notin InTurn /\ pc' \notin InTurn
BY LeftIs, BoundTyped DEF InTurn

LEMMA NextBudgeted ==
  ASSUME TypeOK, TypeOK', Waiting, Waiting', Budgeted, [Next]_vars
  PROVE  Budgeted'
<1>0. /\ attempt > 0 => pc # "turn"
      /\ pc \in {"turn", "guards", "rebuilt", "settled"} => attempt = 0
      /\ attempt \in 0..3 /\ requests \in Nat
  BY Quiet DEF Waiting, TypeOK
<1>00. /\ LeftAt(pc, round, second) \in Nat /\ LeftAt(pc', round', second') \in Nat
       /\ Left = LeftAt(pc, round, second) /\ Left' = LeftAt(pc', round', second')
  BY LeftTyped DEF TypeOK, Place, Left
<1>1. CASE Begin
  <2>1. requests' = 0 /\ round' = 0 /\ second' = FALSE /\ attempt' = 0
        /\ pc' \in {"loop", "tool"}
    BY <1>1 DEF Begin
  <2>2. LeftAt(pc', round', second') <= MaxRounds + 8 + MaxSecond
    BY <2>1, LeftIs, BoundTyped
  <2>3. Spent' = 0
    BY <2>1, SpentIs DEF Spent, InTurn
  <2>4. requests' + 3 * Left' <= 3 * (MaxRounds + 8 + MaxSecond) + Spent'
    BY <1>00, <2>1, <2>2, <2>3, BoundTyped
  <2>5. QED  BY <2>4 DEF Budgeted, MaxSecond, RoundCost
<1>2. CASE Ask \/ Retry
  <2>1. UNCHANGED <<pc, round, second, turn>> /\ requests' = requests + 1 /\ attempt' = attempt + 1
    BY <1>0, <1>2 DEF Ask, Retry, MayRetry, loopVars
  <2>2. pc # "turn"
    BY <1>0, <1>2, Quiet DEF Ask, Retry
  <2>3. Spent' = Spent + 1
    <3>1. CASE pc = "distil"
      <4>1. Len(turn) \in 0..MaxCalls
        BY <3>1, SpentTyped DEF InTurn
      <4>2. Summaries(Len(turn), second) \in Nat
        BY <4>1, SummariesTyped DEF TypeOK
      <4>3. Spent = attempt + Summaries(Len(turn), second)
            /\ Spent' = attempt + 1 + Summaries(Len(turn), second)
        BY <2>1, <3>1, SpentIs DEF Spent
      <4>4. QED  BY <1>0, <4>2, <4>3
    <3>2. CASE pc # "distil"
      BY <1>0, <2>1, <2>2, <3>2, SpentIs DEF Spent, InTurn
    <3>3. QED  BY <3>1, <3>2
  <2>4. Spent \in Nat
    BY SpentTyped
  <2>5. (requests' - requests) + 3 * (Left' - Left) <= Spent' - Spent
    BY <1>0, <1>00, <2>1, <2>3, <2>4
  <2>6. QED  BY <2>5, Balance
<1>3. CASE Fails
  <2>1. requests' = requests /\ attempt' = 0 /\ pc' \notin InTurn
    BY <1>3, FailsTyped, MovedOut DEF Fails
  <2>2. CASE pc = "loop" /\ NoFinish
    <3>1. round < MaxRounds
      BY <1>3, <2>2 DEF Fails, Waiting
    <3>2. LeftAt(pc', round', second') < LeftAt(pc, round, second)
      BY <1>00, <2>2, <3>1, NoFinishLeft, BoundTyped
    <3>3. QED  BY <1>00, <2>1, <2>2, <3>2, FewerLeft DEF InTurn
  <2>3. CASE pc # "loop"
    <3>1. /\ LeftAt(pc', round', second') < LeftAt(pc, round, second)
          /\ LeftAt(pc', round', second') <= LeftAt(pc, round, second)
          /\ pc \notin InTurn
      BY <1>3, <2>3, LaterLeft DEF Fails, SingleTurn, GiveUp, Go, TextPath
    <3>2. QED  BY <2>1, <3>1, FewerLeft
  <2>4. QED  BY <1>3, <2>2, <2>3 DEF Fails, TextPath
<1>4. CASE Answers
  <2>1. requests' = requests /\ attempt' = 0 /\ pc' \notin InTurn
    BY <1>4, AnswersTyped, MovedOut DEF Answers
  <2>2. CASE pc = "loop" /\ NoFinish
    <3>1. round < MaxRounds
      BY <1>4, <2>2 DEF Answers, Waiting
    <3>2. LeftAt(pc', round', second') < LeftAt(pc, round, second)
      BY <1>00, <2>2, <3>1, NoFinishLeft, BoundTyped
    <3>3. QED  BY <1>00, <2>1, <2>2, <3>2, FewerLeft DEF InTurn
  <2>3. CASE pc # "loop"
    <3>1. /\ LeftAt(pc', round', second') < LeftAt(pc, round, second)
          /\ LeftAt(pc', round', second') <= LeftAt(pc, round, second)
          /\ pc \notin InTurn
      BY <1>4, <2>3, LaterLeft
         DEF Answers, SingleTurn, Given, Receivers, GiveUp, Go, TextPath, Forced, Again
    <3>2. QED  BY <2>1, <3>1, FewerLeft
  <2>4. QED  BY <1>4, <2>2, <2>3 DEF Answers, TextPath, Forced, Again
<1>5. ASSUME NEW calls \in Calls, CallsTools(calls)
      PROVE  Budgeted'
  <2>1. pc = "loop" /\ pc' = "turn" /\ attempt' = 0 /\ UNCHANGED <<round, second, requests>>
    BY <1>5 DEF CallsTools
  <2>2. LeftAt(pc', round', second') = LeftAt(pc, round, second)
    BY <2>1, LeftIs
  <2>3. Spent = attempt /\ Spent' = 3 + Summaries(Len(turn'), second')
    BY <2>1, SpentIs DEF Spent, InTurn
  <2>4. Summaries(Len(turn'), second') \in Nat
    <3>1. pc' \in InTurn => Len(turn') \in 0..MaxCalls
      BY SpentTypedNext
    <3>2. QED  BY <2>1, <3>1, SummariesTyped DEF TypeOK, InTurn
  <2>5. (requests' - requests) + 3 * (Left' - Left) <= Spent' - Spent
    BY <1>0, <1>00, <2>1, <2>2, <2>3, <2>4
  <2>6. QED  BY <2>5, Balance
<1>6. ASSUME NEW v, CallsVerdict(v)
      PROVE  Budgeted'
  <2>1. requests' = requests /\ attempt' = 0 /\ pc' \notin InTurn
    BY <1>6, CallsVerdictTyped, MovedOut DEF CallsVerdict
  <2>2. /\ LeftAt(pc', round', second') < LeftAt(pc, round, second)
        /\ LeftAt(pc', round', second') <= LeftAt(pc, round, second)
        /\ pc \notin InTurn
    BY <1>6, LaterLeft DEF CallsVerdict, SingleTurn, Given, Receivers, Go, Forced, Again
  <2>3. QED  BY <2>1, <2>2, FewerLeft
<1>7. CASE AnswerItself \/ AnswerFromCache \/ Execute
  <2> DEFINE n == Len(turn)
  <2>1. pc = "turn" /\ turn # <<>> /\ turn' = Tail(turn)
        /\ UNCHANGED <<attempt, round, second, requests>>
    BY <1>7 DEF AnswerItself, AnswerFromCache, Execute
  <2>2. pc' \in InTurn /\ (pc' = "distil" => second)
    BY <1>7, ExecuteStays DEF AnswerItself, AnswerFromCache, InTurn
  <2>3. n \in 1..MaxCalls /\ Len(turn') = n - 1 /\ second \in BOOLEAN /\ attempt = 0
    <3>1. n \in Nat \ {0} /\ Len(turn') = n - 1
      BY <2>1, HeadTailProperties, LenProperties, EmptySeq DEF TypeOK
    <3>2. n \in 0..MaxCalls
      BY <2>1, SpentTyped DEF InTurn
    <3>3. QED  BY <1>0, <2>1, <3>1, <3>2 DEF TypeOK
  <2>4. Spent = 3 + Summaries(n, second)
    BY <2>1, SpentIs DEF Spent
  <2>5. Spent' = (IF pc' = "turn" THEN 3 ELSE 0) + Summaries(n - 1, second)
    <3>1. Spent' = SpentAt(pc', 0, n - 1, second)
      BY <2>1, <2>3 DEF Spent
    <3>2. Summaries(n - 1, second) \in Nat
      BY <2>3, SummariesTyped, BoundTyped
    <3>3. QED  BY <2>2, <3>1, <3>2, SpentIs DEF InTurn
  <2>6. /\ Summaries(n, second) \in Nat /\ Summaries(n - 1, second) \in Nat
        /\ Summaries(n, second) <= Summaries(n - 1, second)
        /\ second => Summaries(n - 1, second) = 3 + Summaries(n, second)
    BY <2>3, SummariesTyped, BoundTyped
  <2>7. LeftAt(pc', round', second') = LeftAt(pc, round, second)
    BY <2>1, <2>2, LeftIs DEF InTurn
  <2> HIDE DEF n
  <2>8. (requests' - requests) + 3 * (Left' - Left) <= Spent' - Spent
    BY <1>0, <1>00, <2>1, <2>2, <2>4, <2>5, <2>6, <2>7 DEF InTurn
  <2>9. QED  BY <2>8, Balance
<1>8. CASE EndTurn
  <2>1. /\ pc = "turn" /\ turn = <<>> /\ attempt = 0 /\ attempt' = 0 /\ requests' = requests
        /\ round' = round + 1 /\ second' = second /\ pc' \notin InTurn
    BY <1>0, <1>8, EndTurnTyped, MovedOut DEF EndTurn, Moved
  <2>2. round < MaxRounds /\ round \in 0..MaxRounds
    BY <2>1 DEF Waiting, TypeOK, InTurn
  <2>3. Spent' = 0
    BY <2>1, SpentIs DEF Spent
  <2>4. Spent = IF second THEN 3 * RoundCost ELSE 3
    <3>1. Spent = 3 + Summaries(0, second)
      BY <2>1, NoTurn, SpentIs DEF Spent
    <3>2. 0 \in 0..MaxCalls /\ second \in BOOLEAN
      BY BoundTyped DEF TypeOK
    <3>3. QED  BY <3>1, <3>2, SummariesTyped
  <2>5. LeftAt(pc', round', second') + (IF second THEN RoundCost ELSE 1)
          <= LeftAt(pc, round, second)
    <3>1. CASE NoFinish
      BY <2>1, <2>2, <3>1, NoFinishLeft
    <3>2. CASE pc' = "loop" \/ pc' \in Receivers(second)
      <4>1. LeftAt(pc, round, second)
              = IF second THEN Rounds(round) + 2 ELSE MaxRounds - round + 8 + MaxSecond
        BY <2>1, LeftIs
      <4>2. pc' = "loop" =>
              LeftAt(pc', round', second')
                = IF second THEN Rounds(round + 1) + 2 ELSE MaxRounds - (round + 1) + 8 + MaxSecond
        BY <2>1, LeftIs
      <4>3. pc' # "loop" =>
              /\ second => LeftAt(pc', round', second') = 2
              /\ ~second => LeftAt(pc', round', second') <= 3 + MaxSecond
        BY <2>1, <3>2, LeftIs, BoundTyped DEF Receivers
      <4>4. Rounds(round) = Rounds(round + 1) + RoundCost /\ Rounds(round + 1) \in Nat
        BY <2>2, RoundsTyped
      <4>5. QED  BY <1>00, <2>2, <4>1, <4>2, <4>3, <4>4, BoundTyped
    <3>3. QED  BY <1>8, <3>1, <3>2 DEF EndTurn, Go
  <2>6. (requests' - requests) + 3 * (Left' - Left) <= Spent' - Spent
    BY <1>0, <1>00, <2>1, <2>3, <2>4, <2>5, BoundTyped
  <2>7. QED  BY <2>6, Balance
<1>9. CASE LoopOver
  <2>1. requests' = requests /\ attempt = 0 /\ attempt' = 0 /\ pc = "loop" /\ pc' \notin InTurn
    BY <1>9, NoFinishTyped, MovedOut DEF LoopOver
  <2>2. LeftAt(pc', round', second') <= LeftAt(pc, round, second)
    BY <1>9, <2>1, NoFinishLeft DEF LoopOver
  <2>3. QED  BY <2>1, <2>2, FewerLeft DEF InTurn
<1>10. CASE Accept \/ Unusable \/ RejectFact \/ RejectBareFp
  <2>1. pc = "guards" /\ attempt = 0 /\ attempt' = 0 /\ requests' = requests
        /\ \/ pc' \in {"settled", "idle", "requiredAgain"}
           \/ pc' = "loop" /\ round' = 0 /\ second' = TRUE
    BY <1>0, <1>10 DEF Accept, Unusable, RejectFact, RejectBareFp, GiveUp, Go
  <2>2. Rounds(0) = MaxRounds * RoundCost
    BY BoundTyped DEF Rounds
  <2>3. LeftAt(pc', round', second') <= LeftAt(pc, round, second)
    BY <2>1, <2>2, LeftIs, BoundTyped
  <2>4. QED  BY <2>1, <2>3, FewerLeft DEF InTurn
<1>11. CASE Rebuilt \/ Settle
  <2>1. /\ \/ pc = "rebuilt" /\ pc' = "settled"
           \/ pc = "settled" /\ pc' \in {"falsify", "backfill", "idle"}
        /\ attempt = 0 /\ attempt' = 0 /\ requests' = requests
    BY <1>0, <1>11 DEF Rebuilt, Settle, Go
  <2>2. LeftAt(pc', round', second') <= LeftAt(pc, round, second)
    BY <2>1, LeftIs
  <2>3. QED  BY <2>1, <2>2, FewerLeft DEF InTurn
<1>12. CASE AsideOver
  <2>1. CASE pc = "distil"
    <3>1. pc' = "turn" /\ attempt' = 0 /\ UNCHANGED <<round, second, turn, requests>>
      BY <1>12, <2>1, AsideKeeps
    <3>2. Len(turn) \in 0..MaxCalls
      BY <2>1, SpentTyped DEF InTurn
    <3>3. Summaries(Len(turn), second) \in Nat
      BY <3>2, SummariesTyped DEF TypeOK
    <3>4. Spent = attempt + Summaries(Len(turn), second) /\ Spent' = 3 + Summaries(Len(turn), second)
      BY <2>1, <3>1, SpentIs DEF Spent
    <3>5. LeftAt(pc', round', second') = LeftAt(pc, round, second)
      BY <2>1, <3>1, LeftIs
    <3>6. (requests' - requests) + 3 * (Left' - Left) <= Spent' - Spent
      BY <1>0, <1>00, <3>1, <3>3, <3>4, <3>5
    <3>7. QED  BY <3>6, Balance
  <2>2. CASE pc # "distil"
    <3>1. requests' = requests /\ attempt' = 0
          /\ \/ pc = "deformed" /\ pc' = "guards"
             \/ pc = "falsify" /\ pc' \in {"backfill", "idle"}
             \/ pc = "backfill" /\ pc' = "idle"
      BY <1>12, <2>2, AsideKeeps
    <3>2. QED  BY <3>1, LaterLeft, FewerLeft
  <2>3. QED  BY <2>1, <2>2
<1>13. CASE UNCHANGED vars
  BY <1>13 DEF vars, loopVars, Budgeted, Left, Spent
<1>14. QED
  BY <1>1, <1>2, <1>3, <1>4, <1>5, <1>6, <1>7, <1>8, <1>9, <1>10, <1>11, <1>12, <1>13
  DEF Next, Step, Reply

-----------------------------------------------------------------------------
(* How much of it.                                                         *)

LEMMA LimitTyped ==
  /\ CharBudget \in Nat /\ Chunk \in Nat \ {0} /\ MaxCalls \in Nat
  /\ MaxCalls * Chunk \in Nat
  /\ Limit \in Nat /\ Limit = CharBudget + 1 + MaxCalls * Chunk
<1>1. CharBudget \in Nat /\ Chunk \in Nat \ {0} /\ MaxCalls \in Nat
  BY ConstantsAssumption
<1>2. MaxCalls * Chunk \in Nat
  BY <1>1
<1>3. QED  BY <1>1, <1>2 DEF Limit, LongestTurn

LEMMA PromptFits == Fit(Prompt, Limit) /\ Fit(Prompt, Limit + 1)
BY LimitTyped DEF Fit, Prompt

\* Prose, a prompt of the loop or a question, is of size one.
LEMMA SayFits ==
  ASSUME NEW c \in Conversation, Fit(c, Limit)
  PROVE  Fit(Say(c), Limit + 1)
BY SayTyped, LimitTyped DEF Fit, Conversation

\* Outside of a turn and of the loop only the outer limits are claimed.
LEMMA FittingElsewhere ==
  ASSUME pc' \notin {"loop", "turn", "distil"}, Fit(kept', Limit), Fit(conv', Limit + 1)
  PROVE  Fitting'
BY DEF Fitting, Fit, Limit, LongestTurn, InTurn

\* What the loop leaves behind fits.
LEMMA LoopFits ==
  ASSUME Fitting, TypeOK, ~second, pc = "loop" \/ (pc = "turn" /\ turn = <<>>)
  PROVE  Fit(conv, Limit)
<1>1. CASE pc = "loop"
  BY <1>1 DEF Fitting
<1>2. CASE pc = "turn" /\ turn = <<>>
  <2>1. Fit(conv, Limit - Len(turn) * Chunk)
    BY <1>2 DEF Fitting, InTurn
  <2>2. Limit - Len(turn) * Chunk = Limit
    BY <1>2, NoTurn, LimitTyped
  <2>3. QED  BY <2>1, <2>2
<1>3. QED  BY <1>1, <1>2

LEMMA NoFinishFits ==
  ASSUME TypeOK, Fitting, pc = "loop" \/ (pc = "turn" /\ turn = <<>>), NoFinish
  PROVE  Fitting'
<1>1. CASE second
  BY <1>1, FittingElsewhere DEF NoFinish, Fitting
<1>2. CASE ~second
  <2>1. Fit(conv, Limit) /\ Fit(Say(conv), Limit + 1)
    BY <1>2, LoopFits, SayFits DEF TypeOK
  <2>2. pc' = "required" /\ kept' = conv /\ conv' = Say(conv)
    BY <1>2 DEF NoFinish
  <2>3. QED  BY <2>1, <2>2, FittingElsewhere
<1>3. QED  BY <1>1, <1>2

\* Nothing grows on the other ways on.
LEMMA MovedFits ==
  ASSUME Fitting, pc' \notin {"loop", "turn", "distil"}, conv' \in {conv, Prompt}, kept' = kept
  PROVE  Fitting'
<1>1. Fit(kept', Limit) /\ Fit(conv', Limit + 1)
  BY PromptFits DEF Fitting
<1>2. QED  BY <1>1, FittingElsewhere

\* A result takes no more than was left for it.
LEMMA ResultFits ==
  ASSUME TypeOK, Fitting, pc = "turn", turn # <<>>, NEW n \in Nat,
         n <= Chunk \/ Head(turn) \in EngineQuery,
         conv' = ResultOf(conv, Head(turn), n), turn' = Tail(turn), pc' \in InTurn,
         kept' = kept
  PROVE  Fitting'
<1> DEFINE m == Len(turn)
<1>1. m \in Nat \ {0} /\ Len(turn') = m - 1
  BY ResultsTyped
<1>2. conv \in Conversation /\ conv.size \in Nat
  BY DEF TypeOK, Conversation
<1>3. conv'.size = conv.size + n /\ conv'.shown = conv.shown \cup ({Head(turn)} \cap Query)
  BY <1>2, ResultTyped
<1>4. Fit(conv, Limit - m * Chunk)
  BY DEF Fitting, InTurn
<1> HIDE DEF m
<1>5. (m - 1) * Chunk = m * Chunk - Chunk /\ (m - 1) * Chunk \in Nat /\ m * Chunk \in Nat
  BY <1>1, LimitTyped, OneLess
<1>6. Fit(conv', Limit - (m - 1) * Chunk)
  <2>1. SUFFICES ASSUME conv'.shown \cap EngineQuery = {}
                 PROVE  conv'.size <= Limit - (m - 1) * Chunk
    BY DEF Fit
  <2>2. conv.shown \cap EngineQuery = {} /\ Head(turn) \notin EngineQuery
    BY <1>3, <2>1 DEF Query
  <2>3. n <= Chunk /\ conv.size <= Limit - m * Chunk
    BY <1>4, <2>2 DEF Fit
  <2>4. QED  BY <1>2, <1>3, <1>5, <2>3, LimitTyped
<1>7. Fit(conv', Limit + 1)
  BY <1>2, <1>3, <1>5, <1>6, LimitTyped DEF Fit
<1>8. Fit(conv', Limit - Len(turn') * Chunk)
  BY <1>1, <1>6
<1>9. Fit(kept', Limit) /\ pc' # "loop"
  BY DEF Fitting, InTurn
<1>10. QED  BY <1>7, <1>8, <1>9 DEF Fitting, Fit, Limit, LongestTurn

LEMMA SizesFit ==
  ASSUME NEW q, NEW n \in Sizes(q)
  PROVE  n \in Nat /\ (n <= Chunk \/ q \in EngineQuery)
BY LimitTyped, SizesTyped DEF Sizes

LEMMA NextFitting ==
  ASSUME TypeOK, Waiting, Fitting, [Next]_vars
  PROVE  Fitting'
<1> USE DEF InTurn
<1>0. /\ attempt > 0 => pc # "turn"
      /\ pc \in {"turn", "guards", "rebuilt", "settled"} => attempt = 0
  BY Quiet DEF Waiting, TypeOK
<1>1. CASE Begin
  BY <1>1, PromptFits DEF Begin, Fitting, Fit, Limit, LongestTurn
<1>2. CASE Ask
  BY <1>2, Quiet DEF Ask, MayAsk, Fitting, Fit, Limit, LongestTurn, loopVars
<1>3. CASE Retry
  BY <1>3 DEF Retry, Fitting, Fit, Limit, LongestTurn, loopVars
<1>4. CASE Fails
  <2>1. CASE pc = "loop" /\ NoFinish
    BY <2>1, NoFinishFits
  <2>2. CASE pc # "loop"
    BY <1>4, <2>2, MovedFits DEF Fails, SingleTurn, GiveUp, Go
  <2>3. QED  BY <1>4, <2>1, <2>2 DEF Fails, TextPath
<1>5. CASE Answers
  <2>1. CASE pc = "loop" /\ NoFinish
    BY <2>1, NoFinishFits
  <2>2. CASE pc # "loop"
    BY <1>5, <2>2, MovedFits DEF Answers, SingleTurn, Given, Receivers, GiveUp, Go
  <2>3. QED  BY <1>5, <2>1, <2>2 DEF Answers, TextPath, Forced, Again
<1>6. ASSUME NEW calls \in Calls, CallsTools(calls)
      PROVE  Fitting'
  <2> DEFINE n == Len(calls)
  <2>1. /\ pc = "loop" /\ attempt > 0 /\ pc' = "turn" /\ attempt' = 0
        /\ kept' = kept /\ turn' = calls /\ conv' = AssistantTurn(conv, calls)
    BY <1>6 DEF CallsTools
  <2>2. conv'.size = conv.size + 1 /\ conv.size \in Nat
    BY <2>1, TurnTyped DEF TypeOK, Conversation
  <2>3. conv.size <= CharBudget
    BY <2>1 DEF Fitting
  <2>4. n \in Nat /\ n <= MaxCalls
    BY CallsTyped, LimitTyped
  <2> HIDE DEF n
  <2>5. n * Chunk \in Nat /\ n * Chunk <= MaxCalls * Chunk
    BY <2>4, LimitTyped, ProductGrows
  <2>6. conv'.size <= Limit - n * Chunk /\ conv'.size <= Limit + 1
    BY <2>2, <2>3, <2>5, LimitTyped
  <2>7. Fit(conv', Limit - Len(turn') * Chunk) /\ Fit(conv', Limit + 1)
    BY <2>1, <2>6 DEF Fit, n
  <2>8. Fit(kept', Limit)
    BY <2>1 DEF Fitting
  <2>9. QED  BY <2>1, <2>7, <2>8 DEF Fitting, Fit, Limit, LongestTurn
<1>7. ASSUME NEW v, CallsVerdict(v)
      PROVE  Fitting'
  BY <1>7, MovedFits DEF CallsVerdict, SingleTurn, Given, Receivers, Go, Forced, Again
<1>8. CASE AnswerItself
  BY <1>8, ResultFits, LimitTyped DEF AnswerItself
<1>9. CASE AnswerFromCache
  BY <1>9, ResultFits, SizesFit DEF AnswerFromCache
<1>10. CASE Execute
  BY <1>10, ResultFits, SizesFit, ExecuteStays DEF Execute
<1>11. CASE EndTurn
  <2>1. pc = "turn" /\ turn = <<>> /\ attempt' = 0
    BY <1>0, <1>11 DEF EndTurn
  <2>2. CASE NoFinish
    BY <2>1, <2>2, NoFinishFits
  <2>3. CASE Go("loop")
    <3>1. ~second => Fit(conv, Limit)
      BY <2>1, LoopFits
    <3>2. UNCHANGED <<conv, kept, second>> /\ pc' = "loop"
      BY <2>3 DEF Go
    <3>3. QED  BY <2>1, <3>1, <3>2 DEF Fitting, Fit, Limit, LongestTurn
  <2>4. CASE /\ pc' \in Receivers(second)
             /\ kept' = IF second THEN kept ELSE conv
             /\ UNCHANGED <<conv, second>>
    <3>1. ~second => Fit(conv, Limit)
      BY <2>1, LoopFits
    <3>2. Fit(kept', Limit) /\ Fit(conv', Limit + 1)
      BY <2>4, <3>1 DEF Fitting
    <3>3. QED  BY <2>4, <3>2, FittingElsewhere DEF Receivers
  <2>5. QED  BY <1>11, <2>2, <2>3, <2>4 DEF EndTurn
<1>12. CASE LoopOver
  BY <1>12, NoFinishFits DEF LoopOver
<1>13. CASE Accept \/ Rebuilt \/ Unusable \/ Settle
  BY <1>13, MovedFits DEF Accept, Rebuilt, Unusable, Settle, GiveUp, Go
<1>14. CASE RejectFact
  <2>1. conv' = Say(kept) /\ kept' = kept /\ pc' = "loop" /\ second' = TRUE /\ attempt' = 0
    BY <1>0, <1>14 DEF RejectFact
  <2>2. Fit(Say(kept), Limit + 1) /\ Fit(kept, Limit)
    BY SayFits DEF Fitting, TypeOK
  <2>3. QED  BY <2>1, <2>2 DEF Fitting, Fit, Limit, LongestTurn
<1>15. CASE RejectBareFp
  <2>1. conv' = Say(kept) /\ kept' = kept /\ pc' = "requiredAgain"
    BY <1>15 DEF RejectBareFp
  <2>2. Fit(Say(kept), Limit + 1) /\ Fit(kept, Limit)
    BY SayFits DEF Fitting, TypeOK
  <2>3. QED  BY <2>1, <2>2, FittingElsewhere
<1>16. CASE AsideOver
  <2>1. CASE pc = "distil"
    BY <1>16, <2>1, AsideKeeps DEF Fitting, Fit, Limit, LongestTurn
  <2>2. CASE pc # "distil"
    BY <1>16, <2>2, AsideKeeps, MovedFits
  <2>3. QED  BY <2>1, <2>2
<1>17. CASE UNCHANGED vars
  BY <1>17 DEF vars, loopVars, Fitting, Fit, Limit, LongestTurn
<1>18. QED
  BY <1>1, <1>2, <1>3, <1>4, <1>5, <1>6, <1>7, <1>8, <1>9, <1>10, <1>11, <1>12, <1>13,
     <1>14, <1>15, <1>16, <1>17 DEF Next, Step, Reply

-----------------------------------------------------------------------------
(* The invariant, and what follows from it.                                *)

LEMMA InitIInv == Init => IInv
<1> SUFFICES ASSUME Init PROVE IInv
  OBVIOUS
<1>1. TypeOK
  BY InitTypes
<1>2. Waiting
  BY DEF Init, Waiting, InTurn
<1>3. Paired
  BY DEF Init, Paired, Prompt, InTurn
<1>4. Fitting
  BY PromptFits DEF Init, Fitting, InTurn
<1>5. Logs
  BY DEF Init, Logs, Prompt, InTurn, Closing
<1>6. Budgeted
  <2>1. Left = 0 /\ Spent = 0 /\ requests = 0
    BY LeftIs, SpentIs DEF Init, Left, Spent, InTurn
  <2>2. QED  BY <2>1, BoundTyped DEF Budgeted
<1>7. QED  BY <1>1, <1>2, <1>3, <1>4, <1>5, <1>6 DEF IInv

LEMMA NextIInv ==
  ASSUME IInv, [Next]_vars
  PROVE  IInv'
<1>1. TypeOK /\ Waiting /\ Fitting /\ Budgeted /\ Logs /\ Paired
  BY DEF IInv
<1>2. TypeOK'
  BY <1>1, NextTypes
<1>3. Waiting'
  BY <1>1, NextWaiting
<1>4. Paired'
  BY <1>1, NextPaired
<1>5. Fitting' /\ Logs'
  BY <1>1, NextFitting, NextLogs
<1>6. Budgeted'
  BY <1>1, <1>2, <1>3, NextBudgeted
<1>7. QED  BY <1>2, <1>3, <1>4, <1>5, <1>6, Zenon DEF IInv

LEMMA Invariance == Spec => []IInv
BY InitIInv, NextIInv, PTL DEF Spec

\* A judge call keeps to its conversations, its caches and its counters, whatever
\* the model and the tools answer.
THEOREM ExplorationTypes == Spec => []TypeOK
<1>1. IInv => TypeOK
  BY DEF IInv
<1>2. QED  BY <1>1, Invariance, PTL

\* What is sent is no larger than the character budget, one turn and one question,
\* unless an engine tool's result is in it (the loop's char budget with readTruncCap).
LEMMA LimitsRequests ==
  ASSUME IInv
  PROVE  RequestsFit
<1>1. Fit(conv, Limit + 1) /\ Fit(Prompt, Limit + 1)
  BY PromptFits DEF IInv, Fitting
<1>2. QED  BY <1>1, LimitTyped DEF RequestsFit, Sent, Fit, Limit, LongestTurn

\* A judge call asks at most three times for each request that its control flow can
\* make (harness.Complete under JudgeOne).
LEMMA CountsRequests ==
  ASSUME IInv
  PROVE  RequestsBounded
<1>0. TypeOK /\ Waiting /\ Budgeted
  BY DEF IInv
<1>1. requests + 3 * Left <= Bound + Spent /\ requests \in Nat /\ Spent \in Nat
  BY <1>0, SpentTyped DEF Budgeted, TypeOK, Bound
<1>2. Left \in Nat /\ Bound \in Nat
  <2>1. pc \in Place /\ round \in 0..MaxRounds
    BY <1>0 DEF TypeOK, Place
  <2>2. Left \in Nat
    BY <2>1, LeftTyped DEF Left
  <2>3. QED  BY <2>2, BoundTyped DEF Bound
<1>3. Spent <= 3 * Left
  <2>1. CASE pc \in InTurn
    <3>1. round < MaxRounds /\ round \in 0..MaxRounds /\ Len(turn) \in 0..MaxCalls
          /\ second \in BOOLEAN /\ attempt \in 0..3 /\ (pc = "distil" => second)
      BY <1>0, <2>1, SpentTyped DEF Waiting, TypeOK
    <3>2. Summaries(Len(turn), second) \in Nat
          /\ 3 + Summaries(Len(turn), second) <= IF second THEN 3 * RoundCost ELSE 3
      BY <3>1, BoundTyped DEF Summaries
    <3>3. Spent <= 3 + Summaries(Len(turn), second)
      BY <2>1, <3>1, <3>2, SpentIs DEF Spent, InTurn
    <3>4. Left = IF second THEN Rounds(round) + 2 ELSE MaxRounds - round + 8 + MaxSecond
      BY <2>1, LeftIs DEF Left, InTurn
    <3>5. Rounds(round) = Rounds(round + 1) + RoundCost /\ Rounds(round + 1) \in Nat
      BY <3>1, RoundsTyped
    <3>6. CASE second
      <4>1. Left = Rounds(round) + 2
        BY <3>4, <3>6
      <4>2. RoundCost \in Nat
        BY BoundTyped
      <4>3. 3 + Summaries(Len(turn), second) <= 3 * RoundCost
        BY <3>2, <3>6
      <4>4. Spent <= 3 * RoundCost
        BY <1>1, <3>2, <3>3, <4>2, <4>3
      <4>5. QED  BY <1>1, <1>2, <3>5, <4>1, <4>2, <4>4
    <3>7. CASE ~second
      <4>1. Left >= 8 /\ Spent <= 3
        BY <1>1, <3>1, <3>2, <3>3, <3>4, <3>7, BoundTyped
      <4>2. QED  BY <1>1, <1>2, <4>1
    <3>8. QED  BY <3>6, <3>7
  <2>2. CASE pc \notin InTurn
    <3>1. Spent = attempt /\ attempt \in 0..3
      BY <1>0, <2>2, SpentIs DEF Spent, TypeOK
    <3>2. CASE attempt > 0
      <4>1. pc \in Asking
        BY <1>0, <3>2 DEF Waiting
      <4>2. CASE pc = "loop"
        <5>1. round < MaxRounds /\ round \in 0..MaxRounds
          BY <1>0, <3>2, <4>2 DEF Waiting, TypeOK
        <5>2. Rounds(round) \in Nat
          BY <5>1, RoundsTyped
        <5>3. Left > 0
          BY <4>2, <5>1, <5>2, LeftIs, BoundTyped DEF Left
        <5>4. QED  BY <1>2, <3>1, <5>3
      <4>3. CASE pc # "loop"
        <5>1. Left > 0
          BY <2>2, <4>1, <4>3, LeftIs, BoundTyped DEF Left, Asking, Aside, Forced, Again, InTurn
        <5>2. QED  BY <1>2, <3>1, <5>1
      <4>4. QED  BY <4>2, <4>3
    <3>3. QED  BY <1>2, <3>1, <3>2
  <2>3. QED  BY <2>1, <2>2
<1>4. requests <= Bound
  BY <1>1, <1>2, <1>3
<1>5. QED  BY <1>4 DEF RequestsBounded, Bound

\* No request exceeds the size, and no judge call the number, that the constants give,
\* whatever the model answers: deformed arguments, summaries, the refutation and the
\* missing fields are counted.
THEOREM RequestsLimited == Spec => [](RequestsFit /\ RequestsBounded)
<1>1. IInv => RequestsFit /\ RequestsBounded
  BY LimitsRequests, CountsRequests
<1>2. QED  BY <1>1, Invariance, PTL

\* Whatever the rounds, the budgets and the tools: the messages of every request pair
\* each tool call with its result, and are limited in size and in number, through
\* the loop, the forced convergence, the second question and the requests aside.
THEOREM RequestsAreSound == Spec => []RequestsSound
<1>1. IInv => MessagesPaired
  BY Quiet DEF IInv, Waiting, Paired, TypeOK, MessagesPaired, Sent, Prompt, InTurn, Aside
<1>2. IInv => RequestsSound
  BY <1>1, LimitsRequests, CountsRequests DEF RequestsSound
<1>3. QED  BY <1>2, Invariance, PTL

\* The grounding guard and the trace are given every query whose result the model
\* had before it when it gave its verdict, and each one in the conversation it may be
\* asked again on: agenticJudge copies the loop's log, the second question appends.
THEOREM EvidenceIsLogged == Spec => []LogCoversEvidence
<1>1. IInv => LogCoversEvidence
  BY DEF IInv, Logs, LogCoversEvidence, InTurn, Closing
<1>2. QED  BY <1>1, Invariance, PTL
================================================================================
