----------------------------- MODULE Exploration -----------------------------
(***************************************************************************)
(* How one judge call talks to the model: the retries of the harness, the  *)
(* loop in which the model explores the repository with tools, the forced  *)
(* convergence after it, the single-turn, text and repair paths behind     *)
(* that, the second question after a guard rejected the verdict, and the   *)
(* requests aside: for deformed arguments, a summary of a function, a      *)
(* refutation of the verdict and the fields of the report it left out.     *)
(*                                                                         *)
(* The model is a nondeterministic choice of replies.  A conversation is   *)
(* kept as what its next request is judged by: its size, the tool calls of *)
(* its last assistant turn that have no result yet, whether some result    *)
(* answers no call, and the queries whose results it shows.  These are the *)
(* messages the code hands to the provider.                                *)
(***************************************************************************)
EXTENDS Integers, Sequences, FiniteSets

CONSTANTS
  ReadQuery,     \* tool calls whose results readTruncCap truncates
  EngineQuery,   \* calls of the engine tools, whose results it does not
  MaxRounds,     \* of the loop
  CharBudget,    \* of the loop, in units of text
  Chunk,         \* the longest truncated result
  Bulk,          \* the longest result of an engine tool
  MaxCalls       \* bound on the calls of one assistant turn

Query == ReadQuery \cup EngineQuery

\* submit_verdict with arguments, and with arguments that do not parse: the OpenAI
\* provider makes nil of those, the Anthropic one an empty map, which is "submit".
Verdicts == {"submit", "blank"}
Tool == Query \cup Verdicts \cup {"finding"}

ASSUME ConstantsAssumption ==
  /\ Query \cap (Verdicts \cup {"finding"}) = {}
  /\ MaxRounds \in Nat /\ CharBudget \in Nat
  /\ Chunk \in Nat \ {0} /\ Bulk \in Nat \ {0}
  /\ MaxCalls \in Nat \ {0}

VARIABLES
  pc,        \* what the judge call is doing
  attempt,   \* the attempt of the harness a reply is awaited for, or 0
  conv,      \* the conversation of the next request
  kept,      \* info["final_messages"]
  turn,      \* the calls of the assistant turn still to be answered
  finish,    \* finishCall: the verdict tool the turn called, if any
  seen,      \* seenCache of the loop
  fresh,     \* roundHadNewTool
  streak,    \* consecutiveDupRounds
  round,     \* rounds of the loop so far
  second,    \* the loop runs for the second question
  loopLog,   \* toolLog of the loop, as the set of its queries
  log,       \* the tool_log the guards and the trace are given
  verdict,   \* "none", "given" or "failed"
  requests,  \* requests sent for this alert
  indexed    \* there is an index of the repository

loopVars == <<turn, finish, seen, fresh, streak, round, loopLog>>
vars == <<pc, attempt, conv, kept, turn, finish, seen, fresh, streak, round, second,
          loopLog, log, verdict, requests, indexed>>

Forced == {"required", "auto"}
Again  == {"requiredAgain", "autoAgain"}

\* Requests with a prompt of their own, which shows nothing of the conversation.
Aside == {"deformed", "distil", "falsify", "backfill"}

Asking == {"loop", "tool", "text", "repair"} \cup Forced \cup Again \cup Aside

TextPath == {"text", "repair"}

-----------------------------------------------------------------------------
(* Conversations.                                                          *)

Prompt == [size |-> 1, owed |-> 0, stray |-> FALSE, shown |-> {}]

Say(c) == [c EXCEPT !.size = @ + 1]

\* The assistant's turn, with its calls.
AssistantTurn(c, calls) == [c EXCEPT !.size = @ + 1, !.owed = Len(calls)]

\* A message of role tool, with the id of a call.
Result(c, n, queries) ==
  [size  |-> c.size + n,
   owed  |-> IF c.owed > 0 THEN c.owed - 1 ELSE 0,
   stray |-> c.stray \/ c.owed = 0,
   shown |-> c.shown \cup queries]

\* The sizes a result may have once it was truncated.
Sizes(q) == IF q \in EngineQuery THEN {Bulk} ELSE {1, Chunk}

Calls == UNION {[1..n -> Tool] : n \in 1..MaxCalls}

\* The calls of submit_verdict among those of a turn.
VerdictCalls(calls) == {i \in DOMAIN calls : calls[i] \in Verdicts}

\* The loop keeps the last call of the finish tool in a turn, other requests take
\* the first.
LastVerdict(calls) ==
  IF VerdictCalls(calls) = {} THEN "none"
  ELSE calls[CHOOSE i \in VerdictCalls(calls) : \A j \in VerdictCalls(calls) : j <= i]

FirstVerdict(calls) ==
  IF VerdictCalls(calls) = {} THEN "none"
  ELSE calls[CHOOSE i \in VerdictCalls(calls) : \A j \in VerdictCalls(calls) : i <= j]

-----------------------------------------------------------------------------
Init ==
  /\ pc = "idle"
  /\ attempt = 0
  /\ conv = Prompt
  /\ kept = Prompt
  /\ turn = <<>>
  /\ finish = "none"
  /\ seen = {}
  /\ fresh = FALSE
  /\ streak = 0
  /\ round = 0
  /\ second = FALSE
  /\ loopLog = {}
  /\ log = {}
  /\ verdict = "none"
  /\ requests = 0
  /\ indexed = FALSE

\* JudgeOne reaches judgeViaToolOrText; without an index of the repository there
\* is nothing to explore.
Begin ==
  /\ pc = "idle"
  /\ indexed' \in BOOLEAN
  /\ pc' = IF indexed' THEN "loop" ELSE "tool"
  /\ attempt' = 0 /\ requests' = 0
  /\ conv' = Prompt /\ kept' = Prompt
  /\ turn' = <<>> /\ finish' = "none" /\ fresh' = FALSE
  /\ seen' = {} /\ streak' = 0 /\ round' = 0 /\ second' = FALSE
  /\ loopLog' = {} /\ log' = {}
  /\ verdict' = "none"

-----------------------------------------------------------------------------
(* The harness.                                                            *)

MayAsk == round < MaxRounds /\ conv.size <= CharBudget

\* The first attempt of harness.Complete.
Ask ==
  /\ pc \in Asking
  /\ attempt = 0
  /\ pc = "loop" => MayAsk
  /\ attempt' = 1
  /\ requests' = requests + 1
  /\ UNCHANGED <<pc, conv, kept, loopVars, second, log, verdict, indexed>>

MayRetry == attempt < 3

\* The answer was empty, or had tool calls and no text where text was asked for.
Retry ==
  /\ attempt > 0
  /\ MayRetry
  /\ attempt' = IF attempt < 3 THEN attempt + 1 ELSE 3
  /\ requests' = requests + 1
  /\ UNCHANGED <<pc, conv, kept, loopVars, second, log, verdict, indexed>>

-----------------------------------------------------------------------------
(* Where the judge call goes on.                                           *)

\* A seeded fault: the log of a loop that ended without a verdict is dropped.
LoggedOnlyWhenFinished == IF pc = "turn" /\ finish = "submit" THEN loopLog ELSE log

\* agenticJudge copies the loop's log whether or not it ended with a verdict;
\* rejudgeDecisiveFact appends to the trace only when it did.
Logged ==
  IF ~second THEN loopLog
  ELSE IF pc = "turn" /\ finish = "submit" THEN log \cup loopLog ELSE log

\* The loop returned no arguments: forced convergence on its conversation, or the
\* second question is dropped.
NoFinish ==
  /\ log' = Logged
  /\ IF second
     THEN pc' = "settled" /\ UNCHANGED <<conv, kept>>
     ELSE pc' = "required" /\ kept' = conv /\ conv' = Say(conv)
  /\ UNCHANGED <<second, verdict>>

\* agenticJudge gave up: a single turn on the prompt, without the conversation.
SingleTurn ==
  /\ pc' = "tool"
  /\ conv' = Prompt
  /\ UNCHANGED <<kept, second, log, verdict>>

Go(p) == pc' = p /\ UNCHANGED <<conv, kept, second, log, verdict>>

GiveUp ==
  /\ pc' = "idle"
  /\ verdict' = "failed"
  /\ UNCHANGED <<conv, kept, second, log>>

\* A first verdict may be nothing but raw_arguments no repair makes JSON of, which
\* the model is asked to repair.  It goes to the guards, a second one replaces the
\* one they rejected.
Receivers(again) == IF again THEN {"rebuilt"} ELSE {"deformed", "guards"}

Given ==
  /\ verdict' = "given"
  /\ pc' \in Receivers(pc \in Again)
  /\ UNCHANGED <<conv, kept, second, log>>

-----------------------------------------------------------------------------
(* Replies.                                                                *)

\* The provider's error, an exhausted thinking budget, or a third empty answer.
Fails ==
  /\ attempt > 0
  /\ attempt' = 0
  /\ \/ pc = "loop" /\ NoFinish
     \/ pc = "required" /\ Go("auto")
     \/ pc = "auto" /\ SingleTurn
     \/ pc = "tool" /\ Go("text")
     \/ pc \in TextPath /\ GiveUp
     \/ pc = "requiredAgain" /\ Go("autoAgain")
     \/ pc = "autoAgain" /\ Go("settled")
  /\ UNCHANGED <<loopVars, requests, indexed>>

\* Text and no calls.  The loop ends on it; a text path parses it.
Answers ==
  /\ attempt > 0
  /\ attempt' = 0
  /\ \/ pc = "loop" /\ NoFinish
     \/ pc \in Forced /\ SingleTurn
     \/ pc = "tool" /\ Go("text")
     \/ pc \in TextPath /\ Given
     \/ pc = "repair" /\ GiveUp
     \/ /\ pc = "text"
        /\ pc' = "repair"
        /\ conv' = Prompt
        /\ UNCHANGED <<kept, second, log, verdict>>
     \/ pc \in Again /\ Go("settled")
  /\ UNCHANGED <<loopVars, requests, indexed>>

\* Calls in answer to a request of the loop become an assistant turn.
CallsTools(calls) ==
  /\ pc = "loop"
  /\ attempt > 0
  /\ attempt' = 0
  /\ pc' = "turn"
  /\ conv' = AssistantTurn(conv, calls)
  /\ turn' = calls
  /\ finish' = LastVerdict(calls)
  /\ fresh' = FALSE
  /\ UNCHANGED <<kept, seen, streak, round, second, loopLog, log, verdict, requests, indexed>>

\* Calls in answer to a request that offers submit_verdict only.
CallsVerdict(v) ==
  /\ attempt > 0
  /\ attempt' = 0
  /\ \/ /\ pc \in Forced
        /\ IF v = "submit" THEN Given ELSE SingleTurn
     \/ /\ pc = "tool"
        /\ IF v \in Verdicts THEN Given ELSE Go("text")
     \/ /\ pc \in Again
        /\ IF v = "submit" THEN Given ELSE Go("settled")
  /\ UNCHANGED <<loopVars, requests, indexed>>

\* Where the judge call goes on after a request aside, answered or failed.
AfterAside(p) ==
  CASE p = "deformed" -> {"guards"}
    [] p = "distil" -> {"turn"}
    [] p = "falsify" -> {"backfill", "idle"}
    [] p = "backfill" -> {"idle"}

AsideOver ==
  /\ pc \in Aside
  /\ attempt > 0
  /\ attempt' = 0
  /\ \E p \in AfterAside(pc) : Go(p)
  /\ UNCHANGED <<loopVars, requests, indexed>>

-----------------------------------------------------------------------------
(* The turn: each call is answered, in order, before the next request.     *)

\* A seeded fault: the call of the finish tool is left without a result.
ResultUnlessFinish(c, call, n) ==
  IF call \in Verdicts THEN c ELSE Result(c, n, {call} \cap Query)

ResultOf(c, call, n) == Result(c, n, {call} \cap Query)

\* submit_verdict and record_finding get a made-up result and are not executed.
AnswerItself ==
  /\ pc = "turn" /\ turn # <<>>
  /\ Head(turn) \notin Query
  /\ conv' = ResultOf(conv, Head(turn), 1)
  /\ fresh' = TRUE
  /\ turn' = Tail(turn)
  /\ UNCHANGED <<pc, attempt, kept, finish, seen, streak, round, second, loopLog, log,
                 verdict, requests, indexed>>

\* A repeated query gets the cached result and is logged again.
AnswerFromCache ==
  /\ pc = "turn" /\ turn # <<>>
  /\ Head(turn) \in seen
  /\ \E n \in Sizes(Head(turn)) : conv' = ResultOf(conv, Head(turn), n)
  /\ loopLog' = loopLog \cup {Head(turn)}
  /\ turn' = Tail(turn)
  /\ UNCHANGED <<pc, attempt, kept, finish, seen, fresh, streak, round, second, log,
                 verdict, requests, indexed>>

\* Execute, which returns its panics as a result.  A function read for the second
\* question may be distilled to a summary for the store, which shows in no result.
Execute ==
  /\ pc = "turn" /\ turn # <<>>
  /\ Head(turn) \in Query \ seen
  /\ \E n \in Sizes(Head(turn)) : conv' = ResultOf(conv, Head(turn), n)
  /\ seen' = seen \cup {Head(turn)}
  /\ loopLog' = loopLog \cup {Head(turn)}
  /\ fresh' = TRUE
  /\ turn' = Tail(turn)
  /\ pc' \in IF second /\ Head(turn) \in ReadQuery THEN {"turn", "distil"} ELSE {"turn"}
  /\ UNCHANGED <<attempt, kept, finish, streak, round, second, log, verdict,
                 requests, indexed>>

\* After the last call: a second turn in a row without anything new ends the loop,
\* the finish tool ends it with its arguments, if it has any.
EndTurn ==
  /\ pc = "turn" /\ turn = <<>>
  /\ round' = round + 1
  /\ streak' = IF fresh THEN 0 ELSE streak + 1
  /\ \/ (streak' >= 2 \/ finish = "blank") /\ NoFinish
     \/ streak' < 2 /\ finish = "none" /\ Go("loop")
     \/ /\ streak' < 2 /\ finish = "submit"
        /\ verdict' = "given"
        /\ pc' \in Receivers(second)
        /\ kept' = IF second THEN kept ELSE conv
        /\ log' = Logged
        /\ UNCHANGED <<conv, second>>
  /\ UNCHANGED <<attempt, turn, finish, seen, fresh, loopLog, requests, indexed>>

\* A seeded fault: a loop that is over begins anew.
LoopOverAnew ==
  /\ pc = "loop" /\ attempt = 0
  /\ ~MayAsk
  /\ round' = 0
  /\ UNCHANGED <<pc, attempt, conv, kept, turn, finish, seen, fresh, streak, second,
                 loopLog, log, verdict, requests, indexed>>

\* The loop is out of rounds or of characters.
LoopOver ==
  /\ pc = "loop" /\ attempt = 0
  /\ ~MayAsk
  /\ NoFinish
  /\ UNCHANGED <<attempt, loopVars, requests, indexed>>

-----------------------------------------------------------------------------
(* The guards, the second question, and what follows the verdict.          *)

\* BuildJudgeResult makes nothing of the arguments.
Unusable ==
  /\ pc = "guards"
  /\ GiveUp
  /\ UNCHANGED <<attempt, loopVars, requests, indexed>>

Accept ==
  /\ pc = "guards"
  /\ Go("settled")
  /\ UNCHANGED <<attempt, loopVars, requests, indexed>>

\* rejudgeDecisiveFact: the whole loop once more, on the kept conversation.
RejectFact ==
  /\ pc = "guards" /\ indexed
  /\ second' = TRUE
  /\ conv' = Say(kept)
  /\ pc' = "loop"
  /\ seen' = {} /\ streak' = 0 /\ round' = 0 /\ loopLog' = {}
  /\ UNCHANGED <<attempt, kept, turn, finish, fresh, log, verdict, requests, indexed>>

\* rejudgeBareFp: one request that offers the verdict tool only.
RejectBareFp ==
  /\ pc = "guards" /\ indexed
  /\ conv' = Say(kept)
  /\ pc' = "requiredAgain"
  /\ UNCHANGED <<attempt, kept, loopVars, second, log, verdict, requests, indexed>>

\* The second verdict is rebuilt, or dropped for a fact that is still unknown.
Rebuilt ==
  /\ pc = "rebuilt"
  /\ Go("settled")
  /\ UNCHANGED <<attempt, loopVars, requests, indexed>>

\* The verifiers; then Falsify, when VERIFY_MODE is adversarial and the verdict worth
\* it, and BackfillDevFields, when fields of the report are missing.
Settle ==
  /\ pc = "settled"
  /\ \E p \in {"falsify", "backfill", "idle"} : Go(p)
  /\ UNCHANGED <<attempt, loopVars, requests, indexed>>

Reply ==
  \/ Retry \/ Fails \/ Answers \/ AsideOver
  \/ \E calls \in Calls : CallsTools(calls)
  \/ \E v \in Verdicts \cup {"none"} : CallsVerdict(v)

Step ==
  \/ Ask \/ LoopOver
  \/ AnswerItself \/ AnswerFromCache \/ Execute \/ EndTurn
  \/ Unusable \/ Accept \/ RejectFact \/ RejectBareFp \/ Rebuilt \/ Settle

Next == Begin \/ Step \/ Reply

Spec == Init /\ [][Next]_vars

\* The goroutine of the alert runs to its next request.  A provider need not reply:
\* its client has no time-out for the body, and the context is never cancelled.
FairSpec == Spec /\ WF_vars(Step)

-----------------------------------------------------------------------------
(* Properties.                                                             *)

\* What is sent: the conversation, or the prompt of a request aside.
Sent == IF pc \in Aside THEN Prompt ELSE conv

\* The messages of every request pair: each tool call of the last assistant turn has
\* its result, and no result answers a call that is not there, on every path out of
\* the loop and into the second question.  The OpenAI provider sends them as they are;
\* toAnthropicMessages loses the calls (it looks for a []any where the loop stored a
\* []map[string]any), so of what that wire carries this says nothing.
MessagesPaired == attempt > 0 => Sent.owed = 0 /\ ~Sent.stray

\* The two limits of the loop bound every request: a conversation exceeds the
\* character budget by at most one turn, the prose of the forced convergence or
\* the second question, and never by more, unless an engine tool's result, which
\* nothing truncates, is in it.
LongestTurn == 1 + MaxCalls * Chunk

RequestsFit ==
  attempt > 0 /\ Sent.shown \cap EngineQuery = {} =>
    Sent.size <= CharBudget + LongestTurn + 1

\* A judge call costs at most three attempts for each of the requests the control
\* flow can make, whatever the model answers: the loop, the five requests of the
\* paths behind it, those for deformed arguments, the refutation and the missing
\* fields, and the second question, which is the loop once more with a summary of every
\* function it reads, or the two requests after a bare false positive.
RoundCost == 1 + MaxCalls

MaxSecond == IF MaxRounds * RoundCost > 2 THEN MaxRounds * RoundCost ELSE 2

RequestsBounded == requests <= 3 * (MaxRounds + 8 + MaxSecond)

\* The messages of every request pair and keep to a size, and the requests of a judge
\* call keep to a number.
RequestsSound == MessagesPaired /\ RequestsFit /\ RequestsBounded

\* The log that the grounding guard and the trace are given names every query whose
\* result the model had before it when it gave its verdict, and every one that is in
\* the conversation the second question is put on.
LogCoversEvidence == pc \in {"guards", "rebuilt"} => conv.shown \cup kept.shown \subseteq log

\* A judge call ends if every request is answered, however the model answers.
CallEnds ==
  []<>(attempt = 0) => [](pc # "idle" => <>(pc = "idle"))
=============================================================================
