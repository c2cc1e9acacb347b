----------------------------- MODULE JudgeChain -----------------------------
(***************************************************************************)
(* judge.JudgeOne, the chain that turns a slice into a judgement: verdict  *)
(* cache, model, guards, a second question to the model when a guard       *)
(* rejected the first answer, deterministic verifier, dynamic verifier,    *)
(* falsifier, cache again.  The jobs of all running scans share the cache. *)
(*                                                                         *)
(* A step runs from one access to the cache or call of the model to the    *)
(* next.  The modes that switch the second question, the dynamic verifier  *)
(* and the falsifier off are covered: each of the three may leave the      *)
(* judgement as it is.                                                     *)
(***************************************************************************)
EXTENDS Integers, FiniteSets

CONSTANTS
  Job,        \* judge calls that may run at once
  Alert,
  Key,        \* sha256 of prompt, model and logic version
  KeyOf,      \* KeyOf[a]: the cache key of the prompt of an alert
  Type,       \* vulnerability types
  Declared,   \* Declared[a]: the type the scanner reported
  Loaded,     \* types whose knowledge is in the prompt
  SqlTypes,   \* types that isSqlInjectionFace accepts
  Requires,   \* Requires[t]: required_decisive_facts of the CWE registry
  Answers     \* what BuildJudgeResult may make of an answer of the model

Fact    == {"sink_param_style", "forward_reachable"}
Style   == {"none", "concat", "parameterized", "unknown"}
Reach   == {"none", "anchored", "unknown"}
Verdict == {"tp", "fp", "uncertain"}
Fail    == {"none", "error", "decisive_fact_unknown", "bare_fp",
            "parameterized", "hollow", "ungrounded"}
Outcome == {"none", "CONFIRMED", "NOT_REPRODUCED", "INCONCLUSIVE"}

\* evidence: an exploit payload or decisive checks are given; payload: the first.
Answer    == [verdict : Verdict, conf : 0..10, types : SUBSET Type,
              evidence : BOOLEAN, payload : BOOLEAN]
Judgement == [owner : Alert, verdict : Verdict, conf : 0..10,
              types : SUBSET Type, evidence : BOOLEAN, payload : BOOLEAN,
              fail : Fail]

\* The facts of a slice: sink_param_style, the forward_reachable token the
\* guard reads, and the forward_reachable structure the second question drains.
Facts == [style : Style, token : Reach, reach : Reach]

ASSUME ChainAssumption ==
  /\ Alert # {}
  /\ KeyOf \in [Alert -> Key]
  /\ Declared \in [Alert -> Type]
  /\ Loaded \subseteq Type
  /\ SqlTypes \subseteq Type
  /\ Requires \in [Type -> SUBSET Fact]
  /\ Answers \subseteq Answer

Conclusive == {"tp", "fp"}

VARIABLES
  cache,    \* cache[k]: the unexpired row of verdict_cache, or NoRow
  pc,       \* where the job is
  alert,    \* the alert it judges
  facts,    \* the decisive facts of its slice
  result,   \* the JudgeResult so far
  outcome,  \* verification.dynamic.outcome
  said      \* history: the conclusive verdicts the model gave, by key

vars == <<cache, pc, alert, facts, result, outcome, said>>

Stages == {"idle", "lookup", "ask", "rejudge", "verify", "falsify", "store",
           "done"}

AnAlert == CHOOSE a \in Alert : TRUE

NoFacts == [style |-> "none", token |-> "none", reach |-> "none"]

\* uncertainResult: the judgement of a call that failed.
Failure(a) == [owner |-> a, verdict |-> "uncertain", conf |-> 0, types |-> {},
               evidence |-> FALSE, payload |-> FALSE, fail |-> "error"]

NoRow == [present |-> FALSE, row |-> Failure(AnAlert)]
Row(r) == [present |-> TRUE, row |-> r]

KeyFor(j) == KeyOf[alert[j]]

\* JudgeOne returns; nobody reads the slice any more.
Finish(j) ==
  /\ pc' = [pc EXCEPT ![j] = "done"]
  /\ facts' = [facts EXCEPT ![j] = NoFacts]

-----------------------------------------------------------------------------
(* The guards: functions from a judgement to a judgement.                  *)

Capped(c) == IF c > 4 THEN 4 ELSE c

Rejected(r, why) ==
  [r EXCEPT !.verdict = "uncertain", !.conf = Capped(@), !.fail = why]

\* likely_tp, which VerdictOf folds into uncertain; the confidence is set to 6.
Folded(r, why) ==
  [r EXCEPT !.verdict = "uncertain", !.conf = 6, !.fail = why]

RequiredFacts(d, types) == UNION {Requires[t] : t \in types \cup {d}}

Token(s, f) == IF f = "sink_param_style" THEN s.style ELSE s.token

EnforceDecisiveFactKnown(r, s, d) ==
  IF /\ r.verdict # "uncertain"
     /\ \E f \in RequiredFacts(d, r.types) : Token(s, f) = "unknown"
  THEN Rejected(r, "decisive_fact_unknown") ELSE r

EnforceNoBareFp(r, d) ==
  IF r.verdict = "fp" /\ (r.types \cap Loaded) \ {d} # {}
  THEN Rejected(r, "bare_fp") ELSE r

EnforceParameterizedSqliTpContradiction(r, s) ==
  IF /\ r.verdict = "tp"
     /\ s.style = "parameterized"
     /\ r.types # {} /\ r.types \subseteq SqlTypes
  THEN Folded(r, "parameterized") ELSE r

EnforceEvidenceOnTp(r) ==
  IF r.verdict = "tp" /\ r.conf > 6 /\ ~r.evidence
  THEN Folded(r, "hollow") ELSE r

EnforceGroundedDataFlow(r, grounded) ==
  IF r.verdict = "tp" /\ r.conf > 6 /\ ~grounded
  THEN Folded(r, "ungrounded") ELSE r

Guarded(r, s, d, grounded) ==
  EnforceGroundedDataFlow(
    EnforceEvidenceOnTp(
      EnforceParameterizedSqliTpContradiction(
        EnforceNoBareFp(EnforceDecisiveFactKnown(r, s, d), d), s)), grounded)

ContractRejected(r) == r.fail \in {"decisive_fact_unknown", "bare_fp"}

\* BuildJudgeResult.
Built(a, ans) ==
  [owner |-> a, verdict |-> ans.verdict, conf |-> ans.conf,
   types |-> ans.types, evidence |-> ans.evidence, payload |-> ans.payload,
   fail |-> "none"]

\* A seeded fault: the reason of the rejection survives the second question.
RebuiltKeepingReason(r, ans) == [Built(r.owner, ans) EXCEPT !.fail = r.fail]

\* The judgement of the second answer; only MissingInfo is carried over.
Rebuilt(r, ans) == Built(r.owner, ans)

-----------------------------------------------------------------------------
Init ==
  /\ cache \in [Key -> {NoRow, Row(Failure(AnAlert))}]
  /\ pc = [j \in Job |-> "idle"]
  /\ alert = [j \in Job |-> AnAlert]
  /\ facts = [j \in Job |-> NoFacts]
  /\ result = [j \in Job |-> Failure(AnAlert)]
  /\ outcome = [j \in Job |-> "none"]
  /\ said = {}

\* SliceAlert: classifySinkParamStyle sets the style, nothing is reached yet.
Sliced == {[NoFacts EXCEPT !.style = st] : st \in Style}

\* realJudgeAlert slices the alert.
Begin(j) ==
  /\ pc[j] = "idle"
  /\ \E a \in Alert, s \in Sliced :
       /\ alert' = [alert EXCEPT ![j] = a]
       /\ facts' = [facts EXCEPT ![j] = s]
  /\ pc' = [pc EXCEPT ![j] = "lookup"]
  /\ UNCHANGED <<cache, result, outcome, said>>

\* A slice without hops fails at once.
EmptySlice(j) ==
  /\ pc[j] = "lookup"
  /\ result' = [result EXCEPT ![j] = Failure(alert[j])]
  /\ Finish(j)
  /\ UNCHANGED <<cache, alert, outcome, said>>

\* A row that is uncertain, left by an older version, counts as a miss.
Hit(j) ==
  /\ cache[KeyFor(j)].present
  /\ cache[KeyFor(j)].row.verdict # "uncertain"

\* The cached result is returned as it is, alert_id and bughash included.
LookupHit(j) ==
  /\ pc[j] = "lookup"
  /\ Hit(j)
  /\ result' = [result EXCEPT ![j] = cache[KeyFor(j)].row]
  /\ Finish(j)
  /\ UNCHANGED <<cache, alert, outcome, said>>

\* The store reports a failed read, and a row it cannot parse, as a miss: a row that is
\* there may not be found.
LookupMiss(j) ==
  /\ pc[j] = "lookup"
  /\ pc' = [pc EXCEPT ![j] = "ask"]
  /\ UNCHANGED <<cache, alert, facts, result, outcome, said>>

Heard(j, ans) ==
  said' = IF ans.verdict \in Conclusive
          THEN said \cup {<<KeyFor(j), ans.verdict>>} ELSE said

\* PromoteAgenticXmlToSlice can only add a ${} mapper, after which
\* RefreshSinkParamStyle finds the style "concat".
Promoted(st) == {st, "concat"}

\* PrejudgeCalleeReachability fills the structure, MapForwardReachable the token.
Explored(s) ==
  {[style |-> st, token |-> rch, reach |-> rch] :
     st \in Promoted(s.style), rch \in Reach}

\* The model answers, then the guards.  Every failure of the model ends the job.
Ask(j) ==
  /\ pc[j] = "ask"
  /\ \E ans \in Answers, grounded \in BOOLEAN, s \in Explored(facts[j]) :
       LET r == Guarded(Built(alert[j], ans), s, Declared[alert[j]], grounded)
       IN  /\ facts' = [facts EXCEPT ![j] = s]
           /\ result' = [result EXCEPT ![j] = r]
           /\ pc' = [pc EXCEPT ![j] =
                       IF ContractRejected(r) THEN "rejudge" ELSE "verify"]
           /\ Heard(j, ans)
  /\ UNCHANGED <<cache, alert, outcome>>

AskFails(j) ==
  /\ pc[j] = "ask"
  /\ result' = [result EXCEPT ![j] = Failure(alert[j])]
  /\ Finish(j)
  /\ UNCHANGED <<cache, alert, outcome, said>>

-----------------------------------------------------------------------------
(* RejudgeContractRejection.                                               *)

\* Whatever fails, the guard's judgement stays.
Kept(j) == result[j]

RejudgeFails(j) ==
  /\ pc[j] = "rejudge"
  /\ result' = [result EXCEPT ![j] = Kept(j)]
  /\ pc' = [pc EXCEPT ![j] = "verify"]
  /\ UNCHANGED <<cache, alert, facts, outcome, said>>

\* RefreshForwardReachable drains the structure and leaves the token alone;
\* promotion and RefreshSinkParamStyle as in Ask.
Refreshed(s) ==
  {[style |-> st, token |-> s.token, reach |-> rch] :
     st \in Promoted(s.style),
     rch \in IF s.reach = "unknown" THEN {"unknown", "anchored"} ELSE {s.reach}}

\* The value the second question reads: the structure, not the token.
Value(s, f) == IF f = "sink_param_style" THEN s.style ELSE s.reach

\* A seeded fault: one resolved fact is enough.
ResolvedOne(s, required) ==
  \E f \in required : Value(s, f) \notin {"none", "unknown"}

Resolved(s, required) ==
  \A f \in required : Value(s, f) \notin {"none", "unknown"}

Required(j) == RequiredFacts(Declared[alert[j]], result[j].types)

\* rejudgeDecisiveFact, the facts resolved: the new answer, past the guards.
RejudgeResolved(j) ==
  /\ pc[j] = "rejudge"
  /\ result[j].fail = "decisive_fact_unknown"
  /\ \E ans \in Answers, s \in Refreshed(facts[j]) :
       /\ Resolved(s, Required(j))
       /\ facts' = [facts EXCEPT ![j] = s]
       /\ result' = [result EXCEPT ![j] = Rebuilt(result[j], ans)]
       /\ Heard(j, ans)
  /\ pc' = [pc EXCEPT ![j] = "verify"]
  /\ UNCHANGED <<cache, alert, outcome>>

\* rejudgeDecisiveFact, a fact still open: the new answer is dropped.
RejudgeUnresolved(j) ==
  /\ pc[j] = "rejudge"
  /\ result[j].fail = "decisive_fact_unknown"
  /\ \E s \in Refreshed(facts[j]) :
       /\ ~Resolved(s, Required(j))
       /\ facts' = [facts EXCEPT ![j] = s]
  /\ result' = [result EXCEPT ![j] = Kept(j)]
  /\ pc' = [pc EXCEPT ![j] = "verify"]
  /\ UNCHANGED <<cache, alert, outcome, said>>

\* rejudgeBareFp: the new answer, through the first two guards only.
RejudgeBareFp(j) ==
  /\ pc[j] = "rejudge"
  /\ result[j].fail = "bare_fp"
  /\ \E ans \in Answers :
       /\ result' = [result EXCEPT ![j] =
            EnforceNoBareFp(
              EnforceDecisiveFactKnown(Rebuilt(result[j], ans), facts[j],
                                       Declared[alert[j]]),
              Declared[alert[j]])]
       /\ Heard(j, ans)
  /\ pc' = [pc EXCEPT ![j] = "verify"]
  /\ UNCHANGED <<cache, alert, facts, outcome>>

-----------------------------------------------------------------------------
(* The verifiers, the falsifier, the cache.                                *)

Demoted(r) == [r EXCEPT !.verdict = "uncertain", !.conf = Capped(@)]

\* VerifyVerdict: the probe keeps the judgement or demotes a conclusive one.
Probed(r) == IF r.verdict = "uncertain" THEN {r} ELSE {r, Demoted(r)}

\* irExecutor.Verify: without a payload there is nothing to trace.
DynamicOutcomes(r) ==
  IF r.verdict = "uncertain" THEN {"none"}
  ELSE IF r.payload THEN Outcome ELSE {"none", "INCONCLUSIVE"}

\* A seeded fault: the matrix upgrades what execution confirmed.
DynamicUpgrading(r, o) ==
  IF o = "CONFIRMED" THEN [r EXCEPT !.verdict = "tp"]
  ELSE IF o = "NOT_REPRODUCED" /\ r.verdict = "tp" THEN Demoted(r) ELSE r

\* DynamicVerify's matrix.
Dynamic(r, o) ==
  IF \/ o = "CONFIRMED" /\ r.verdict = "fp"
     \/ o = "NOT_REPRODUCED" /\ r.verdict = "tp"
  THEN Demoted(r) ELSE r

Verify(j) ==
  /\ pc[j] = "verify"
  /\ \E r \in Probed(result[j]) :
     \E o \in DynamicOutcomes(r) :
       /\ result' = [result EXCEPT ![j] = Dynamic(r, o)]
       /\ outcome' = [outcome EXCEPT ![j] = o]
  /\ pc' = [pc EXCEPT ![j] = "falsify"]
  /\ UNCHANGED <<cache, alert, facts, said>>

Reclassified(j) == result[j].types \ {Declared[alert[j]]} # {}

\* Falsify asks an adversary about a reclassified judgement, and about a true
\* positive the dynamic verifier did not run on: its outcome is compared with
\* "inconclusive", which irExecutor spells in capitals.
Challenged(j) ==
  Reclassified(j) \/ (result[j].verdict = "tp" /\ outcome[j] = "none")

Falsify(j) ==
  /\ pc[j] = "falsify"
  /\ \/ UNCHANGED result
     \/ /\ Challenged(j)
        /\ result' = [result EXCEPT ![j] = Demoted(@)]
  /\ pc' = [pc EXCEPT ![j] = "store"]
  /\ outcome' = [outcome EXCEPT ![j] = "none"]
  /\ UNCHANGED <<cache, alert, facts, said>>

\* vcache.Cacheable.
Cacheable(r) == r.fail = "none" \/ ContractRejected(r)

\* A seeded fault: the gate on the verdict is missing.
WorthCachingAnyVerdict(r) == Cacheable(r)

WorthCaching(r) == r.verdict # "uncertain" /\ Cacheable(r)

\* BackfillDevFields leaves the verdict alone; then the Upsert.
StoreRow(j) ==
  /\ pc[j] = "store"
  /\ cache' = IF WorthCaching(result[j])
              THEN [cache EXCEPT ![KeyFor(j)] = Row(result[j])] ELSE cache
  /\ Finish(j)
  /\ UNCHANGED <<alert, result, outcome, said>>

\* Upsert ignores the error of db.Exec, and without a store there is no Upsert.
StoreFails(j) ==
  /\ pc[j] = "store"
  /\ Finish(j)
  /\ UNCHANGED <<cache, alert, result, outcome, said>>

\* The judgement is handed to pipeline.Run.
Return(j) ==
  /\ pc[j] = "done"
  /\ pc' = [pc EXCEPT ![j] = "idle"]
  /\ alert' = [alert EXCEPT ![j] = AnAlert]
  /\ result' = [result EXCEPT ![j] = Failure(AnAlert)]
  /\ UNCHANGED <<cache, facts, outcome, said>>

\* A row passes its TTL: Get treats it as a miss, DeleteExpired removes it.
Expire(k) ==
  /\ cache[k].present
  /\ cache' = [cache EXCEPT ![k] = NoRow]
  /\ UNCHANGED <<pc, alert, facts, result, outcome, said>>

Rejudge(j) ==
  RejudgeFails(j) \/ RejudgeResolved(j) \/ RejudgeUnresolved(j) \/ RejudgeBareFp(j)

JobStep(j) ==
  \/ Begin(j)
  \/ EmptySlice(j)
  \/ LookupHit(j)
  \/ LookupMiss(j)
  \/ Ask(j)
  \/ AskFails(j)
  \/ Rejudge(j)
  \/ Verify(j)
  \/ Falsify(j)
  \/ StoreRow(j)
  \/ StoreFails(j)
  \/ Return(j)

Next == (\E j \in Job : JobStep(j)) \/ (\E k \in Key : Expire(k))

Spec == Init /\ [][Next]_vars

-----------------------------------------------------------------------------
(* Properties.                                                             *)

CacheRow == [present : BOOLEAN, row : Judgement]

TypeOK ==
  /\ cache \in [Key -> CacheRow]
  /\ pc \in [Job -> Stages]
  /\ alert \in [Job -> Alert]
  /\ facts \in [Job -> Facts]
  /\ result \in [Job -> Judgement]
  /\ outcome \in [Job -> Outcome]
  /\ said \subseteq Key \X Conclusive

\* A conclusive judgement never carries a fail_reason, whichever guard rejected
\* an earlier answer: the checkpoint reads a fail_reason as "not completed" and
\* would have the alert judged again in every run.
ConclusiveIsClean ==
  \A j \in Job : result[j].verdict \in Conclusive => result[j].fail = "none"

\* A conclusive judgement of the chain itself stands on the decisive facts its
\* declared type requires: none is unknown, be it because the first guard saw
\* them or because the second question resolved them.
DeclaredFactsKnown ==
  \A j \in Job :
    pc[j] \in {"verify", "falsify", "store"} /\ result[j].verdict \in Conclusive =>
      \A f \in Requires[Declared[alert[j]]] : Value(facts[j], f) # "unknown"

\* A judgement that belongs to another alert comes from the cache, so it is
\* conclusive and has no fail_reason: what pipeline.Run may file under another
\* alert's bughash.
BorrowedAreConclusive ==
  \A j \in Job :
    pc[j] = "done" /\ result[j].owner # alert[j] =>
      result[j].verdict \in Conclusive /\ result[j].fail = "none"

\* An uncertain or failed judgement never enters the cache, where it would be
\* repeated by every later scan until it expires, and no row is replaced by
\* another without the model having said so.
OnlyConclusiveCached ==
  [][\A k \in Key :
       cache'[k] # cache[k] /\ cache'[k].present =>
         /\ cache'[k].row.verdict \in Conclusive
         /\ cache'[k].row.fail = "none"]_vars

\* The chain implements ModelVerdict: only the model makes a verdict, the rest
\* of the chain and the cache can only doubt or repeat it.
Held(j) == IF pc[j] \in {"idle", "lookup", "ask"} THEN "none"
           ELSE result[j].verdict
Repeatable(k) == IF /\ cache[k].present
                    /\ cache[k].row.verdict \in Conclusive
                 THEN cache[k].row.verdict ELSE "none"

Model == INSTANCE ModelVerdict
           WITH Prompt  <- Key,
                prompt  <- [j \in Job |-> KeyFor(j)],
                opinion <- [j \in Job |-> Held(j)],
                shared  <- [k \in Key |-> Repeatable(k)]

ModelSpec == Model!Spec

=============================================================================
