-------------------------- MODULE JudgeChainProofs --------------------------
(***************************************************************************)
(* Theorems of JudgeChain: its types, what a conclusive judgement of the   *)
(* chain stands on, what enters the verdict cache, and that the chain      *)
(* implements ModelVerdict.                                                *)
(***************************************************************************)
EXTENDS JudgeChain, TLAPS

(* The guards and the verifiers: each returns what it was given, or doubts. *)

Doubts(q, r) ==
  /\ q \in Judgement
  /\ q.owner = r.owner
  /\ q = r \/ q.verdict = "uncertain"

LEMMA CappedType == ASSUME NEW c \in 0..10 PROVE Capped(c) \in 0..10
BY DEF Capped

LEMMA RejectedDoubts ==
  ASSUME NEW r \in Judgement, NEW why \in Fail
  PROVE  Doubts(Rejected(r, why), r)
<1>1. Capped(r.conf) \in 0..10
  BY CappedType DEF Judgement
<1>2. QED  BY <1>1 DEF Doubts, Rejected, Judgement, Verdict

LEMMA FoldedDoubts ==
  ASSUME NEW r \in Judgement, NEW why \in Fail
  PROVE  Doubts(Folded(r, why), r)
<1> DEFINE c == 6
<1>1. c \in 0..10
  OBVIOUS
<1>2. Folded(r, why) = [r EXCEPT !.verdict = "uncertain", !.conf = c, !.fail = why]
  BY DEF Folded
<1> HIDE DEF c
<1>3. QED  BY <1>1, <1>2 DEF Doubts, Judgement, Verdict

LEMMA DemotedDoubts ==
  ASSUME NEW r \in Judgement
  PROVE  Doubts(Demoted(r), r)
<1>1. Capped(r.conf) \in 0..10
  BY CappedType DEF Judgement
<1>2. QED  BY <1>1 DEF Doubts, Demoted, Judgement, Verdict

LEMMA DoubtsCompose ==
  ASSUME NEW p, NEW q, NEW r, Doubts(p, q), Doubts(q, r)
  PROVE  Doubts(p, r)
BY DEF Doubts

\* The first guard lets a conclusive judgement pass only on known facts.
LEMMA FirstGuard ==
  ASSUME NEW r \in Judgement, NEW s \in Facts, NEW d \in Type
  PROVE  LET q == EnforceDecisiveFactKnown(r, s, d)
         IN  /\ Doubts(q, r)
             /\ q.verdict # "uncertain" =>
                  \A f \in Requires[d] : Token(s, f) # "unknown"
             /\ q # r => q.verdict = "uncertain"
<1> DEFINE q == EnforceDecisiveFactKnown(r, s, d)
<1>1. CASE /\ r.verdict # "uncertain"
           /\ \E f \in RequiredFacts(d, r.types) : Token(s, f) = "unknown"
  <2>1. q = Rejected(r, "decisive_fact_unknown")
    BY <1>1 DEF EnforceDecisiveFactKnown
  <2>2. q.verdict = "uncertain"
    BY <2>1 DEF Rejected, Judgement
  <2>3. QED  BY <2>1, <2>2, RejectedDoubts DEF Fail
<1>2. CASE ~ /\ r.verdict # "uncertain"
             /\ \E f \in RequiredFacts(d, r.types) : Token(s, f) = "unknown"
  <2>1. q = r
    BY <1>2 DEF EnforceDecisiveFactKnown
  <2>2. Requires[d] \subseteq RequiredFacts(d, r.types)
    BY DEF RequiredFacts
  <2>3. QED  BY <1>2, <2>1, <2>2 DEF Doubts
<1>3. QED  BY <1>1, <1>2

LEMMA SecondGuard ==
  ASSUME NEW r \in Judgement, NEW d \in Type
  PROVE  Doubts(EnforceNoBareFp(r, d), r)
BY RejectedDoubts DEF EnforceNoBareFp, Doubts, Fail

LEMMA LaterGuards ==
  ASSUME NEW r \in Judgement, NEW s \in Facts, NEW g \in BOOLEAN
  PROVE  /\ Doubts(EnforceParameterizedSqliTpContradiction(r, s), r)
         /\ Doubts(EnforceEvidenceOnTp(r), r)
         /\ Doubts(EnforceGroundedDataFlow(r, g), r)
BY FoldedDoubts DEF EnforceParameterizedSqliTpContradiction, EnforceEvidenceOnTp,
                    EnforceGroundedDataFlow, Doubts, Fail

\* The five guards together.
LEMMA GuardsDoubt ==
  ASSUME NEW r \in Judgement, NEW s \in Facts, NEW d \in Type, NEW g \in BOOLEAN
  PROVE  LET q == Guarded(r, s, d, g)
         IN  /\ Doubts(q, r)
             /\ q.verdict # "uncertain" =>
                  \A f \in Requires[d] : Token(s, f) # "unknown"
<1> DEFINE q1 == EnforceDecisiveFactKnown(r, s, d)
           q2 == EnforceNoBareFp(q1, d)
           q3 == EnforceParameterizedSqliTpContradiction(q2, s)
           q4 == EnforceEvidenceOnTp(q3)
           q5 == EnforceGroundedDataFlow(q4, g)
<1>1. /\ Doubts(q1, r)
      /\ q1.verdict # "uncertain" =>
           \A f \in Requires[d] : Token(s, f) # "unknown"
  BY FirstGuard
<1> HIDE DEF q1
<1>2. Doubts(q2, q1)
  BY <1>1, SecondGuard DEF Doubts
<1> HIDE DEF q2
<1>3. Doubts(q3, q2)
  BY <1>2, LaterGuards DEF Doubts
<1> HIDE DEF q3
<1>4. Doubts(q4, q3)
  BY <1>3, LaterGuards DEF Doubts
<1> HIDE DEF q4
<1>5. Doubts(q5, q4)
  BY <1>4, LaterGuards DEF Doubts
<1> HIDE DEF q5
<1>6. Doubts(q5, q1)
  BY <1>2, <1>3, <1>4, <1>5, DoubtsCompose
<1>7. Doubts(q5, r)
  BY <1>1, <1>6, DoubtsCompose
<1>8. q5.verdict # "uncertain" => q1.verdict # "uncertain"
  BY <1>6 DEF Doubts
<1>9. q5 = Guarded(r, s, d, g)
  BY DEF q5, q4, q3, q2, q1, Guarded
<1>10. QED  BY <1>1, <1>7, <1>8, <1>9

\* What pass through the verifier, the dynamic verifier and back.
LEMMA VerifierDoubts ==
  ASSUME NEW r \in Judgement, NEW q \in Probed(r), NEW o \in Outcome
  PROVE  Doubts(Dynamic(q, o), r)
<1>1. Doubts(q, r)
  BY DemotedDoubts DEF Probed, Doubts
<1>2. Doubts(Dynamic(q, o), q)
  BY <1>1, DemotedDoubts DEF Dynamic, Doubts
<1>3. QED  BY <1>1, <1>2, DoubtsCompose

LEMMA BuiltType ==
  ASSUME NEW a \in Alert, NEW ans \in Answers
  PROVE  Built(a, ans) \in Judgement /\ Built(a, ans).fail = "none"
BY ChainAssumption DEF Built, Answer, Judgement, Fail

LEMMA FailureType ==
  ASSUME NEW a \in Alert
  PROVE  Failure(a) \in Judgement /\ Failure(a).verdict = "uncertain"
BY DEF Failure, Judgement, Verdict, Fail

LEMMA AnAlertType == AnAlert \in Alert
BY ChainAssumption DEF AnAlert

LEMMA FactsTypes ==
  /\ NoFacts \in Facts
  /\ Sliced \subseteq Facts
  /\ \A s \in Facts : /\ Explored(s) \subseteq Facts
                      /\ Refreshed(s) \subseteq Facts
                      /\ \A t \in Explored(s) : t.token = t.reach
<1>1. NoFacts \in Facts
  BY DEF NoFacts, Facts, Style, Reach
<1>2. ASSUME NEW s \in Style PROVE Promoted(s) \subseteq Style
  BY DEF Promoted, Style
<1>3. ASSUME NEW s \in Facts
      PROVE  /\ Explored(s) \subseteq Facts
             /\ Refreshed(s) \subseteq Facts
             /\ \A t \in Explored(s) : t.token = t.reach
  <2>1. s.style \in Style /\ s.token \in Reach /\ s.reach \in Reach
    BY DEF Facts
  <2>2. "unknown" \in Reach /\ "anchored" \in Reach
    BY DEF Reach
  <2>3. QED  BY <1>2, <2>1, <2>2 DEF Explored, Refreshed, Facts
<1>4. Sliced \subseteq Facts
  BY DEF Sliced, NoFacts, Facts, Reach
<1>5. QED  BY <1>1, <1>3, <1>4

-----------------------------------------------------------------------------
(* What a job may hold, by where it is, and what a row may hold.           *)

Trusted(s, a) == \A f \in Requires[Declared[a]] : Value(s, f) # "unknown"

Sound(p, a, s, r) ==
  /\ r.verdict \in Conclusive => r.fail = "none"
  /\ p = "rejudge" => r.verdict = "uncertain" /\ s.token = s.reach
  /\ p \in {"rejudge", "verify", "falsify", "store"} => r.owner = a
  /\ p \in {"verify", "falsify", "store"} /\ r.verdict \in Conclusive
       => Trusted(s, a)
  /\ p = "done" /\ r.owner # a => r.verdict \in Conclusive

JobsSound == \A j \in Job : Sound(pc[j], alert[j], facts[j], result[j])

RowsClean ==
  \A k \in Key :
    cache[k].present /\ cache[k].row.verdict \in Conclusive
      => cache[k].row.fail = "none"

Inv == TypeOK /\ JobsSound /\ RowsClean

\* What one step of a job leaves in the job and in the rows.
StepOf(j, p, a, s, r) ==
  /\ pc' = [pc EXCEPT ![j] = p]
  /\ alert' = [alert EXCEPT ![j] = a]
  /\ facts' = [facts EXCEPT ![j] = s]
  /\ result' = [result EXCEPT ![j] = r]

LEMMA StepKeeps ==
  ASSUME TypeOK, JobsSound, NEW j \in Job, NEW p, NEW a, NEW s, NEW r,
         StepOf(j, p, a, s, r), Sound(p, a, s, r)
  PROVE  JobsSound'
BY DEF TypeOK, JobsSound, StepOf

LEMMA StepTyped ==
  ASSUME TypeOK, NEW j \in Job, NEW p \in Stages, NEW a \in Alert,
         NEW s \in Facts, NEW r \in Judgement, StepOf(j, p, a, s, r),
         cache' \in [Key -> CacheRow], outcome' \in [Job -> Outcome],
         said' \subseteq Key \X Conclusive
  PROVE  TypeOK'
BY DEF TypeOK, StepOf

LEMMA StepInv ==
  ASSUME Inv, NEW j \in Job, NEW p \in Stages, NEW a \in Alert,
         NEW s \in Facts, NEW r \in Judgement, StepOf(j, p, a, s, r),
         Sound(p, a, s, r), cache' = cache, outcome' \in [Job -> Outcome],
         said' \subseteq Key \X Conclusive
  PROVE  Inv'
<1>1. JobsSound'
  BY StepKeeps DEF Inv
<1>2. TypeOK'
  <2>1. cache' \in [Key -> CacheRow]
    BY DEF Inv, TypeOK
  <2>2. QED  BY <2>1, StepTyped DEF Inv
<1>3. QED  BY <1>1, <1>2 DEF Inv, RowsClean

LEMMA HeardTyped ==
  ASSUME TypeOK, NEW j \in Job, NEW ans \in Answers, Heard(j, ans)
  PROVE  said' \subseteq Key \X Conclusive
<1>1. KeyFor(j) \in Key
  BY ChainAssumption DEF TypeOK, KeyFor
<1>2. QED  BY <1>1 DEF Heard, TypeOK

LEMMA InitInv == Init => Inv
<1> SUFFICES ASSUME Init PROVE Inv
  OBVIOUS
<1>1. /\ Failure(AnAlert) \in Judgement
      /\ Failure(AnAlert).verdict = "uncertain"
  BY FailureType, AnAlertType
<1>2. NoRow \in CacheRow /\ Row(Failure(AnAlert)) \in CacheRow
  BY <1>1 DEF NoRow, Row, CacheRow
<1>3. TypeOK
  BY <1>1, <1>2, AnAlertType, FactsTypes DEF Init, TypeOK, Stages, Outcome
<1>4. JobsSound
  BY <1>1 DEF Init, JobsSound, Sound, Conclusive
<1>5. RowsClean
  BY <1>1 DEF Init, RowsClean, Conclusive, NoRow, Row
<1>6. QED  BY <1>3, <1>4, <1>5 DEF Inv

LEMMA BeginInv ==
  ASSUME Inv, NEW j \in Job, Begin(j)
  PROVE  Inv'
<1>1. PICK a \in Alert, s \in Sliced :
        /\ alert' = [alert EXCEPT ![j] = a]
        /\ facts' = [facts EXCEPT ![j] = s]
  BY DEF Begin
<1>2. s \in Facts
  BY FactsTypes
<1>3. result[j] \in Judgement /\ result' = [result EXCEPT ![j] = result[j]]
  BY DEF Inv, TypeOK, Begin
<1>4. StepOf(j, "lookup", a, s, result[j])
  BY <1>1, <1>3 DEF StepOf, Begin
<1>5. Sound("lookup", a, s, result[j])
  BY DEF Inv, JobsSound, Sound
<1>6. QED  BY <1>2, <1>3, <1>4, <1>5, StepInv DEF Begin, Stages, Inv, TypeOK

\* A job that ends without having asked the verifiers.
LEMMA FinishInv ==
  ASSUME Inv, NEW j \in Job, NEW r \in Judgement, Finish(j), alert' = alert,
         result' = [result EXCEPT ![j] = r], Sound("done", alert[j], NoFacts, r),
         UNCHANGED <<cache, outcome, said>>
  PROVE  Inv'
<1>1. alert[j] \in Alert /\ alert' = [alert EXCEPT ![j] = alert[j]]
  BY DEF Inv, TypeOK
<1>2. StepOf(j, "done", alert[j], NoFacts, r)
  BY <1>1 DEF StepOf, Finish
<1>3. outcome' \in [Job -> Outcome] /\ said' \subseteq Key \X Conclusive
  BY DEF Inv, TypeOK
<1>4. QED  BY <1>1, <1>2, <1>3, FactsTypes, StepInv DEF Stages

LEMMA FailureInv ==
  ASSUME Inv, NEW j \in Job, EmptySlice(j) \/ AskFails(j)
  PROVE  Inv'
<1>1. /\ Failure(alert[j]) \in Judgement
      /\ Failure(alert[j]).verdict = "uncertain"
      /\ Failure(alert[j]).owner = alert[j]
  BY FailureType DEF Inv, TypeOK, Failure
<1>2. Sound("done", alert[j], NoFacts, Failure(alert[j]))
  BY <1>1 DEF Sound, Conclusive
<1>3. QED  BY <1>1, <1>2, FinishInv DEF EmptySlice, AskFails

LEMMA LookupInv ==
  ASSUME Inv, NEW j \in Job, LookupHit(j)
  PROVE  Inv'
<1> DEFINE r == cache[KeyFor(j)].row
<1>1. KeyFor(j) \in Key
  BY ChainAssumption DEF Inv, TypeOK, KeyFor
<1>2. r \in Judgement
  BY <1>1 DEF Inv, TypeOK, CacheRow
<1>3. r.verdict \in Conclusive /\ r.fail = "none"
  BY <1>1, <1>2 DEF LookupHit, Hit, Inv, RowsClean, Judgement, Verdict, Conclusive
<1>4. Sound("done", alert[j], NoFacts, r)
  BY <1>3 DEF Sound
<1>5. QED  BY <1>2, <1>4, FinishInv DEF LookupHit

\* A job that goes on about its alert.
LEMMA ProceedInv ==
  ASSUME Inv, NEW j \in Job, NEW p \in Stages, NEW s \in Facts,
         NEW r \in Judgement, pc' = [pc EXCEPT ![j] = p], alert' = alert,
         facts' = [facts EXCEPT ![j] = s], result' = [result EXCEPT ![j] = r],
         Sound(p, alert[j], s, r), cache' = cache,
         outcome' \in [Job -> Outcome], said' \subseteq Key \X Conclusive
  PROVE  Inv'
<1>1. alert[j] \in Alert /\ alert' = [alert EXCEPT ![j] = alert[j]]
  BY DEF Inv, TypeOK
<1>2. StepOf(j, p, alert[j], s, r)
  BY <1>1 DEF StepOf
<1>3. QED  BY <1>1, <1>2, StepInv

LEMMA MissInv ==
  ASSUME Inv, NEW j \in Job, LookupMiss(j)
  PROVE  Inv'
<1>1. /\ facts[j] \in Facts /\ facts' = [facts EXCEPT ![j] = facts[j]]
      /\ result[j] \in Judgement /\ result' = [result EXCEPT ![j] = result[j]]
      /\ outcome' \in [Job -> Outcome] /\ said' \subseteq Key \X Conclusive
  BY DEF Inv, TypeOK, LookupMiss
<1>2. Sound("ask", alert[j], facts[j], result[j])
  BY DEF Inv, JobsSound, Sound
<1>3. QED  BY <1>1, <1>2, ProceedInv DEF LookupMiss, Stages

\* What the guards make of an answer is sound, wherever the job goes with it.
LEMMA GuardedSound ==
  ASSUME NEW a \in Alert, NEW ans \in Answers, NEW s \in Facts,
         s.token = s.reach, NEW g \in BOOLEAN
  PROVE  LET r == Guarded(Built(a, ans), s, Declared[a], g)
         IN  /\ Doubts(r, Built(a, ans))
             /\ Sound(IF ContractRejected(r) THEN "rejudge" ELSE "verify", a, s, r)
<1> DEFINE b == Built(a, ans)
           r == Guarded(b, s, Declared[a], g)
           p == IF ContractRejected(r) THEN "rejudge" ELSE "verify"
<1>1. b \in Judgement /\ b.fail = "none" /\ b.owner = a
  BY BuiltType DEF Built
<1>2. Declared[a] \in Type
  BY ChainAssumption
<1>3. /\ Doubts(r, b)
      /\ r.verdict # "uncertain" =>
           \A f \in Requires[Declared[a]] : Token(s, f) # "unknown"
  BY <1>1, <1>2, GuardsDoubt
<1> HIDE DEF b, r
<1>4. r.verdict \in Conclusive => r.fail = "none"
  BY <1>1, <1>3 DEF Doubts, Conclusive
<1>5. r.verdict \in Conclusive => Trusted(s, a)
  BY <1>3 DEF Conclusive, Trusted, Value, Token
<1>6. p = "rejudge" => r.verdict = "uncertain"
  BY <1>1, <1>3 DEF Doubts, ContractRejected
<1>7. r.owner = a
  BY <1>1, <1>3 DEF Doubts
<1>8. Sound(p, a, s, r)
  BY <1>4, <1>5, <1>6, <1>7 DEF Sound
<1>9. QED  BY <1>3, <1>8 DEF r, b

LEMMA AskInv ==
  ASSUME Inv, NEW j \in Job, Ask(j)
  PROVE  Inv'
<1>1. PICK ans \in Answers, g \in BOOLEAN, s \in Explored(facts[j]) :
        LET r == Guarded(Built(alert[j], ans), s, Declared[alert[j]], g)
        IN  /\ facts' = [facts EXCEPT ![j] = s]
            /\ result' = [result EXCEPT ![j] = r]
            /\ pc' = [pc EXCEPT ![j] =
                        IF ContractRejected(r) THEN "rejudge" ELSE "verify"]
            /\ Heard(j, ans)
  BY DEF Ask
<1> DEFINE r == Guarded(Built(alert[j], ans), s, Declared[alert[j]], g)
           p == IF ContractRejected(r) THEN "rejudge" ELSE "verify"
<1>2. alert[j] \in Alert /\ facts[j] \in Facts
  BY DEF Inv, TypeOK
<1>3. s \in Facts /\ s.token = s.reach
  BY <1>2, FactsTypes
<1>4. Doubts(r, Built(alert[j], ans)) /\ Sound(p, alert[j], s, r)
  BY <1>2, <1>3, GuardedSound
<1>5. r \in Judgement /\ p \in Stages
  BY <1>4 DEF Doubts, Stages
<1>6. /\ outcome' \in [Job -> Outcome]
      /\ said' \subseteq Key \X Conclusive
  BY <1>1, HeardTyped DEF Ask, Inv, TypeOK
<1>7. /\ pc' = [pc EXCEPT ![j] = p]
      /\ facts' = [facts EXCEPT ![j] = s]
      /\ result' = [result EXCEPT ![j] = r]
      /\ alert' = alert /\ cache' = cache
  BY <1>1 DEF Ask
<1> HIDE DEF p, r
<1>8. QED  BY <1>3, <1>4, <1>5, <1>6, <1>7, ProceedInv

-----------------------------------------------------------------------------
(* The second question.                                                    *)

\* What the second question starts from.
LEMMA AtRejudge ==
  ASSUME Inv, NEW j \in Job, pc[j] = "rejudge"
  PROVE  /\ alert[j] \in Alert
         /\ facts[j] \in Facts
         /\ facts[j].token = facts[j].reach
         /\ result[j] \in Judgement
         /\ result[j].owner = alert[j]
         /\ result[j].verdict = "uncertain"
BY DEF Inv, TypeOK, JobsSound, Sound

\* The guard's judgement stays.
LEMMA KeptInv ==
  ASSUME Inv, NEW j \in Job, RejudgeFails(j) \/ RejudgeUnresolved(j)
  PROVE  Inv'
<1>1. PICK s \in Facts : facts' = [facts EXCEPT ![j] = s]
  <2>1. facts[j] \in Facts
    BY DEF Inv, TypeOK
  <2>2. CASE RejudgeFails(j)
    <3>1. facts' = [facts EXCEPT ![j] = facts[j]]
      BY <2>2 DEF RejudgeFails, Inv, TypeOK
    <3>2. QED  BY <2>1, <3>1
  <2>3. CASE RejudgeUnresolved(j)
    BY <2>1, <2>3, FactsTypes DEF RejudgeUnresolved
  <2>4. QED  BY <2>2, <2>3
<1>2. /\ pc[j] = "rejudge"
      /\ pc' = [pc EXCEPT ![j] = "verify"]
      /\ result' = [result EXCEPT ![j] = result[j]]
      /\ UNCHANGED <<cache, alert, outcome, said>>
  BY DEF RejudgeFails, RejudgeUnresolved, Kept
<1>3. Sound("verify", alert[j], s, result[j])
  BY <1>2, AtRejudge DEF Sound, Conclusive
<1>4. QED
  BY <1>1, <1>2, <1>3, AtRejudge, ProceedInv DEF Stages, Inv, TypeOK

LEMMA ResolvedInv ==
  ASSUME Inv, NEW j \in Job, RejudgeResolved(j)
  PROVE  Inv'
<1>1. PICK ans \in Answers, s \in Refreshed(facts[j]) :
        /\ Resolved(s, Required(j))
        /\ facts' = [facts EXCEPT ![j] = s]
        /\ result' = [result EXCEPT ![j] = Rebuilt(result[j], ans)]
        /\ Heard(j, ans)
  BY DEF RejudgeResolved
<1> DEFINE r == Rebuilt(result[j], ans)
<1>2. /\ pc[j] = "rejudge" /\ pc' = [pc EXCEPT ![j] = "verify"]
      /\ UNCHANGED <<cache, alert, outcome>>
  BY DEF RejudgeResolved
<1>3. s \in Facts
  BY <1>2, AtRejudge, FactsTypes
<1>4. r = Built(alert[j], ans)
  BY <1>2, AtRejudge DEF Rebuilt
<1>5. r \in Judgement /\ r.fail = "none" /\ r.owner = alert[j]
  BY <1>2, <1>4, AtRejudge, BuiltType DEF Built
<1>6. Trusted(s, alert[j])
  BY <1>1 DEF Resolved, Required, RequiredFacts, Trusted
<1>7. Sound("verify", alert[j], s, r)
  BY <1>5, <1>6 DEF Sound
<1>8. said' \subseteq Key \X Conclusive /\ outcome' \in [Job -> Outcome]
  BY <1>1, <1>2, HeardTyped DEF Inv, TypeOK
<1>9. QED  BY <1>1, <1>2, <1>3, <1>5, <1>7, <1>8, ProceedInv DEF Stages

\* The two guards the answer to the second question about a bare false positive
\* passes.
LEMMA TwoGuards ==
  ASSUME NEW r \in Judgement, NEW s \in Facts, NEW d \in Type
  PROVE  LET q == EnforceNoBareFp(EnforceDecisiveFactKnown(r, s, d), d)
         IN  /\ Doubts(q, r)
             /\ q.verdict # "uncertain" =>
                  \A f \in Requires[d] : Token(s, f) # "unknown"
<1> DEFINE q1 == EnforceDecisiveFactKnown(r, s, d)
           q2 == EnforceNoBareFp(q1, d)
<1>1. /\ Doubts(q1, r)
      /\ q1.verdict # "uncertain" =>
           \A f \in Requires[d] : Token(s, f) # "unknown"
  BY FirstGuard
<1> HIDE DEF q1
<1>2. Doubts(q2, q1)
  BY <1>1, SecondGuard DEF Doubts
<1> HIDE DEF q2
<1>3. Doubts(q2, r) /\ (q2.verdict # "uncertain" => q1.verdict # "uncertain")
  BY <1>1, <1>2, DoubtsCompose DEF Doubts
<1>4. q2 = EnforceNoBareFp(EnforceDecisiveFactKnown(r, s, d), d)
  BY DEF q2, q1
<1>5. QED  BY <1>1, <1>3, <1>4

\* What the second question about a bare false positive leaves.
SecondAnswer(j, ans) ==
  EnforceNoBareFp(
    EnforceDecisiveFactKnown(Rebuilt(result[j], ans), facts[j],
                             Declared[alert[j]]),
    Declared[alert[j]])

LEMMA BareFpInv ==
  ASSUME Inv, NEW j \in Job, RejudgeBareFp(j)
  PROVE  Inv'
<1>1. PICK ans \in Answers :
        /\ result' = [result EXCEPT ![j] = SecondAnswer(j, ans)]
        /\ Heard(j, ans)
  BY DEF RejudgeBareFp, SecondAnswer
<1> DEFINE b == Rebuilt(result[j], ans)
           r == SecondAnswer(j, ans)
<1>2. /\ pc[j] = "rejudge" /\ pc' = [pc EXCEPT ![j] = "verify"]
      /\ UNCHANGED <<cache, alert, facts, outcome>>
  BY DEF RejudgeBareFp
<1>3. b \in Judgement /\ b.fail = "none" /\ b.owner = alert[j]
  BY <1>2, AtRejudge, BuiltType DEF Rebuilt, Built
<1>4. Declared[alert[j]] \in Type
  BY <1>2, AtRejudge, ChainAssumption
<1>5. /\ Doubts(r, b)
      /\ r.verdict # "uncertain" =>
           \A f \in Requires[Declared[alert[j]]] : Token(facts[j], f) # "unknown"
  BY <1>2, <1>3, <1>4, AtRejudge, TwoGuards DEF SecondAnswer
<1> HIDE DEF b, r
<1>6. r \in Judgement /\ r.owner = alert[j]
  BY <1>3, <1>5 DEF Doubts
<1>7. r.verdict \in Conclusive => r.fail = "none"
  BY <1>3, <1>5 DEF Doubts, Conclusive
<1>8. r.verdict \in Conclusive => Trusted(facts[j], alert[j])
  BY <1>2, <1>5, AtRejudge DEF Conclusive, Trusted, Value, Token
<1>9. Sound("verify", alert[j], facts[j], r)
  BY <1>6, <1>7, <1>8 DEF Sound
<1>10. said' \subseteq Key \X Conclusive /\ outcome' \in [Job -> Outcome]
  BY <1>1, <1>2, HeardTyped DEF Inv, TypeOK
<1>11. facts' = [facts EXCEPT ![j] = facts[j]] /\ result' = [result EXCEPT ![j] = r]
  BY <1>1, <1>2 DEF Inv, TypeOK, r
<1>12. QED
  BY <1>2, <1>6, <1>9, <1>10, <1>11, AtRejudge, ProceedInv DEF Stages

-----------------------------------------------------------------------------
(* The verifiers, the falsifier, the cache.                                *)

\* Doubting a sound judgement leaves it sound, further down the chain.
LEMMA DoubtKeepsSound ==
  ASSUME NEW p \in {"verify", "falsify"}, NEW q \in {"falsify", "store"},
         NEW a, NEW s, NEW r, NEW n, Sound(p, a, s, r), Doubts(n, r)
  PROVE  Sound(q, a, s, n)
BY DEF Sound, Doubts, Conclusive

LEMMA VerifyInv ==
  ASSUME Inv, NEW j \in Job, Verify(j)
  PROVE  Inv'
<1>1. PICK q \in Probed(result[j]), o \in Outcome :
        /\ result' = [result EXCEPT ![j] = Dynamic(q, o)]
        /\ outcome' = [outcome EXCEPT ![j] = o]
  BY DEF Verify, DynamicOutcomes, Outcome
<1>2. /\ pc[j] = "verify" /\ pc' = [pc EXCEPT ![j] = "falsify"]
      /\ alert' = alert /\ cache' = cache
      /\ facts[j] \in Facts /\ facts' = [facts EXCEPT ![j] = facts[j]]
      /\ result[j] \in Judgement
      /\ outcome' \in [Job -> Outcome] /\ said' \subseteq Key \X Conclusive
  BY <1>1 DEF Verify, Inv, TypeOK
<1>3. Doubts(Dynamic(q, o), result[j])
  BY <1>2, VerifierDoubts
<1>4. Sound("verify", alert[j], facts[j], result[j])
  BY <1>2 DEF Inv, JobsSound
<1>5. Sound("falsify", alert[j], facts[j], Dynamic(q, o))
  BY <1>3, <1>4, DoubtKeepsSound
<1>6. Dynamic(q, o) \in Judgement
  BY <1>3 DEF Doubts
<1>7. QED  BY <1>1, <1>2, <1>5, <1>6, ProceedInv DEF Stages

LEMMA FalsifyInv ==
  ASSUME Inv, NEW j \in Job, Falsify(j)
  PROVE  Inv'
<1>1. /\ pc[j] = "falsify" /\ pc' = [pc EXCEPT ![j] = "store"]
      /\ alert' = alert /\ cache' = cache
      /\ facts[j] \in Facts /\ facts' = [facts EXCEPT ![j] = facts[j]]
      /\ result[j] \in Judgement /\ result = [result EXCEPT ![j] = result[j]]
      /\ said' \subseteq Key \X Conclusive
  BY DEF Falsify, Inv, TypeOK
<1>2. outcome' \in [Job -> Outcome]
  BY DEF Falsify, Inv, TypeOK, Outcome
<1>3. PICK n \in {result[j], Demoted(result[j])} :
        result' = [result EXCEPT ![j] = n]
  BY <1>1 DEF Falsify
<1>4. Doubts(n, result[j])
  BY <1>1, DemotedDoubts DEF Doubts
<1>5. Sound("falsify", alert[j], facts[j], result[j])
  BY <1>1 DEF Inv, JobsSound
<1>6. Sound("store", alert[j], facts[j], n)
  BY <1>4, <1>5, DoubtKeepsSound
<1>7. n \in Judgement
  BY <1>4 DEF Doubts
<1>8. QED  BY <1>1, <1>2, <1>3, <1>6, <1>7, ProceedInv DEF Stages

\* Whether the row is written or not, the job and its judgement end alike.
LEMMA StoreInv ==
  ASSUME Inv, NEW j \in Job, StoreRow(j) \/ StoreFails(j)
  PROVE  Inv'
<1>1. /\ pc[j] = "store" /\ Finish(j)
      /\ result' = [result EXCEPT ![j] = result[j]]
      /\ UNCHANGED <<alert, outcome, said>>
      /\ result[j] \in Judgement /\ alert[j] \in Alert
      /\ alert' = [alert EXCEPT ![j] = alert[j]]
      /\ outcome' \in [Job -> Outcome] /\ said' \subseteq Key \X Conclusive
  BY DEF StoreRow, StoreFails, Inv, TypeOK
<1>2. KeyFor(j) \in Key
  BY ChainAssumption DEF Inv, TypeOK, KeyFor
<1>3. Sound("store", alert[j], facts[j], result[j])
  BY <1>1 DEF Inv, JobsSound
<1>4. \/ cache' = cache
      \/ cache' = [cache EXCEPT ![KeyFor(j)] = Row(result[j])]
  BY DEF StoreRow, StoreFails
<1>5. /\ Row(result[j]) \in CacheRow
      /\ Row(result[j]).row = result[j]
  BY <1>1 DEF Row, CacheRow
<1>6. RowsClean'
  BY <1>2, <1>3, <1>4, <1>5 DEF Sound, Inv, RowsClean, TypeOK
<1>7. cache' \in [Key -> CacheRow]
  BY <1>4, <1>5 DEF Inv, TypeOK
<1>8. Sound("done", alert[j], NoFacts, result[j])
  BY <1>3 DEF Sound
<1>9. StepOf(j, "done", alert[j], NoFacts, result[j])
  BY <1>1 DEF StepOf, Finish
<1>10. TypeOK' /\ JobsSound'
  BY <1>1, <1>7, <1>8, <1>9, StepTyped, StepKeeps, FactsTypes DEF Inv, Stages
<1>11. QED  BY <1>6, <1>10 DEF Inv

LEMMA ReturnInv ==
  ASSUME Inv, NEW j \in Job, Return(j)
  PROVE  Inv'
<1>1. /\ facts[j] \in Facts /\ facts' = [facts EXCEPT ![j] = facts[j]]
      /\ cache' = cache
      /\ outcome' \in [Job -> Outcome] /\ said' \subseteq Key \X Conclusive
  BY DEF Return, Inv, TypeOK
<1>2. /\ Failure(AnAlert) \in Judgement
      /\ Failure(AnAlert).verdict = "uncertain"
  BY FailureType, AnAlertType
<1>3. Sound("idle", AnAlert, facts[j], Failure(AnAlert))
  BY <1>2 DEF Sound, Conclusive
<1>4. StepOf(j, "idle", AnAlert, facts[j], Failure(AnAlert))
  BY <1>1 DEF StepOf, Return
<1>5. QED  BY <1>1, <1>2, <1>3, <1>4, AnAlertType, StepInv DEF Stages

LEMMA ExpireInv ==
  ASSUME Inv, NEW k \in Key, Expire(k)
  PROVE  Inv'
<1>1. NoRow \in CacheRow /\ ~NoRow.present
  BY FailureType, AnAlertType DEF NoRow, CacheRow
<1>2. QED
  BY <1>1 DEF Expire, Inv, TypeOK, JobsSound, RowsClean

LEMMA NextInv == Inv /\ [Next]_vars => Inv'
<1> SUFFICES ASSUME Inv, [Next]_vars PROVE Inv'
  OBVIOUS
<1>1. ASSUME NEW j \in Job, JobStep(j) PROVE Inv'
  BY <1>1, BeginInv, FailureInv, LookupInv, MissInv, AskInv, KeptInv,
     ResolvedInv, BareFpInv, VerifyInv, FalsifyInv, StoreInv, ReturnInv
     DEF JobStep, Rejudge
<1>2. ASSUME NEW k \in Key, Expire(k) PROVE Inv'
  BY <1>2, ExpireInv
<1>3. CASE UNCHANGED vars
  BY <1>3 DEF vars, Inv, TypeOK, JobsSound, RowsClean
<1>4. QED  BY <1>1, <1>2, <1>3 DEF Next

LEMMA InvHolds == Spec => []Inv
BY InitInv, NextInv, PTL DEF Spec

-----------------------------------------------------------------------------
(* The theorems.                                                           *)

\* Types of the judge chain, among them the confidence, 0 to 10 after any
\* number of demotions.
THEOREM ChainTyped == Spec => []TypeOK
BY InvHolds, PTL DEF Inv

\* A true or false positive never carries a fail_reason, for any number of
\* concurrent jobs, alerts that share a prompt, and answers of the model.
THEOREM ConclusiveClean == Spec => []ConclusiveIsClean
<1>1. Inv => ConclusiveIsClean
  BY DEF Inv, JobsSound, Sound, ConclusiveIsClean
<1>2. QED  BY <1>1, InvHolds, PTL

\* A true or false positive the chain itself produced rests on known values of
\* every decisive fact of its declared type, whether the first guard or the
\* second question established them.
THEOREM FactsKnown == Spec => []DeclaredFactsKnown
<1>1. Inv => DeclaredFactsKnown
  BY DEF Inv, JobsSound, Sound, Trusted, DeclaredFactsKnown
<1>2. QED  BY <1>1, InvHolds, PTL

\* A judgement with another alert's bughash is a cached one: conclusive, without
\* a fail_reason.  It is what ScanPipeline assumes of a judge call.
THEOREM BorrowedConclusive == Spec => []BorrowedAreConclusive
<1>1. Inv => BorrowedAreConclusive
  BY DEF Inv, JobsSound, Sound, BorrowedAreConclusive
<1>2. QED  BY <1>1, InvHolds, PTL

\* The verdict cache takes in only conclusive judgements without a fail_reason.
THEOREM CacheConclusive == Spec => OnlyConclusiveCached
<1> DEFINE Good == \A k \in Key :
                     cache'[k] # cache[k] /\ cache'[k].present =>
                       /\ cache'[k].row.verdict \in Conclusive
                       /\ cache'[k].row.fail = "none"
<1>1. Inv /\ [Next]_vars => [Good]_vars
  <2> SUFFICES ASSUME Inv, [Next]_vars PROVE Good \/ UNCHANGED vars
    OBVIOUS
  <2>1. ASSUME NEW j \in Job, StoreRow(j) PROVE Good
    <3>1. /\ KeyFor(j) \in Key
          /\ result[j] \in Judgement
      BY ChainAssumption DEF Inv, TypeOK, KeyFor
    <3>2. Sound("store", alert[j], facts[j], result[j])
      BY <2>1 DEF StoreRow, Inv, JobsSound
    <3>3. CASE WorthCaching(result[j])
      <4>1. result[j].verdict \in Conclusive /\ result[j].fail = "none"
        BY <3>1, <3>2, <3>3
           DEF WorthCaching, Sound, Judgement, Verdict, Conclusive
      <4>2. cache' = [cache EXCEPT ![KeyFor(j)] = Row(result[j])]
        BY <2>1, <3>3 DEF StoreRow
      <4>3. Row(result[j]).row = result[j]
        BY DEF Row
      <4>4. QED  BY <4>1, <4>2, <4>3 DEF Inv, TypeOK
    <3>4. CASE ~WorthCaching(result[j])
      BY <2>1, <3>4 DEF StoreRow
    <3>5. QED  BY <3>3, <3>4
  <2>2. ASSUME NEW k \in Key, Expire(k) PROVE Good
    BY <2>2 DEF Expire, NoRow, Inv, TypeOK
  <2>3. ASSUME NEW j \in Job, JobStep(j), ~StoreRow(j) PROVE cache' = cache
    BY <2>3 DEF JobStep, Rejudge, Begin, EmptySlice, LookupHit, LookupMiss, Ask,
                AskFails, RejudgeFails, RejudgeResolved, RejudgeUnresolved,
                RejudgeBareFp, Verify, Falsify, StoreFails, Return
  <2>4. QED  BY <2>1, <2>2, <2>3 DEF Next
<1>2. QED  BY <1>1, InvHolds, PTL DEF Spec, OnlyConclusiveCached

-----------------------------------------------------------------------------
(* The chain implements ModelVerdict.                                      *)

prompts  == [j \in Job |-> KeyFor(j)]
opinions == [j \in Job |-> Held(j)]
rows     == [k \in Key |-> Repeatable(k)]

Opinion(p, r) == IF p \in {"idle", "lookup", "ask"} THEN "none" ELSE r.verdict

\* What a step of a job is to an observer of its opinion.
LEMMA OpinionOf ==
  ASSUME Inv, NEW j \in Job, NEW p, NEW r, alert' = alert,
         pc' = [pc EXCEPT ![j] = p], result' = [result EXCEPT ![j] = r]
  PROVE  /\ prompts' = prompts
         /\ opinions' = [opinions EXCEPT ![j] = Opinion(p, r)]
BY DEF Inv, TypeOK, prompts, opinions, KeyFor, Held, Opinion

LEMMA RowsKept == cache' = cache => rows' = rows
BY DEF rows, Repeatable

LEMMA ModelInit == Init => Model!Init
<1> SUFFICES ASSUME Init PROVE Model!Init
  OBVIOUS
<1>1. prompts \in [Job -> Key]
  BY InitInv, ChainAssumption DEF Inv, TypeOK, prompts, KeyFor
<1>2. opinions = [j \in Job |-> "none"]
  BY DEF Init, opinions, Held
<1>3. Failure(AnAlert).verdict \notin Conclusive
  BY FailureType, AnAlertType DEF Conclusive
<1>4. rows = [k \in Key |-> "none"]
  BY <1>3 DEF Init, rows, Repeatable, NoRow, Row
<1>5. QED  BY <1>1, <1>2, <1>4 DEF Init, Model!Init, prompts, opinions, rows

LEMMA DoubtStep ==
  ASSUME NEW j \in Job, prompts' = prompts, rows' = rows, said' = said,
         opinions' = [opinions EXCEPT ![j] = "uncertain"]
  PROVE  Model!Next
BY DEF Model!Next, Model!Doubt, prompts, opinions, rows

LEMMA AnswerStep ==
  ASSUME NEW j \in Job, NEW v \in Conclusive, NEW w \in {v, "uncertain"},
         prompts' = prompts, rows' = rows,
         said' = said \cup {<<KeyFor(j), v>>},
         opinions' = [opinions EXCEPT ![j] = w]
  PROVE  Model!Next
<1>1. Model!Answer(j)
  BY DEF Model!Answer, Model!Conclusive, Conclusive, prompts, opinions, rows
<1>2. QED  BY <1>1 DEF Model!Next

LEMMA KeptStep ==
  ASSUME prompts' = prompts, rows' = rows, opinions' = opinions, said' = said
  PROVE  UNCHANGED Model!vars
BY DEF Model!vars, prompts, opinions, rows

\* Any step on which the model answered, and the job holds a doubt about it.
LEMMA HeardStep ==
  ASSUME NEW j \in Job, NEW ans \in Answers, Heard(j, ans),
         NEW a \in Alert, NEW r, Doubts(r, Built(a, ans)),
         prompts' = prompts, rows' = rows,
         opinions' = [opinions EXCEPT ![j] = r.verdict]
  PROVE  Model!Next
<1>1. ans.verdict \in Verdict /\ Built(a, ans).verdict = ans.verdict
  BY ChainAssumption DEF Answer, Built
<1>2. r.verdict \in {ans.verdict, "uncertain"}
  BY <1>1 DEF Doubts
<1>3. CASE ans.verdict \in Conclusive
  BY <1>2, <1>3, AnswerStep DEF Heard
<1>4. CASE ans.verdict \notin Conclusive
  <2>1. r.verdict = "uncertain" /\ said' = said
    BY <1>1, <1>2, <1>4 DEF Verdict, Conclusive, Heard
  <2>2. QED  BY <2>1, DoubtStep
<1>5. QED  BY <1>3, <1>4

LEMMA ModelBegin ==
  ASSUME Inv, NEW j \in Job, Begin(j)
  PROVE  Model!Next
<1>1. PICK a \in Alert : alert' = [alert EXCEPT ![j] = a]
  BY DEF Begin
<1>2. prompts' = [prompts EXCEPT ![j] = KeyOf[a]] /\ KeyOf[a] \in Key
  BY <1>1, ChainAssumption DEF Inv, TypeOK, prompts, KeyFor
<1>3. opinions[j] = "none" /\ opinions' = opinions
  BY DEF Begin, Inv, TypeOK, opinions, Held
<1>4. rows' = rows /\ said' = said
  BY RowsKept DEF Begin
<1>5. Model!Take(j)
  BY <1>2, <1>3, <1>4 DEF Model!Take, prompts, opinions, rows
<1>6. QED  BY <1>5 DEF Model!Next

LEMMA ModelFailure ==
  ASSUME Inv, NEW j \in Job, EmptySlice(j) \/ AskFails(j)
  PROVE  Model!Next
<1> DEFINE r == Failure(alert[j])
<1>1. /\ alert' = alert /\ cache' = cache /\ said' = said
      /\ pc' = [pc EXCEPT ![j] = "done"]
      /\ result' = [result EXCEPT ![j] = r]
  BY DEF EmptySlice, AskFails, Finish
<1>2. Opinion("done", r) = "uncertain"
  BY DEF Opinion, Failure
<1> HIDE DEF r
<1>3. prompts' = prompts /\ opinions' = [opinions EXCEPT ![j] = Opinion("done", r)]
  BY <1>1, OpinionOf
<1>4. QED  BY <1>1, <1>2, <1>3, RowsKept, DoubtStep

LEMMA ModelHit ==
  ASSUME Inv, NEW j \in Job, LookupHit(j)
  PROVE  Model!Next
<1> DEFINE r == cache[KeyFor(j)].row
<1>1. KeyFor(j) \in Key
  BY ChainAssumption DEF Inv, TypeOK, KeyFor
<1>2. r.verdict \in Conclusive
  BY <1>1 DEF LookupHit, Hit, Inv, TypeOK, CacheRow, Judgement, Verdict, Conclusive
<1>3. rows[KeyFor(j)] = r.verdict /\ rows[KeyFor(j)] # "none"
  BY <1>1, <1>2 DEF rows, Repeatable, LookupHit, Hit, Conclusive
<1>4. /\ alert' = alert /\ cache' = cache /\ said' = said
      /\ pc' = [pc EXCEPT ![j] = "done"]
      /\ result' = [result EXCEPT ![j] = r]
  BY DEF LookupHit, Finish
<1>5. opinions' = [opinions EXCEPT ![j] = r.verdict] /\ prompts' = prompts
  BY <1>4, OpinionOf DEF Opinion
<1>6. opinions[j] = "none" /\ prompts[j] = KeyFor(j)
  BY DEF LookupHit, opinions, Held, prompts
<1>7. Model!Reuse(j)
  BY <1>3, <1>4, <1>5, <1>6, RowsKept DEF Model!Reuse, prompts, opinions, rows
<1>8. QED  BY <1>7 DEF Model!Next

LEMMA ModelAsk ==
  ASSUME Inv, NEW j \in Job, Ask(j)
  PROVE  Model!Next
<1>1. PICK ans \in Answers, g \in BOOLEAN, s \in Explored(facts[j]) :
        LET r == Guarded(Built(alert[j], ans), s, Declared[alert[j]], g)
        IN  /\ result' = [result EXCEPT ![j] = r]
            /\ pc' = [pc EXCEPT ![j] =
                        IF ContractRejected(r) THEN "rejudge" ELSE "verify"]
            /\ Heard(j, ans)
  BY DEF Ask
<1> DEFINE r == Guarded(Built(alert[j], ans), s, Declared[alert[j]], g)
<1>2. alert[j] \in Alert /\ s \in Facts /\ s.token = s.reach
  BY FactsTypes DEF Inv, TypeOK
<1>3. Doubts(r, Built(alert[j], ans))
  BY <1>2, GuardedSound
<1>4. PICK q \in {"rejudge", "verify"} :
        /\ alert' = alert /\ cache' = cache
        /\ pc' = [pc EXCEPT ![j] = q] /\ result' = [result EXCEPT ![j] = r]
  BY <1>1 DEF Ask
<1> HIDE DEF r
<1>5. Opinion(q, r) = r.verdict
  BY DEF Opinion
<1>6. prompts' = prompts /\ opinions' = [opinions EXCEPT ![j] = Opinion(q, r)]
  BY <1>4, OpinionOf
<1>7. QED  BY <1>1, <1>2, <1>3, <1>4, <1>5, <1>6, RowsKept, HeardStep

\* What the second question makes of its answer is a doubt about that answer.
LEMMA ModelRejudge ==
  ASSUME Inv, NEW j \in Job, RejudgeResolved(j) \/ RejudgeBareFp(j)
  PROVE  Model!Next
<1>1. /\ pc[j] = "rejudge" /\ pc' = [pc EXCEPT ![j] = "verify"]
      /\ alert' = alert /\ cache' = cache
  BY DEF RejudgeResolved, RejudgeBareFp
<1>2. PICK ans \in Answers, r \in Judgement :
        /\ Doubts(r, Built(alert[j], ans))
        /\ result' = [result EXCEPT ![j] = r]
        /\ Heard(j, ans)
  <2>1. CASE RejudgeResolved(j)
    <3>1. PICK ans \in Answers :
            /\ result' = [result EXCEPT ![j] = Rebuilt(result[j], ans)]
            /\ Heard(j, ans)
      BY <2>1 DEF RejudgeResolved
    <3>2. Rebuilt(result[j], ans) = Built(alert[j], ans)
      BY <1>1, AtRejudge DEF Rebuilt
    <3>3. Built(alert[j], ans) \in Judgement
      BY <1>1, AtRejudge, BuiltType
    <3>4. QED  BY <3>1, <3>2, <3>3 DEF Doubts
  <2>2. CASE RejudgeBareFp(j)
    <3>1. PICK ans \in Answers :
            /\ result' = [result EXCEPT ![j] = SecondAnswer(j, ans)]
            /\ Heard(j, ans)
      BY <2>2 DEF RejudgeBareFp, SecondAnswer
    <3>2. Rebuilt(result[j], ans) = Built(alert[j], ans)
      BY <1>1, AtRejudge DEF Rebuilt
    <3>3. /\ Built(alert[j], ans) \in Judgement
          /\ Declared[alert[j]] \in Type
      BY <1>1, AtRejudge, BuiltType, ChainAssumption
    <3>4. Doubts(SecondAnswer(j, ans), Built(alert[j], ans))
      BY <1>1, <3>2, <3>3, AtRejudge, TwoGuards DEF SecondAnswer
    <3>5. QED  BY <3>1, <3>4 DEF Doubts
  <2>3. QED  BY <2>1, <2>2
<1>3. prompts' = prompts /\ opinions' = [opinions EXCEPT ![j] = r.verdict]
  BY <1>1, <1>2, OpinionOf DEF Opinion
<1>4. QED  BY <1>1, <1>2, <1>3, AtRejudge, RowsKept, HeardStep

\* A judgement that is kept or doubted, without a call of the model.
LEMMA ModelDoubt ==
  ASSUME Inv, NEW j \in Job, NEW p \in Stages, NEW r,
         Doubts(r, result[j]), pc[j] \notin {"idle", "lookup", "ask"},
         p \notin {"idle", "lookup", "ask"}, pc' = [pc EXCEPT ![j] = p],
         result' = [result EXCEPT ![j] = r], alert' = alert,
         cache' = cache, said' = said
  PROVE  Model!Next \/ UNCHANGED Model!vars
<1>1. prompts' = prompts /\ opinions' = [opinions EXCEPT ![j] = r.verdict]
  BY OpinionOf DEF Opinion
<1>2. opinions[j] = result[j].verdict
  BY DEF opinions, Held
<1>3. CASE r.verdict = "uncertain"
  BY <1>1, <1>3, RowsKept, DoubtStep
<1>4. CASE r = result[j]
  <2>1. opinions' = opinions
    BY <1>1, <1>2, <1>4 DEF opinions
  <2>2. QED  BY <1>1, <2>1, RowsKept, KeptStep
<1>5. QED  BY <1>3, <1>4 DEF Doubts

LEMMA ModelVerify ==
  ASSUME Inv, NEW j \in Job, Verify(j)
  PROVE  Model!Next \/ UNCHANGED Model!vars
<1>1. PICK q \in Probed(result[j]), o \in Outcome :
        result' = [result EXCEPT ![j] = Dynamic(q, o)]
  BY DEF Verify, DynamicOutcomes, Outcome
<1> DEFINE r == Dynamic(q, o)
<1>2. /\ pc[j] = "verify" /\ pc' = [pc EXCEPT ![j] = "falsify"]
      /\ alert' = alert /\ cache' = cache /\ said' = said
      /\ result[j] \in Judgement
  BY DEF Verify, Inv, TypeOK
<1>3. Doubts(r, result[j]) /\ result' = [result EXCEPT ![j] = r]
  BY <1>1, <1>2, VerifierDoubts
<1> HIDE DEF r
<1>4. QED  BY <1>2, <1>3, ModelDoubt DEF Stages

LEMMA ModelFalsify ==
  ASSUME Inv, NEW j \in Job, Falsify(j)
  PROVE  Model!Next \/ UNCHANGED Model!vars
<1>1. /\ pc[j] = "falsify" /\ pc' = [pc EXCEPT ![j] = "store"]
      /\ alert' = alert /\ cache' = cache /\ said' = said
      /\ result[j] \in Judgement /\ result = [result EXCEPT ![j] = result[j]]
  BY DEF Falsify, Inv, TypeOK
<1>2. PICK n \in {result[j], Demoted(result[j])} :
        result' = [result EXCEPT ![j] = n]
  BY <1>1 DEF Falsify
<1>3. Doubts(n, result[j])
  BY <1>1, DemotedDoubts DEF Doubts
<1>4. QED  BY <1>1, <1>2, <1>3, ModelDoubt DEF Stages

LEMMA ModelKept ==
  ASSUME Inv, NEW j \in Job,
         LookupMiss(j) \/ RejudgeFails(j) \/ RejudgeUnresolved(j) \/ StoreFails(j)
  PROVE  UNCHANGED Model!vars
<1>1. alert' = alert /\ cache' = cache /\ said' = said
  BY DEF LookupMiss, RejudgeFails, RejudgeUnresolved, StoreFails
<1>2. result' = [result EXCEPT ![j] = result[j]]
  BY DEF LookupMiss, RejudgeFails, RejudgeUnresolved, StoreFails, Kept, Inv, TypeOK
<1>3. opinions' = opinions
  BY <1>2 DEF LookupMiss, RejudgeFails, RejudgeUnresolved, StoreFails, Finish,
              Inv, TypeOK, opinions, Held
<1>4. prompts' = prompts
  BY <1>1 DEF prompts, KeyFor
<1>5. QED  BY <1>1, <1>3, <1>4, RowsKept, KeptStep

LEMMA ModelStore ==
  ASSUME Inv, NEW j \in Job, StoreRow(j)
  PROVE  Model!Next \/ UNCHANGED Model!vars
<1>1. KeyFor(j) \in Key /\ result[j] \in Judgement
  BY ChainAssumption DEF Inv, TypeOK, KeyFor
<1>2. /\ alert' = alert /\ result' = result /\ said' = said
      /\ pc[j] = "store" /\ pc' = [pc EXCEPT ![j] = "done"]
  BY DEF StoreRow, Finish
<1>3. prompts' = prompts /\ opinions' = opinions
  BY <1>2 DEF prompts, KeyFor, opinions, Held, Inv, TypeOK
<1>4. CASE WorthCaching(result[j])
  <2>1. result[j].verdict \in Conclusive
    BY <1>1, <1>4 DEF WorthCaching, Judgement, Verdict, Conclusive
  <2>2. /\ cache' = [cache EXCEPT ![KeyFor(j)] = Row(result[j])]
        /\ Row(result[j]).present /\ Row(result[j]).row = result[j]
    BY <1>4 DEF StoreRow, Row
  <2>3. rows' = [rows EXCEPT ![KeyFor(j)] = result[j].verdict]
    BY <1>1, <2>1, <2>2 DEF rows, Repeatable, Inv, TypeOK
  <2>4. opinions[j] = result[j].verdict /\ prompts[j] = KeyFor(j)
    BY <1>2 DEF opinions, Held, prompts
  <2>5. Model!Share(j)
    BY <1>2, <1>3, <2>1, <2>3, <2>4
       DEF Model!Share, Model!Conclusive, Conclusive, prompts, opinions, rows
  <2>6. QED  BY <2>5 DEF Model!Next
<1>5. CASE ~WorthCaching(result[j])
  BY <1>2, <1>3, <1>5, RowsKept, KeptStep DEF StoreRow
<1>6. QED  BY <1>4, <1>5

LEMMA ModelReturn ==
  ASSUME Inv, NEW j \in Job, Return(j)
  PROVE  Model!Next
<1>1. prompts' = [prompts EXCEPT ![j] = KeyOf[AnAlert]] /\ KeyOf[AnAlert] \in Key
  BY AnAlertType, ChainAssumption DEF Return, Inv, TypeOK, prompts, KeyFor
<1>2. opinions' = [opinions EXCEPT ![j] = "none"]
  BY DEF Return, Inv, TypeOK, opinions, Held
<1>3. rows' = rows /\ said' = said
  BY RowsKept DEF Return
<1>4. Model!Drop(j)
  BY <1>1, <1>2, <1>3 DEF Model!Drop, prompts, opinions, rows
<1>5. QED  BY <1>4 DEF Model!Next

LEMMA ModelExpire ==
  ASSUME Inv, NEW k \in Key, Expire(k)
  PROVE  Model!Next
<1>1. /\ prompts' = prompts /\ opinions' = opinions /\ said' = said
      /\ cache' = [cache EXCEPT ![k] = NoRow]
  BY DEF Expire, prompts, KeyFor, opinions, Held
<1>2. rows' = [rows EXCEPT ![k] = "none"]
  BY <1>1 DEF rows, Repeatable, NoRow, Inv, TypeOK
<1>3. Model!Forget(k)
  BY <1>1, <1>2 DEF Model!Forget, prompts, opinions, rows
<1>4. QED  BY <1>3 DEF Model!Next

LEMMA ModelNext == Inv /\ [Next]_vars => [Model!Next]_(Model!vars)
<1> SUFFICES ASSUME Inv, [Next]_vars
             PROVE  Model!Next \/ UNCHANGED Model!vars
  OBVIOUS
<1>1. ASSUME NEW j \in Job, JobStep(j)
      PROVE  Model!Next \/ UNCHANGED Model!vars
  BY <1>1, ModelBegin, ModelFailure, ModelHit, ModelAsk, ModelRejudge,
     ModelVerify, ModelFalsify, ModelKept, ModelStore, ModelReturn
     DEF JobStep, Rejudge
<1>2. ASSUME NEW k \in Key, Expire(k) PROVE Model!Next
  BY <1>2, ModelExpire
<1>3. CASE UNCHANGED vars
  <2>1. prompts' = prompts /\ opinions' = opinions /\ said' = said
    BY <1>3 DEF vars, prompts, KeyFor, opinions, Held
  <2>2. QED  BY <1>3, <2>1, RowsKept, KeptStep DEF vars
<1>4. QED  BY <1>1, <1>2, <1>3 DEF Next

\* Only the model makes a verdict: every step of the guards, the second
\* question, the verifiers and the cache is one that answers, doubts or repeats.
THEOREM ImplementsModelVerdict == Spec => ModelSpec
BY ModelInit, ModelNext, InvHolds, PTL DEF Spec, ModelSpec, Model!Spec

SaidIn(P, O, R, S) ==
  /\ \A j \in Job : O[j] \in Conclusive => <<P[j], O[j]>> \in S
  /\ \A k \in Key : R[k] # "none" => <<k, R[k]>> \in S

\* The promise of ModelVerdict, before and after a step.
LEMMA SaidMeans ==
  /\ Model!Said <=> SaidIn(prompts, opinions, rows, said)
  /\ Model!Said' <=> SaidIn(prompts', opinions', rows', said')
BY DEF Model!Said, Model!Conclusive, Conclusive, prompts, opinions, rows, SaidIn

\* Every true or false positive a job holds or the cache offers was given by
\* the model for that very prompt.
THEOREM VerdictsWereSaid == Spec => []Model!Said
<1>1. Model!Init => Model!Said
  BY DEF Model!Init, Model!Said, Model!Conclusive
<1>2. Inv /\ Model!Said /\ [Model!Next]_(Model!vars) => Model!Said'
  <2> SUFFICES ASSUME Inv, SaidIn(prompts, opinions, rows, said),
                      [Model!Next]_(Model!vars)
               PROVE  SaidIn(prompts', opinions', rows', said')
    BY SaidMeans
  <2>0. /\ prompts \in [Job -> Key]
        /\ opinions = [j \in Job |-> opinions[j]]
        /\ rows = [k \in Key |-> rows[k]]
        /\ "none" \notin Conclusive /\ "uncertain" \notin Conclusive
    BY ChainAssumption DEF Inv, TypeOK, KeyFor, prompts, opinions, rows, Conclusive
  <2>1. ASSUME NEW j \in Job, Model!Take(j)
        PROVE  SaidIn(prompts', opinions', rows', said')
    <3>1. /\ opinions[j] = "none"
          /\ \E k \in Key : prompts' = [prompts EXCEPT ![j] = k]
          /\ opinions' = opinions /\ rows' = rows /\ said' = said
      BY <2>1 DEF Model!Take, prompts, opinions, rows
    <3>2. QED  BY <2>0, <3>1 DEF SaidIn
  <2>2. ASSUME NEW j \in Job, Model!Answer(j)
        PROVE  SaidIn(prompts', opinions', rows', said')
    <3>1. /\ \E v \in Conclusive, w \in BOOLEAN :
               /\ said' = said \cup {<<prompts[j], v>>}
               /\ opinions' = [opinions EXCEPT ![j] = IF w THEN v ELSE "uncertain"]
          /\ prompts' = prompts /\ rows' = rows
      BY <2>2 DEF Model!Answer, Model!Conclusive, Conclusive, prompts, opinions, rows
    <3>2. QED  BY <2>0, <3>1 DEF SaidIn
  <2>3. ASSUME NEW j \in Job, Model!Doubt(j)
        PROVE  SaidIn(prompts', opinions', rows', said')
    <3>1. /\ opinions' = [opinions EXCEPT ![j] = "uncertain"]
          /\ prompts' = prompts /\ rows' = rows /\ said' = said
      BY <2>3 DEF Model!Doubt, prompts, opinions, rows
    <3>2. QED  BY <2>0, <3>1 DEF SaidIn
  <2>4. ASSUME NEW j \in Job, Model!Reuse(j)
        PROVE  SaidIn(prompts', opinions', rows', said')
    <3>1. /\ opinions' = [opinions EXCEPT ![j] = rows[prompts[j]]]
          /\ rows[prompts[j]] # "none" /\ prompts[j] \in Key
          /\ prompts' = prompts /\ rows' = rows /\ said' = said
      BY <2>4, <2>0 DEF Model!Reuse, prompts, opinions, rows
    <3>2. QED  BY <2>0, <3>1 DEF SaidIn
  <2>5. ASSUME NEW j \in Job, Model!Share(j)
        PROVE  SaidIn(prompts', opinions', rows', said')
    <3>1. /\ opinions[j] \in Conclusive
          /\ rows' = [rows EXCEPT ![prompts[j]] = opinions[j]]
          /\ prompts' = prompts /\ opinions' = opinions /\ said' = said
      BY <2>5 DEF Model!Share, Model!Conclusive, Conclusive, prompts, opinions, rows
    <3>2. QED  BY <2>0, <3>1 DEF SaidIn
  <2>6. ASSUME NEW j \in Job, Model!Drop(j)
        PROVE  SaidIn(prompts', opinions', rows', said')
    <3>1. /\ opinions' = [opinions EXCEPT ![j] = "none"]
          /\ \E k \in Key : prompts' = [prompts EXCEPT ![j] = k]
          /\ rows' = rows /\ said' = said
      BY <2>6 DEF Model!Drop, prompts, opinions, rows
    <3>2. QED  BY <2>0, <3>1 DEF SaidIn
  <2>7. ASSUME NEW k \in Key, Model!Forget(k)
        PROVE  SaidIn(prompts', opinions', rows', said')
    <3>1. /\ rows' = [rows EXCEPT ![k] = "none"]
          /\ prompts' = prompts /\ opinions' = opinions /\ said' = said
      BY <2>7 DEF Model!Forget, prompts, opinions, rows
    <3>2. QED  BY <2>0, <3>1 DEF SaidIn
  <2>8. CASE UNCHANGED Model!vars
    BY <2>8 DEF Model!vars, prompts, opinions, rows, SaidIn
  <2>9. QED  BY <2>1, <2>2, <2>3, <2>4, <2>5, <2>6, <2>7, <2>8 DEF Model!Next
<1>3. QED  BY <1>1, <1>2, InvHolds, ImplementsModelVerdict, PTL
           DEF ModelSpec, Model!Spec
=============================================================================
