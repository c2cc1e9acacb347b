---------------------------- MODULE ScanPipeline ----------------------------
(***************************************************************************)
(* pipeline.Run, the orchestrator of a scan, from the router to the        *)
(* persist loop, together with the two stores the runs of a server share:  *)
(* the bughash store (sqlite) and the checkpoint directory (one file per   *)
(* bughash).  Several runs may be active at once, as HTTP handlers are; a  *)
(* crash kills them all and leaves the stores.                             *)
(*                                                                         *)
(* The judge is a nondeterministic choice of a judgement.  The order of    *)
(* the alerts in the input is arbitrary, so the loops over alerts take     *)
(* them in any order.                                                      *)
(***************************************************************************)
EXTENDS Integers, FiniteSets

CONSTANTS
  Run,            \* the scans that may be active at once; an idle one is reused
  Alert,          \* the SAST alerts a scan may be seeded with
  Hash,           \* bughashes
  HashOf,         \* HashOf[a]: the bughash of an alert
  HardExcluded,   \* alerts hardexclusion.ExclusionReason rejects
  HighRisk,       \* alerts whose declared type is in highRiskSet
  Calibrated,     \* alerts whose declared type the CWE registry calibrates
  Twins,          \* Twins[a]: alerts whose slice renders to the same prompt
  Judgements,     \* what the judge chain may return
  Modes,          \* the APPSEC_RUN_MODE values considered
  Concurrency,    \* RunOpts.Concurrency, the weight of the semaphore
  MaxFaults       \* bound on crashes and on failed reads and writes, together

Verdict   == {"tp", "fp", "uncertain"}
Judgement == [verdict : Verdict, conf : 0..10, reclassified : BOOLEAN,
              failed : BOOLEAN]

ASSUME ConstantsAssumption ==
  /\ HashOf \in [Alert -> Hash]
  /\ Twins \in [Alert -> SUBSET Alert]
  /\ HardExcluded \subseteq Alert
  /\ HighRisk \subseteq Alert
  /\ Calibrated \subseteq Alert
  /\ Judgements \subseteq Judgement
  /\ Modes \subseteq {"production", "experiment"}
  /\ Concurrency \in Nat \ {0}
  /\ MaxFaults \in Nat
  /\ IsFiniteSet(Alert)

\* failOpenFromAlert: the judgement of an alert whose subgraph panicked.
FailOpen == [verdict |-> "uncertain", conf |-> 0, reclassified |-> FALSE,
             failed |-> TRUE]

VARIABLES
  (* shared and durable *)
  store,          \* store[h]: row of bughash_history, or "none"
  ckpt,           \* ckpt[h]: contents of <h>.json in the checkpoint directory
  (* one scan *)
  phase,          \* where the run's own goroutine is
  mode,           \* RunOpts.RunMode
  stage,          \* stage[r][a]: how far the run is with the alert
  result,         \* result[r][a]: its judgement, once counted
  filed,          \* filed[r][a]: the Bughash that judgement carries
  number,         \* number[r][a]: the AlertDone.Index it was given
  idx,            \* the atomic completion counter
  permits,        \* free permits of the semaphore
  total,          \* what OnStart announced
  emitted,        \* alerts OnAlert was called for
  cancelled,      \* the request's context is cancelled
  persistErrs,    \* alerts with an entry in RunResult.PersistErrors
  (* history and bounds *)
  known,          \* known[r]: bughashes stored when r began, and not misread since
  reported,       \* inheritable verdicts the reports so far contain
  concluded,      \* bughashes some report judged without a fail_reason
  faults          \* crashes, failed reads and failed writes so far

durable == <<store, ckpt>>
local   == <<mode, result, filed, number, idx, permits, total, emitted, known>>
history == <<reported, concluded, faults>>
vars == <<store, ckpt, phase, mode, stage, result, filed, number, idx, permits,
          total, emitted, known, cancelled, persistErrs, reported, concluded, faults>>

Phase == {"idle", "refused", "routing", "resuming", "dispatch", "wait", "persist",
          "returned", "written", "over"}

InFlight == {"judging", "counted", "emitted"}
Persist  == {"recorded", "saving", "saved", "stored"}
Stage    == {"none", "input", "forAI", "inherited", "excluded", "survivor",
             "skipped", "todo"} \cup InFlight \cup Persist

At(r, stages) == {a \in Alert : stage[r][a] \in stages}

-----------------------------------------------------------------------------
(* The two places that decide what an auto-suppressed false positive is.   *)

\* report.Report: the false positives counted as auto_suppressed.
AutoSuppressed(a, j) ==
  /\ j.verdict = "fp"
  /\ j.conf >= 7
  /\ a \notin HighRisk
  /\ a \in Calibrated
  /\ ~j.reclassified

\* A seeded fault: the confidence threshold is forgotten.
StoredVerdictAnyConfidence(a, j) ==
  IF j.verdict = "tp" THEN "tp"
  ELSE IF /\ j.verdict = "fp" /\ a \notin HighRisk /\ a \in Calibrated
          /\ ~j.reclassified
       THEN "fp" ELSE "none"

\* The persist step of Run: which verdict of a judgement is upserted.
StoredVerdict(a, j) ==
  IF j.verdict = "tp" THEN "tp"
  ELSE IF /\ j.verdict = "fp"
          /\ j.conf >= 7 /\ a \notin HighRisk /\ a \in Calibrated
          /\ ~j.reclassified
       THEN "fp"
       ELSE "none"

\* What a report makes inheritable.
Support(r, alerts) ==
  {<<filed[r][a], "tp">> : a \in {b \in alerts : result[r][b].verdict = "tp"}}
    \cup
  {<<filed[r][a], "fp">> : a \in {b \in alerts : AutoSuppressed(b, result[r][b])}}

-----------------------------------------------------------------------------
Init ==
  /\ store = [h \in Hash |-> "none"]
  /\ ckpt  = [h \in Hash |-> "absent"]
  /\ phase = [r \in Run |-> "idle"]
  /\ mode  = [r \in Run |-> "experiment"]
  /\ stage  = [r \in Run |-> [a \in Alert |-> "none"]]
  /\ result = [r \in Run |-> [a \in Alert |-> FailOpen]]
  /\ filed  = [r \in Run |-> HashOf]
  /\ number = [r \in Run |-> [a \in Alert |-> 0]]
  /\ idx     = [r \in Run |-> 0]
  /\ permits = [r \in Run |-> Concurrency]
  /\ total   = [r \in Run |-> 0]
  /\ emitted = [r \in Run |-> {}]
  /\ known   = [r \in Run |-> {}]
  /\ cancelled = [r \in Run |-> FALSE]
  /\ persistErrs = [r \in Run |-> {}]
  /\ reported = {}
  /\ concluded = {}
  /\ faults = 0

-----------------------------------------------------------------------------
(* The run's own goroutine.                                                *)

\* A request seeds a run with some alerts.
Start(r) ==
  /\ phase[r] = "idle"
  /\ phase' = [phase EXCEPT ![r] = "routing"]
  /\ \E m \in Modes : mode' = [mode EXCEPT ![r] = m]
  /\ \E input \in SUBSET Alert :
       stage' = [stage EXCEPT ![r] =
                   [a \in Alert |-> IF a \in input THEN "input" ELSE "none"]]
  /\ known' = [known EXCEPT ![r] = {h \in Hash : store[h] # "none"}]
  /\ UNCHANGED <<durable, result, filed, number, idx, permits, total, emitted,
                 cancelled, persistErrs, history>>

\* runPipeline returns before pipeline.Run: the CWE registry does not load, or the
\* adapter cannot parse the report.
Refuse(r) ==
  /\ phase[r] = "idle"
  /\ phase' = [phase EXCEPT ![r] = "refused"]
  /\ UNCHANGED <<durable, stage, local, cancelled, persistErrs, history>>

\* A seeded fault: only stored false positives are inherited.
InheritsFalsePositives(r, h) == mode[r] # "experiment" /\ store[h] = "fp"

Inherits(r, h) == mode[r] # "experiment" /\ store[h] \in {"tp", "fp"}

\* routerSplit, one alert: production inherits a stored verdict.
Route(r, a) ==
  /\ phase[r] = "routing"
  /\ stage[r][a] = "input"
  /\ stage' = [stage EXCEPT ![r][a] =
                 IF Inherits(r, HashOf[a]) THEN "inherited" ELSE "forAI"]
  /\ UNCHANGED <<durable, phase, local, cancelled, persistErrs, history>>

\* Store.Get answers any error of the database, and a store that did not open any
\* question, with a miss: the alert goes to the judge.
RouteUnread(r, a) ==
  /\ faults < MaxFaults
  /\ phase[r] = "routing"
  /\ stage[r][a] = "input"
  /\ Inherits(r, HashOf[a])
  /\ stage' = [stage EXCEPT ![r][a] = "forAI"]
  /\ known' = [known EXCEPT ![r] = @ \ {HashOf[a]}]
  /\ faults' = faults + 1
  /\ UNCHANGED <<durable, phase, mode, result, filed, number, idx, permits, total,
                 emitted, cancelled, persistErrs, reported, concluded>>

\* hardexclusion.Partition of the alerts for the judge, then OnStart(total).
PartitionAndStart(r) ==
  /\ phase[r] = "routing"
  /\ At(r, {"input"}) = {}
  /\ stage' = [stage EXCEPT ![r] =
                 [a \in Alert |->
                    IF stage[r][a] # "forAI" THEN stage[r][a]
                    ELSE IF a \in HardExcluded THEN "excluded" ELSE "survivor"]]
  /\ total' = [total EXCEPT ![r] = Cardinality(At(r, {"forAI"}) \ HardExcluded)]
  /\ phase' = [phase EXCEPT ![r] = "resuming"]
  /\ UNCHANGED <<durable, mode, result, filed, number, idx, permits, emitted, known,
                 cancelled, persistErrs, history>>

\* Only production reads the checkpoints.
Completed(r, a) == mode[r] # "experiment" /\ ckpt[HashOf[a]] = "clean"

\* Checkpoint.CompletedIDs, one file.
Resume(r, a) ==
  /\ phase[r] = "resuming"
  /\ stage[r][a] = "survivor"
  /\ stage' = [stage EXCEPT ![r][a] =
                 IF Completed(r, a) THEN "skipped" ELSE "todo"]
  /\ UNCHANGED <<durable, phase, local, cancelled, persistErrs, history>>

\* A file that cannot be read, or a directory that cannot, completes nothing.
ResumeUnread(r, a) ==
  /\ faults < MaxFaults
  /\ phase[r] = "resuming"
  /\ stage[r][a] = "survivor"
  /\ Completed(r, a)
  /\ stage' = [stage EXCEPT ![r][a] = "todo"]
  /\ faults' = faults + 1
  /\ UNCHANGED <<durable, phase, local, cancelled, persistErrs, reported, concluded>>

BeginFanOut(r) ==
  /\ phase[r] = "resuming"
  /\ At(r, {"survivor"}) = {}
  /\ phase' = [phase EXCEPT ![r] = "dispatch"]
  /\ UNCHANGED <<durable, stage, local, cancelled, persistErrs, history>>

\* sem.Acquire succeeds only on a live context; then g.Go.
Dispatch(r, a) ==
  /\ phase[r] = "dispatch"
  /\ stage[r][a] = "todo"
  /\ ~cancelled[r]
  /\ permits[r] > 0
  /\ permits' = [permits EXCEPT ![r] = @ - 1]
  /\ stage' = [stage EXCEPT ![r][a] = "judging"]
  /\ UNCHANGED <<durable, phase, mode, result, filed, number, idx, total, emitted,
                 known, cancelled, persistErrs, history>>

\* A seeded fault: the loop also breaks when no permit is free.
FanOutOverWhenFull(r) == At(r, {"todo"}) = {} \/ cancelled[r] \/ permits[r] = 0

FanOutOver(r) == At(r, {"todo"}) = {} \/ cancelled[r]

\* The loop ends, or breaks because Acquire reports the cancellation.
EndFanOut(r) ==
  /\ phase[r] = "dispatch"
  /\ FanOutOver(r)
  /\ phase' = [phase EXCEPT ![r] = "wait"]
  /\ UNCHANGED <<durable, stage, local, cancelled, persistErrs, history>>

-----------------------------------------------------------------------------
(* The goroutine of one alert.                                             *)

\* The judge returns, or panics and is recovered into FailOpen.  A judgement
\* from the verdict cache is conclusive and carries the bughash of the alert it
\* was made for, which may be a twin of a.
Judged(r, a) ==
  \E j \in Judgements \cup {FailOpen}, b \in Twins[a] \cup {a} :
    /\ b # a => j.verdict # "uncertain" /\ ~j.failed
    /\ result' = [result EXCEPT ![r][a] = j]
    /\ filed' = [filed EXCEPT ![r][a] = HashOf[b]]

\* The judgement arrives; then alertDoneFromResult and idx.Add(1).
Judge(r, a) ==
  /\ stage[r][a] = "judging"
  /\ Judged(r, a)
  /\ idx' = [idx EXCEPT ![r] = @ + 1]
  /\ number' = [number EXCEPT ![r][a] = idx[r] + 1]
  /\ stage' = [stage EXCEPT ![r][a] = "counted"]
  /\ UNCHANGED <<durable, phase, mode, permits, total, emitted, known,
                 cancelled, persistErrs, history>>

\* OnAlert, outside the mutex: events may leave in another order than idx.
Emit(r, a) ==
  /\ stage[r][a] = "counted"
  /\ emitted' = [emitted EXCEPT ![r] = @ \cup {a}]
  /\ stage' = [stage EXCEPT ![r][a] = "emitted"]
  /\ UNCHANGED <<durable, phase, mode, result, filed, number, idx, permits, total,
                 known, cancelled, persistErrs, history>>

\* A seeded fault: the permit of a failed judgement is not released.
CollectKeepingPermit(r, a) ==
  /\ stage[r][a] = "emitted"
  /\ stage' = [stage EXCEPT ![r][a] = "recorded"]
  /\ permits' = [permits EXCEPT ![r] = IF result[r][a].failed THEN @ ELSE @ + 1]
  /\ UNCHANGED <<durable, phase, mode, result, filed, number, idx, total, emitted,
                 known, cancelled, persistErrs, history>>

\* Append to judgements under the mutex; the deferred Release.
Collect(r, a) ==
  /\ stage[r][a] = "emitted"
  /\ stage' = [stage EXCEPT ![r][a] = "recorded"]
  /\ permits' = [permits EXCEPT ![r] = @ + 1]
  /\ UNCHANGED <<durable, phase, mode, result, filed, number, idx, total, emitted,
                 known, cancelled, persistErrs, history>>

-----------------------------------------------------------------------------
(* After g.Wait: the report, then the persist loop.                        *)

Drained(r) == At(r, InFlight) = {}

MakeReport(r) ==
  /\ phase[r] = "wait"
  /\ Drained(r)
  /\ reported' = reported \cup Support(r, At(r, Persist))
  /\ concluded' = concluded \cup
       {filed[r][a] : a \in {b \in At(r, Persist) : ~result[r][b].failed}}
  /\ phase' = [phase EXCEPT ![r] = "persist"]
  /\ UNCHANGED <<durable, stage, local, cancelled, persistErrs, faults>>

\* os.WriteFile truncates <h>.json first.
OpenCheckpoint(r, a) ==
  /\ phase[r] = "persist"
  /\ stage[r][a] = "recorded"
  /\ At(r, {"saving", "saved"}) = {}
  /\ ckpt' = [ckpt EXCEPT ![filed[r][a]] = "truncated"]
  /\ stage' = [stage EXCEPT ![r][a] = "saving"]
  /\ UNCHANGED <<store, phase, local, cancelled, persistErrs, history>>

\* A seeded fault: the fail_reason is ignored.
ContentsAlwaysClean(j) == "clean"

\* CompletedIDs reads a file with a fail_reason as not completed.
Contents(j) == IF j.failed THEN "failed" ELSE "clean"

WriteCheckpoint(r, a) ==
  /\ stage[r][a] = "saving"
  /\ ckpt' = [ckpt EXCEPT ![filed[r][a]] = Contents(result[r][a])]
  /\ stage' = [stage EXCEPT ![r][a] = "saved"]
  /\ UNCHANGED <<store, phase, local, cancelled, persistErrs, history>>

\* Checkpoint.Save fails, at opening or at writing: kept in PersistErrors.
CheckpointFails(r, a) ==
  /\ faults < MaxFaults
  /\ \/ /\ phase[r] = "persist"
        /\ stage[r][a] = "recorded"
        /\ At(r, {"saving", "saved"}) = {}
     \/ stage[r][a] = "saving"
  /\ persistErrs' = [persistErrs EXCEPT ![r] = @ \cup {a}]
  /\ stage' = [stage EXCEPT ![r][a] = "saved"]
  /\ faults' = faults + 1
  /\ UNCHANGED <<durable, phase, local, cancelled, reported, concluded>>

\* Store.Upsert, when the judgement is worth storing.
Upsert(r, a) ==
  /\ stage[r][a] = "saved"
  /\ store' = IF StoredVerdict(a, result[r][a]) = "none" THEN store
              ELSE [store EXCEPT ![filed[r][a]] = StoredVerdict(a, result[r][a])]
  /\ stage' = [stage EXCEPT ![r][a] = "stored"]
  /\ UNCHANGED <<ckpt, phase, local, cancelled, persistErrs, history>>

\* Upsert ignores the error of db.Exec.
UpsertFails(r, a) ==
  /\ faults < MaxFaults
  /\ stage[r][a] = "saved"
  /\ StoredVerdict(a, result[r][a]) # "none"
  /\ stage' = [stage EXCEPT ![r][a] = "stored"]
  /\ faults' = faults + 1
  /\ UNCHANGED <<durable, phase, local, cancelled, persistErrs, reported,
                 concluded>>

Return(r) ==
  /\ phase[r] = "persist"
  /\ At(r, Persist \ {"stored"}) = {}
  /\ phase' = [phase EXCEPT ![r] = "returned"]
  /\ UNCHANGED <<durable, stage, local, cancelled, persistErrs, history>>

\* runPipeline: Run returned no error.  WriteRun writes the run directory and the
\* SCA scan of the same repository begins; or WriteRun fails, or SCA is switched
\* off, and runPipeline returns.
WriteRun(r) ==
  /\ phase[r] = "returned"
  /\ \E p \in {"written", "over"} : phase' = [phase EXCEPT ![r] = p]
  /\ UNCHANGED <<durable, stage, local, cancelled, persistErrs, history>>

\* sca.Run returns, with an error or without, and runPipeline with it.
ScaReturns(r) ==
  /\ phase[r] = "written"
  /\ phase' = [phase EXCEPT ![r] = "over"]
  /\ UNCHANGED <<durable, stage, local, cancelled, persistErrs, history>>

\* runPipeline has returned; only the handler is left.
Over(r) == phase[r] \in {"over", "refused"}

-----------------------------------------------------------------------------
(* Leaving a scan, and the environment.                                    *)

\* What the runs in S held in memory is gone.
Forget(S) ==
  /\ phase' = [r \in Run |-> IF r \in S THEN "idle" ELSE phase[r]]
  /\ mode' = [r \in Run |-> IF r \in S THEN "experiment" ELSE mode[r]]
  /\ stage' = [r \in Run |->
                  IF r \in S THEN [a \in Alert |-> "none"] ELSE stage[r]]
  /\ result' = [r \in Run |->
                  IF r \in S THEN [a \in Alert |-> FailOpen] ELSE result[r]]
  /\ filed' = [r \in Run |-> IF r \in S THEN HashOf ELSE filed[r]]
  /\ number' = [r \in Run |->
                  IF r \in S THEN [a \in Alert |-> 0] ELSE number[r]]
  /\ idx' = [r \in Run |-> IF r \in S THEN 0 ELSE idx[r]]
  /\ permits' = [r \in Run |-> IF r \in S THEN Concurrency ELSE permits[r]]
  /\ total' = [r \in Run |-> IF r \in S THEN 0 ELSE total[r]]
  /\ emitted' = [r \in Run |-> IF r \in S THEN {} ELSE emitted[r]]
  /\ known' = [r \in Run |-> IF r \in S THEN {} ELSE known[r]]
  /\ cancelled' = [r \in Run |-> IF r \in S THEN FALSE ELSE cancelled[r]]
  /\ persistErrs' = [r \in Run |-> IF r \in S THEN {} ELSE persistErrs[r]]

\* The handler answers and returns.
Respond(r) ==
  /\ Over(r)
  /\ Forget({r})
  /\ UNCHANGED <<durable, history>>

\* The client disconnects: r.Context() is cancelled.
Cancel(r) ==
  /\ phase[r] # "idle" /\ ~Over(r)
  /\ ~cancelled[r]
  /\ cancelled' = [cancelled EXCEPT ![r] = TRUE]
  /\ UNCHANGED <<durable, phase, stage, local, persistErrs, history>>

\* The server process dies, and every active run with it.
Crash ==
  /\ faults < MaxFaults
  /\ \E r \in Run : phase[r] # "idle"
  /\ Forget(Run)
  /\ faults' = faults + 1
  /\ UNCHANGED <<durable, reported, concluded>>

Orchestrator(r) ==
  \/ PartitionAndStart(r)
  \/ BeginFanOut(r)
  \/ EndFanOut(r)
  \/ MakeReport(r)
  \/ Return(r)
  \/ WriteRun(r)
  \/ ScaReturns(r)
  \/ Respond(r)
  \/ \E a \in Alert : \/ Route(r, a)
                      \/ RouteUnread(r, a)
                      \/ Resume(r, a)
                      \/ ResumeUnread(r, a)
                      \/ Dispatch(r, a)
                      \/ OpenCheckpoint(r, a)
                      \/ WriteCheckpoint(r, a)
                      \/ CheckpointFails(r, a)
                      \/ Upsert(r, a)
                      \/ UpsertFails(r, a)

Worker(r, a) == Judge(r, a) \/ Emit(r, a) \/ Collect(r, a)

Next ==
  \/ \E r \in Run : \/ Start(r)
                    \/ Refuse(r)
                    \/ Orchestrator(r)
                    \/ \E a \in Alert : Worker(r, a)
                    \/ Cancel(r)
  \/ Crash

Spec == Init /\ [][Next]_vars

-----------------------------------------------------------------------------
(* Properties.                                                             *)

TypeOK ==
  /\ store \in [Hash -> {"none", "tp", "fp"}]
  /\ ckpt \in [Hash -> {"absent", "truncated", "failed", "clean"}]
  /\ phase \in [Run -> Phase]
  /\ mode \in [Run -> {"production", "experiment"}]
  /\ stage \in [Run -> [Alert -> Stage]]
  /\ result \in [Run -> [Alert -> Judgement]]
  /\ filed \in [Run -> [Alert -> Hash]]
  /\ number \in [Run -> [Alert -> Nat]]
  /\ idx \in [Run -> Nat]
  /\ permits \in [Run -> 0..Concurrency]
  /\ total \in [Run -> Nat]
  /\ emitted \in [Run -> SUBSET Alert]
  /\ known \in [Run -> SUBSET Hash]
  /\ cancelled \in [Run -> BOOLEAN]
  /\ persistErrs \in [Run -> SUBSET Alert]
  /\ reported \subseteq (Hash \X {"tp", "fp"})
  /\ concluded \subseteq Hash
  /\ faults \in 0..MaxFaults

\* run.go's semaphore: every permit is free or held by exactly one alert in
\* flight, whichever way its judge ended, so at most Concurrency alerts are in
\* flight and a panic never costs the run a worker.
PermitsAccounted ==
  \A r \in Run :
    permits[r] + Cardinality(At(r, InFlight)) = Concurrency

\* AlertDone.Index: the indices handed out by concurrent workers are 1..idx,
\* each to one alert, so a client can count progress by them.
ProgressIndicesDense ==
  \A r \in Run :
    LET counted == At(r, {"counted", "emitted"} \cup Persist)
    IN  /\ {number[r][a] : a \in counted} = 1..idx[r]
        /\ Cardinality(counted) = idx[r]

\* The report of a run nobody cancelled accounts for every alert of its input,
\* judged alerts having been announced to the client first.  The alerts a
\* checkpoint skipped are the only ones in no section of the report.
ReportAccountsForInput ==
  \A r \in Run :
    phase[r] \in {"persist", "returned", "written", "over"} =>
      /\ ~cancelled[r] => At(r, {"todo"}) = {}
      /\ At(r, {"input", "forAI", "survivor"} \cup InFlight) = {}
      /\ At(r, Persist) = emitted[r]
      /\ total[r] = Cardinality(At(r, Persist \cup {"skipped", "todo"}))

\* The checkpoint makes a later run skip an alert for good.  It may do so only
\* for a bughash that some report judged without a fail_reason: neither a
\* fail-open result nor a file a crash or a failed write left truncated counts.
ResumeOnlyConcluded ==
  \A h \in Hash : ckpt[h] = "clean" => h \in concluded

\* A production run never replaces a stored verdict it has seen: it inherits those,
\* and all it judges are bughashes the store did not know when it began, or whose row
\* the database failed to read.  So only an experiment, a run that a later store
\* overtook, a failed read, or a judgement the cache filed under a twin's bughash
\* overturns a stored verdict.
OverturnedOnlyUnseen ==
  [][\A h \in Hash :
       store[h] # "none" /\ store'[h] # store[h] =>
         \E r \in Run, a \in Alert :
           /\ filed[r][a] = h
           /\ stage[r][a] = "saved" /\ stage'[r][a] = "stored"
           /\ \/ mode[r] = "experiment"
              \/ h \notin known[r]
              \/ HashOf[a] # h]_vars

\* The store implements the abstract ledger: whatever a run inherits was
\* supported by a report, as a true positive or as an auto-suppressed one.
Ledger == INSTANCE VerdictLedger WITH ledger <- store, evidence <- reported

LedgerSpec == Ledger!Spec

=============================================================================
