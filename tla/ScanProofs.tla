----------------------------- MODULE ScanProofs -----------------------------
(***************************************************************************)
(* Theorems about ScanPipeline and ScanStream, for any alerts, any number  *)
(* of concurrent runs, any number of faults and any capacity of the        *)
(* channel.  The first part is about every scan; the second shows that a   *)
(* streamed scan is a scan, and what its channel, its drain and its client *)
(* may count on.                                                           *)
(***************************************************************************)
EXTENDS ScanStream, FiniteSetTheorems, TLAPS

-----------------------------------------------------------------------------
(* Who is in flight.                                                       *)

LEMMA StagesDisjoint ==
  /\ InFlight \subseteq Stage
  /\ Persist \subseteq Stage
  /\ InFlight \cap Persist = {}
BY DEF InFlight, Persist, Stage

\* A step that moves one alert between two stages out of flight, or between
\* two stages in flight, leaves the alerts in flight as they are.
LEMMA InFlightKept ==
  ASSUME stage \in [Run -> [Alert -> Stage]],
         NEW r \in Run, NEW a \in Alert, NEW s,
         stage' = [stage EXCEPT ![r][a] = s],
         stage[r][a] \in InFlight <=> s \in InFlight
  PROVE  \A q \in Run : At(q, InFlight)' = At(q, InFlight)
BY DEF At

\* A dispatched alert enters, a collected one leaves, in its own run only.
LEMMA InFlightEnters ==
  ASSUME stage \in [Run -> [Alert -> Stage]], IsFiniteSet(Alert),
         NEW r \in Run, NEW a \in Alert, NEW s \in InFlight,
         stage' = [stage EXCEPT ![r][a] = s],
         stage[r][a] \notin InFlight
  PROVE  /\ \A q \in Run \ {r} : At(q, InFlight)' = At(q, InFlight)
         /\ Cardinality(At(r, InFlight)') = Cardinality(At(r, InFlight)) + 1
<1>1. /\ \A q \in Run \ {r} : At(q, InFlight)' = At(q, InFlight)
      /\ At(r, InFlight)' = At(r, InFlight) \cup {a}
      /\ a \notin At(r, InFlight)
  BY DEF At
<1>2. IsFiniteSet(At(r, InFlight))
  BY FS_Subset DEF At
<1> DEFINE S == At(r, InFlight)
<1> HIDE DEF S
<1>3. Cardinality(S \cup {a}) = Cardinality(S) + 1
  BY <1>1, <1>2, FS_AddElement DEF S
<1>4. QED  BY <1>1, <1>3 DEF S

LEMMA InFlightLeaves ==
  ASSUME stage \in [Run -> [Alert -> Stage]], IsFiniteSet(Alert),
         NEW r \in Run, NEW a \in Alert, NEW s,
         s \notin InFlight,
         stage' = [stage EXCEPT ![r][a] = s],
         stage[r][a] \in InFlight
  PROVE  /\ \A q \in Run \ {r} : At(q, InFlight)' = At(q, InFlight)
         /\ Cardinality(At(r, InFlight)') = Cardinality(At(r, InFlight)) - 1
<1>1. /\ \A q \in Run \ {r} : At(q, InFlight)' = At(q, InFlight)
      /\ At(r, InFlight)' = At(r, InFlight) \ {a}
      /\ a \in At(r, InFlight)
  BY DEF At
<1>2. IsFiniteSet(At(r, InFlight))
  BY FS_Subset DEF At
<1>3. QED  BY <1>1, <1>2, FS_RemoveElement

-----------------------------------------------------------------------------
(* Types.                                                                  *)

LEMMA FailOpenType == FailOpen \in Judgement
BY DEF FailOpen, Judgement, Verdict

\* The reads of the two stores, whether they succeed or fail.
RouteOrResume(r, a) ==
  Route(r, a) \/ RouteUnread(r, a) \/ Resume(r, a) \/ ResumeUnread(r, a)

\* Every step preserves the types, but for the bounds of permits, which
\* Inv1Next adds.
TypeWeak ==
  /\ store \in [Hash -> {"none", "tp", "fp"}]
  /\ ckpt \in [Hash -> {"absent", "truncated", "failed", "clean"}]
  /\ phase \in [Run -> Phase]
  /\ mode \in [Run -> {"production", "experiment"}]
  /\ stage \in [Run -> [Alert -> Stage]]
  /\ result \in [Run -> [Alert -> Judgement]]
  /\ filed \in [Run -> [Alert -> Hash]]
  /\ number \in [Run -> [Alert -> Nat]]
  /\ idx \in [Run -> Nat]
  /\ permits \in [Run -> Nat]
  /\ total \in [Run -> Nat]
  /\ emitted \in [Run -> SUBSET Alert]
  /\ known \in [Run -> SUBSET Hash]
  /\ cancelled \in [Run -> BOOLEAN]
  /\ persistErrs \in [Run -> SUBSET Alert]
  /\ reported \subseteq (Hash \X {"tp", "fp"})
  /\ concluded \subseteq Hash
  /\ faults \in 0..MaxFaults

LEMMA TypeWeakInit == Init => TypeWeak
BY ConstantsAssumption, FailOpenType DEF Init, TypeWeak, Phase, Stage

\* Forgetting runs writes only initial values.
LEMMA ForgetTyped ==
  ASSUME TypeWeak, NEW S \in SUBSET Run, Forget(S), durable' = durable,
         reported' = reported, concluded' = concluded, faults' \in 0..MaxFaults
  PROVE  TypeWeak'
<1> USE ConstantsAssumption
<1>1. /\ phase' \in [Run -> Phase]
      /\ mode' \in [Run -> {"production", "experiment"}]
      /\ stage' \in [Run -> [Alert -> Stage]]
      /\ result' \in [Run -> [Alert -> Judgement]]
      /\ filed' \in [Run -> [Alert -> Hash]]
      /\ number' \in [Run -> [Alert -> Nat]]
  BY FailOpenType DEF Forget, TypeWeak, Phase, Stage
<1>2. /\ idx' \in [Run -> Nat]
      /\ permits' \in [Run -> Nat]
      /\ total' \in [Run -> Nat]
      /\ emitted' \in [Run -> SUBSET Alert]
      /\ known' \in [Run -> SUBSET Hash]
      /\ persistErrs' \in [Run -> SUBSET Alert]
  BY DEF Forget, TypeWeak
<1>3. cancelled' \in [Run -> BOOLEAN]
  BY Zenon DEF Forget, TypeWeak
<1>4. QED  BY <1>1, <1>2, <1>3 DEF TypeWeak, durable

LEMMA TypeWeakNext == TypeWeak /\ [Next]_vars => TypeWeak'
<1> SUFFICES ASSUME TypeWeak, [Next]_vars PROVE TypeWeak'
  OBVIOUS
<1> USE ConstantsAssumption DEF TypeWeak, durable, local, history
<1>1. ASSUME NEW r \in Run, Start(r) PROVE TypeWeak'
  BY <1>1 DEF Start, Phase, Stage
<1>2. ASSUME NEW r \in Run, PartitionAndStart(r) PROVE TypeWeak'
  <2>1. IsFiniteSet(At(r, {"forAI"}) \ HardExcluded)
    BY FS_Subset DEF At
  <2>2. Cardinality(At(r, {"forAI"}) \ HardExcluded) \in Nat
    BY <2>1, FS_CardinalityType
  <2>3. QED  BY <1>2, <2>2 DEF PartitionAndStart, Phase, Stage
<1>3. ASSUME NEW r \in Run, BeginFanOut(r) PROVE TypeWeak'
  BY <1>3 DEF BeginFanOut, Phase
<1>4. ASSUME NEW r \in Run, EndFanOut(r) PROVE TypeWeak'
  BY <1>4 DEF EndFanOut, Phase
<1>5. ASSUME NEW r \in Run, MakeReport(r) PROVE TypeWeak'
  BY <1>5 DEF MakeReport, Phase, Support, At
<1>6. ASSUME NEW r \in Run, Return(r) PROVE TypeWeak'
  BY <1>6 DEF Return, Phase
<1>7. ASSUME NEW r \in Run, WriteRun(r) \/ ScaReturns(r) \/ Refuse(r) PROVE TypeWeak'
  <2>1. CASE WriteRun(r)
    BY <2>1 DEF WriteRun, Phase
  <2>2. CASE ScaReturns(r)
    BY <2>2 DEF ScaReturns, Phase
  <2>3. CASE Refuse(r)
    BY <2>3 DEF Refuse, Phase
  <2>4. QED  BY <1>7, <2>1, <2>2, <2>3
<1>8. ASSUME NEW r \in Run, Respond(r) PROVE TypeWeak'
  BY <1>8, ForgetTyped DEF Respond
<1>9. ASSUME NEW r \in Run, Cancel(r) PROVE TypeWeak'
  BY <1>9 DEF Cancel
<1>10. ASSUME Crash PROVE TypeWeak'
  BY <1>10, ForgetTyped DEF Crash
<1>11. ASSUME NEW r \in Run, NEW a \in Alert, Route(r, a) \/ RouteUnread(r, a)
       PROVE  TypeWeak'
  <2>1. CASE Route(r, a)
    BY <2>1 DEF Route, Stage
  <2>2. CASE RouteUnread(r, a)
    BY <2>2 DEF RouteUnread, Stage
  <2>3. QED  BY <1>11, <2>1, <2>2
<1>12. ASSUME NEW r \in Run, NEW a \in Alert, Resume(r, a) \/ ResumeUnread(r, a)
       PROVE  TypeWeak'
  <2>1. CASE Resume(r, a)
    BY <2>1 DEF Resume, Stage
  <2>2. CASE ResumeUnread(r, a)
    BY <2>2 DEF ResumeUnread, Stage
  <2>3. QED  BY <1>12, <2>1, <2>2
<1>13. ASSUME NEW r \in Run, NEW a \in Alert, Dispatch(r, a) PROVE TypeWeak'
  BY <1>13 DEF Dispatch, Stage, InFlight
<1>14. ASSUME NEW r \in Run, NEW a \in Alert, Judge(r, a) PROVE TypeWeak'
  <2>1. PICK j \in Judgement, b \in Alert :
               /\ result' = [result EXCEPT ![r][a] = j]
               /\ filed' = [filed EXCEPT ![r][a] = HashOf[b]]
    BY <1>14, FailOpenType DEF Judge, Judged
  <2>2. QED  BY <1>14, <2>1 DEF Judge, Stage, InFlight
<1>15. ASSUME NEW r \in Run, NEW a \in Alert, Emit(r, a) PROVE TypeWeak'
  BY <1>15 DEF Emit, Stage, InFlight
<1>16. ASSUME NEW r \in Run, NEW a \in Alert, Collect(r, a) PROVE TypeWeak'
  BY <1>16 DEF Collect, Stage, Persist
<1>17. ASSUME NEW r \in Run, NEW a \in Alert, OpenCheckpoint(r, a)
       PROVE  TypeWeak'
  BY <1>17 DEF OpenCheckpoint, Stage, Persist
<1>18. ASSUME NEW r \in Run, NEW a \in Alert, WriteCheckpoint(r, a)
       PROVE  TypeWeak'
  BY <1>18 DEF WriteCheckpoint, Contents, Stage, Persist
<1>19. ASSUME NEW r \in Run, NEW a \in Alert, CheckpointFails(r, a)
       PROVE  TypeWeak'
  BY <1>19 DEF CheckpointFails, Stage, Persist
<1>20. ASSUME NEW r \in Run, NEW a \in Alert, Upsert(r, a) PROVE TypeWeak'
  BY <1>20 DEF Upsert, StoredVerdict, Stage, Persist
<1>21. ASSUME NEW r \in Run, NEW a \in Alert, UpsertFails(r, a)
       PROVE  TypeWeak'
  BY <1>21 DEF UpsertFails, Stage, Persist
<1>22. CASE UNCHANGED vars
  BY <1>22 DEF vars
<1>23. QED
  BY <1>1, <1>2, <1>3, <1>4, <1>5, <1>6, <1>7, <1>8, <1>9, <1>10, <1>11,
     <1>12, <1>13, <1>14, <1>15, <1>16, <1>17, <1>18, <1>19, <1>20, <1>21,
     <1>22 DEF Next, Orchestrator, Worker

-----------------------------------------------------------------------------
(* Where a run can be when it has alerts in flight, or partly persisted.   *)

StagesFitPhase ==
  \A r \in Run, a \in Alert :
    /\ stage[r][a] \in InFlight => phase[r] \in {"dispatch", "wait"}
    /\ stage[r][a] \in {"saving", "saved", "stored"} =>
         phase[r] \in {"persist", "returned", "written", "over"}

LEMMA StagesFitPhaseInit == Init => StagesFitPhase
BY DEF Init, StagesFitPhase, InFlight

LEMMA StagesFitPhaseNext ==
  TypeWeak /\ StagesFitPhase /\ [Next]_vars => StagesFitPhase'
<1> SUFFICES ASSUME TypeWeak, StagesFitPhase, [Next]_vars PROVE StagesFitPhase'
  OBVIOUS
<1> USE DEF StagesFitPhase, InFlight, durable, local, history
<1>0. /\ stage \in [Run -> [Alert -> Stage]]
      /\ phase \in [Run -> Phase]
  BY DEF TypeWeak
<1>1. ASSUME NEW r \in Run, Start(r) PROVE StagesFitPhase'
  BY <1>0, <1>1 DEF Start
<1>2. ASSUME NEW r \in Run, PartitionAndStart(r) PROVE StagesFitPhase'
  BY <1>0, <1>2 DEF PartitionAndStart
<1>3. ASSUME NEW r \in Run, BeginFanOut(r) PROVE StagesFitPhase'
  BY <1>0, <1>3 DEF BeginFanOut
<1>4. ASSUME NEW r \in Run, EndFanOut(r) PROVE StagesFitPhase'
  BY <1>0, <1>4 DEF EndFanOut
<1>5. ASSUME NEW r \in Run, MakeReport(r) PROVE StagesFitPhase'
  BY <1>0, <1>5 DEF MakeReport, Drained, At
<1>6. ASSUME NEW r \in Run, Return(r) PROVE StagesFitPhase'
  BY <1>0, <1>6 DEF Return
<1>7. ASSUME NEW r \in Run, WriteRun(r) \/ ScaReturns(r) \/ Refuse(r)
      PROVE  StagesFitPhase'
  BY <1>0, <1>7 DEF WriteRun, ScaReturns, Refuse
<1>8. ASSUME NEW S \in SUBSET Run, Forget(S) PROVE StagesFitPhase'
  BY <1>0, <1>8 DEF Forget
<1>9. ASSUME UNCHANGED <<phase, stage>> PROVE StagesFitPhase'
  BY <1>9
<1>10. ASSUME NEW r \in Run, NEW a \in Alert, RouteOrResume(r, a)
       PROVE  StagesFitPhase'
  <2>1. CASE Route(r, a)
    BY <1>0, <2>1 DEF Route
  <2>2. CASE RouteUnread(r, a)
    BY <1>0, <2>2 DEF RouteUnread
  <2>3. CASE Resume(r, a)
    BY <1>0, <2>3 DEF Resume
  <2>4. CASE ResumeUnread(r, a)
    BY <1>0, <2>4 DEF ResumeUnread
  <2>5. QED  BY <1>10, <2>1, <2>2, <2>3, <2>4 DEF RouteOrResume
<1>11. ASSUME NEW r \in Run, NEW a \in Alert, Dispatch(r, a)
       PROVE  StagesFitPhase'
  BY <1>0, <1>11 DEF Dispatch
<1>12. ASSUME NEW r \in Run, NEW a \in Alert, Worker(r, a)
       PROVE  StagesFitPhase'
  BY <1>0, <1>12 DEF Worker, Judge, Emit, Collect
<1>13. ASSUME NEW r \in Run, NEW a \in Alert,
              OpenCheckpoint(r, a) \/ CheckpointFails(r, a)
       PROVE  StagesFitPhase'
  <2>1. stage[r][a] = "saving" => phase[r] = "persist" \/ phase[r] \in {"returned", "written", "over"}
    OBVIOUS
  <2>2. CASE OpenCheckpoint(r, a)
    BY <1>0, <2>2 DEF OpenCheckpoint
  <2>3. CASE CheckpointFails(r, a)
    <3>1. phase[r] \in {"persist", "returned", "written", "over"}
      BY <2>1, <2>3 DEF CheckpointFails
    <3>2. /\ stage' = [stage EXCEPT ![r][a] = "saved"]
          /\ phase' = phase
      BY <2>3 DEF CheckpointFails
    <3>3. QED  BY <1>0, <3>1, <3>2
  <2>4. QED  BY <1>13, <2>2, <2>3
<1>14. ASSUME NEW r \in Run, NEW a \in Alert,
              WriteCheckpoint(r, a) \/ Upsert(r, a) \/ UpsertFails(r, a)
       PROVE  StagesFitPhase'
  BY <1>0, <1>14 DEF WriteCheckpoint, Upsert, UpsertFails
<1>15. QED
  BY <1>1, <1>2, <1>3, <1>4, <1>5, <1>6, <1>7, <1>8, <1>9, <1>10, <1>11,
     <1>12, <1>13, <1>14 DEF Next, Orchestrator, RouteOrResume, Respond, Cancel, Crash, vars

-----------------------------------------------------------------------------
(* The semaphore.                                                          *)

LEMMA PermitsInit == Init => PermitsAccounted
<1> SUFFICES ASSUME Init, NEW r \in Run
             PROVE  permits[r] + Cardinality(At(r, InFlight)) = Concurrency
  BY DEF PermitsAccounted
<1>1. At(r, InFlight) = {}
  BY DEF Init, At, InFlight
<1>2. Cardinality(At(r, InFlight)) = 0
  BY <1>1, FS_EmptySet
<1>3. permits[r] = Concurrency
  BY DEF Init
<1>4. QED  BY <1>2, <1>3, ConstantsAssumption

LEMMA PermitsNext ==
  TypeWeak /\ StagesFitPhase /\ PermitsAccounted /\ [Next]_vars
    => PermitsAccounted'
<1> SUFFICES ASSUME TypeWeak, StagesFitPhase, PermitsAccounted, [Next]_vars
             PROVE  PermitsAccounted'
  OBVIOUS
<1> USE ConstantsAssumption DEF durable, local, history
<1>0. /\ stage \in [Run -> [Alert -> Stage]]
      /\ permits \in [Run -> Nat]
      /\ phase \in [Run -> Phase]
      /\ IsFiniteSet(Alert)
      /\ Cardinality({}) = 0
  BY FS_EmptySet DEF TypeWeak
<1>1. ASSUME UNCHANGED permits,
             \A q \in Run : At(q, InFlight)' = At(q, InFlight)
      PROVE  PermitsAccounted'
  BY <1>1 DEF PermitsAccounted
<1>2. ASSUME UNCHANGED <<permits, stage>> PROVE PermitsAccounted'
  BY <1>1, <1>2 DEF At
<1>3. ASSUME NEW r \in Run, Start(r) PROVE PermitsAccounted'
  <2>1. \A q \in Run : At(q, InFlight)' = At(q, InFlight)
    BY <1>0, <1>3 DEF Start, StagesFitPhase, At, InFlight
  <2>2. QED  BY <1>1, <1>3, <2>1 DEF Start
<1>4. ASSUME NEW r \in Run, PartitionAndStart(r) PROVE PermitsAccounted'
  <2>1. \A q \in Run : At(q, InFlight)' = At(q, InFlight)
    BY <1>0, <1>4 DEF PartitionAndStart, At, InFlight
  <2>2. QED  BY <1>1, <1>4, <2>1 DEF PartitionAndStart
<1>5. ASSUME NEW S \in SUBSET Run, Forget(S) PROVE PermitsAccounted'
  <2>1. ASSUME NEW q \in Run
        PROVE  permits'[q] + Cardinality(At(q, InFlight)') = Concurrency
    <3>1. CASE q \in S
      <4>1. At(q, InFlight)' = {}
        BY <1>5, <3>1 DEF Forget, At, InFlight
      <4>2. permits'[q] = Concurrency
        BY <1>5, <3>1 DEF Forget
      <4>3. QED  BY <1>0, <4>1, <4>2
    <3>2. CASE q \notin S
      <4>1. At(q, InFlight)' = At(q, InFlight)
        BY <1>0, <1>5, <3>2 DEF Forget, At
      <4>2. permits'[q] = permits[q]
        BY <1>5, <3>2 DEF Forget
      <4>3. QED  BY <4>1, <4>2 DEF PermitsAccounted
    <3>3. QED  BY <3>1, <3>2
  <2>2. QED  BY <2>1 DEF PermitsAccounted
<1>6. ASSUME NEW r \in Run, NEW a \in Alert, Dispatch(r, a)
      PROVE  PermitsAccounted'
  <2>1. /\ stage' = [stage EXCEPT ![r][a] = "judging"]
        /\ stage[r][a] \notin InFlight
        /\ "judging" \in InFlight
        /\ permits' = [permits EXCEPT ![r] = @ - 1]
    BY <1>6 DEF Dispatch, InFlight
  <2>2. /\ \A q \in Run \ {r} : At(q, InFlight)' = At(q, InFlight)
        /\ Cardinality(At(r, InFlight)') = Cardinality(At(r, InFlight)) + 1
    BY <1>0, <2>1, InFlightEnters
  <2>3. Cardinality(At(r, InFlight)) \in Nat
    BY <1>0, FS_Subset, FS_CardinalityType DEF At
  <2>4. QED  BY <1>0, <2>1, <2>2, <2>3 DEF PermitsAccounted
<1>7. ASSUME NEW r \in Run, NEW a \in Alert, Collect(r, a)
      PROVE  PermitsAccounted'
  <2>1. /\ stage' = [stage EXCEPT ![r][a] = "recorded"]
        /\ stage[r][a] \in InFlight
        /\ "recorded" \notin InFlight
        /\ permits' = [permits EXCEPT ![r] = @ + 1]
    BY <1>7 DEF Collect, InFlight
  <2>2. /\ \A q \in Run \ {r} : At(q, InFlight)' = At(q, InFlight)
        /\ Cardinality(At(r, InFlight)') = Cardinality(At(r, InFlight)) - 1
    BY <1>0, <2>1, InFlightLeaves
  <2>3. Cardinality(At(r, InFlight)) \in Nat
    BY <1>0, FS_Subset, FS_CardinalityType DEF At
  <2>4. QED  BY <1>0, <2>1, <2>2, <2>3 DEF PermitsAccounted
\* All other steps move one alert, or none, and no permit.
<1>8. ASSUME NEW r \in Run, NEW a \in Alert, NEW s, UNCHANGED permits,
             stage' = [stage EXCEPT ![r][a] = s],
             stage[r][a] \in InFlight <=> s \in InFlight
      PROVE  PermitsAccounted'
  BY <1>0, <1>1, <1>8, InFlightKept
<1>9. ASSUME NEW r \in Run, NEW a \in Alert, RouteOrResume(r, a)
      PROVE  PermitsAccounted'
  BY <1>8, <1>9
     DEF RouteOrResume, Route, RouteUnread, Resume, ResumeUnread, InFlight
<1>10. ASSUME NEW r \in Run, NEW a \in Alert, Judge(r, a) \/ Emit(r, a)
       PROVE  PermitsAccounted'
  BY <1>8, <1>10, SMTT(30) DEF Judge, Emit, InFlight
<1>11. ASSUME NEW r \in Run, NEW a \in Alert,
              \/ OpenCheckpoint(r, a)
              \/ WriteCheckpoint(r, a)
              \/ CheckpointFails(r, a)
       PROVE  PermitsAccounted'
  BY <1>8, <1>11 DEF OpenCheckpoint, WriteCheckpoint, CheckpointFails, InFlight
<1>12. ASSUME NEW r \in Run, NEW a \in Alert, Upsert(r, a) \/ UpsertFails(r, a)
       PROVE  PermitsAccounted'
  BY <1>8, <1>12 DEF Upsert, UpsertFails, InFlight
<1>13. ASSUME NEW r \in Run, \/ BeginFanOut(r) \/ EndFanOut(r) \/ MakeReport(r)
                             \/ Return(r) \/ WriteRun(r) \/ ScaReturns(r)
                             \/ Refuse(r) \/ Cancel(r)
       PROVE  PermitsAccounted'
  BY <1>2, <1>13 DEF BeginFanOut, EndFanOut, MakeReport, Return, WriteRun,
                     ScaReturns, Refuse, Cancel
<1>14. CASE UNCHANGED vars
  BY <1>2, <1>14 DEF vars
<1>15. QED
  BY <1>3, <1>4, <1>5, <1>6, <1>7, <1>9, <1>10, <1>11, <1>12, <1>13, <1>14
     DEF Next, Orchestrator, RouteOrResume, Worker, Respond, Crash

-----------------------------------------------------------------------------
Inv1 == TypeWeak /\ StagesFitPhase /\ PermitsAccounted

LEMMA Inv1Holds == Spec => []Inv1
<1>1. Init => Inv1
  BY TypeWeakInit, StagesFitPhaseInit, PermitsInit DEF Inv1
<1>2. Inv1 /\ [Next]_vars => Inv1'
  BY TypeWeakNext, StagesFitPhaseNext, PermitsNext DEF Inv1
<1>3. QED  BY <1>1, <1>2, PTL DEF Spec

\* The permits of the semaphore are conserved, for any number of alerts, of
\* concurrent runs and of crashes: a panicking judge gives its permit back.
THEOREM SemaphoreAccounted == Spec => []PermitsAccounted
BY Inv1Holds, PTL DEF Inv1

\* Every variable keeps its type, the permits their bound.
THEOREM TypeCorrect == Spec => []TypeOK
<1>1. Inv1 => TypeOK
  <2> SUFFICES ASSUME Inv1 PROVE TypeOK
    OBVIOUS
  <2> USE ConstantsAssumption
  <2>1. ASSUME NEW r \in Run PROVE permits[r] \in 0..Concurrency
    <3>1. Cardinality(At(r, InFlight)) \in Nat
      BY FS_Subset, FS_CardinalityType DEF At
    <3>2. QED  BY <3>1 DEF Inv1, TypeWeak, PermitsAccounted
  <2>2. permits \in [Run -> 0..Concurrency]
    BY <2>1 DEF Inv1, TypeWeak
  <2>3. QED  BY <2>2 DEF Inv1, TypeWeak, TypeOK
<1>2. QED  BY <1>1, Inv1Holds, PTL

-----------------------------------------------------------------------------
(* What the stores hold.  A run between its report and its return persists *)
(* only judgements that the report contained; a crash loses the run, never *)
(* the reports made before, so what is on disk stays justified.            *)

Reporting == {"persist", "returned", "written", "over"}

\* The judgements of a run that has made its report are part of the history.
ReportCovers ==
  \A r \in Run, a \in Alert :
    phase[r] \in Reporting /\ stage[r][a] \in Persist =>
      /\ ~result[r][a].failed => filed[r][a] \in concluded
      /\ StoredVerdict(a, result[r][a]) # "none" =>
           <<filed[r][a], StoredVerdict(a, result[r][a])>> \in reported

\* The condition run.go stores a false positive under is the one report.go
\* counts it as auto-suppressed under.
LEMMA StoredIsSupported ==
  ASSUME TypeWeak, NEW r \in Run, NEW a \in Alert, NEW S, a \in S, S \subseteq Alert,
         StoredVerdict(a, result[r][a]) # "none"
  PROVE  <<filed[r][a], StoredVerdict(a, result[r][a])>> \in Support(r, S)
BY DEF StoredVerdict, Support, AutoSuppressed

LEMMA ReportCoversInit == Init => ReportCovers
BY DEF Init, ReportCovers, Persist

LEMMA ReportCoversNext ==
  Inv1 /\ ReportCovers /\ [Next]_vars => ReportCovers'
<1> SUFFICES ASSUME Inv1, ReportCovers, [Next]_vars PROVE ReportCovers'
  OBVIOUS
<1> USE DEF durable, local, history
<1>0. /\ TypeWeak
      /\ StagesFitPhase
      /\ stage \in [Run -> [Alert -> Stage]]
      /\ phase \in [Run -> Phase]
      /\ result \in [Run -> [Alert -> Judgement]]
      /\ filed \in [Run -> [Alert -> Hash]]
  BY DEF Inv1, TypeWeak
\* A step is harmless when it brings no alert of a reporting run into Persist.
<1>1. ASSUME UNCHANGED <<reported, concluded>>,
             \A r \in Run, a \in Alert :
               phase'[r] \in Reporting /\ stage'[r][a] \in Persist =>
                 /\ phase[r] \in Reporting /\ stage[r][a] \in Persist
                 /\ result'[r][a] = result[r][a]
                 /\ filed'[r][a] = filed[r][a]
      PROVE  ReportCovers'
  BY <1>1 DEF ReportCovers, StoredVerdict
<1>2. ASSUME NEW r \in Run, MakeReport(r) PROVE ReportCovers'
  <2>1. ASSUME NEW q \in Run, NEW a \in Alert,
               phase'[q] \in Reporting, stage'[q][a] \in Persist
        PROVE  /\ ~result'[q][a].failed => filed[q][a] \in concluded'
               /\ StoredVerdict(a, result[q][a]) # "none" =>
                    <<filed[q][a], StoredVerdict(a, result[q][a])>> \in reported'
    <3>1. /\ stage' = stage
          /\ result' = result
          /\ filed' = filed
          /\ reported \subseteq reported'
          /\ concluded \subseteq concluded'
      BY <1>2 DEF MakeReport
    <3>2. CASE q = r
      <4>1. a \in At(r, Persist)
        BY <2>1, <3>1, <3>2 DEF At
      <4>2. At(r, Persist) \subseteq Alert
        BY DEF At
      <4>3. ~result[r][a].failed => filed[r][a] \in concluded'
        BY <1>2, <4>1 DEF MakeReport
      <4>4. StoredVerdict(a, result[r][a]) # "none" =>
              <<filed[r][a], StoredVerdict(a, result[r][a])>>
                \in Support(r, At(r, Persist))
        BY <1>0, <4>1, <4>2, StoredIsSupported
      <4>5. QED  BY <1>2, <3>1, <3>2, <4>3, <4>4 DEF MakeReport
    <3>3. CASE q # r
      <4>1. phase[q] \in Reporting
        BY <1>0, <1>2, <2>1, <3>3 DEF MakeReport
      <4>2. QED  BY <2>1, <3>1, <4>1 DEF ReportCovers
    <3>4. QED  BY <3>2, <3>3
  <2>2. result' = result /\ filed' = filed
    BY <1>2 DEF MakeReport
  <2>3. QED  BY <2>1, <2>2 DEF ReportCovers, StoredVerdict
<1>3. ASSUME NEW r \in Run, Start(r) PROVE ReportCovers'
  BY <1>0, <1>1, <1>3 DEF Start, Reporting
<1>4. ASSUME NEW r \in Run, PartitionAndStart(r) PROVE ReportCovers'
  BY <1>0, <1>1, <1>4 DEF PartitionAndStart, Reporting
<1>5. ASSUME NEW S \in SUBSET Run, Forget(S),
             UNCHANGED <<reported, concluded>>
      PROVE  ReportCovers'
  BY <1>0, <1>1, <1>5 DEF Forget, Reporting
<1>6. ASSUME NEW r \in Run, BeginFanOut(r) \/ EndFanOut(r) \/ Cancel(r)
      PROVE  ReportCovers'
  BY <1>0, <1>1, <1>6 DEF BeginFanOut, EndFanOut, Cancel, Reporting
<1>7. ASSUME NEW r \in Run, \/ Return(r) \/ WriteRun(r) \/ ScaReturns(r)
                            \/ Refuse(r)
      PROVE  ReportCovers'
  BY <1>0, <1>1, <1>7 DEF Return, WriteRun, ScaReturns, Refuse, Reporting
\* Moving one alert outside Persist, or within it, or in a run not reporting.
<1>8. ASSUME NEW r \in Run, NEW a \in Alert, NEW s,
             UNCHANGED <<phase, reported, concluded>>,
             stage' = [stage EXCEPT ![r][a] = s],
             phase[r] \in Reporting => UNCHANGED <<result, filed>>
                                       /\ (s \in Persist => stage[r][a] \in Persist),
             \A q \in Run \ {r} : result'[q] = result[q] /\ filed'[q] = filed[q]
      PROVE  ReportCovers'
  BY <1>0, <1>1, <1>8
<1>9. ASSUME NEW r \in Run, NEW a \in Alert,
             RouteOrResume(r, a) \/ Dispatch(r, a)
      PROVE  ReportCovers'
  <2>1. phase[r] \notin Reporting
    BY <1>9 DEF RouteOrResume, Route, RouteUnread, Resume, ResumeUnread, Dispatch,
                Reporting
  <2>2. /\ \E s : stage' = [stage EXCEPT ![r][a] = s]
        /\ UNCHANGED <<phase, result, filed, reported, concluded>>
    BY <1>9 DEF RouteOrResume, Route, RouteUnread, Resume, ResumeUnread, Dispatch
  <2>3. QED  BY <1>8, <2>1, <2>2
<1>10. ASSUME NEW r \in Run, NEW a \in Alert, Worker(r, a)
       PROVE  ReportCovers'
  <2>1. phase[r] \notin Reporting
    BY <1>0, <1>10
       DEF Worker, Judge, Emit, Collect, StagesFitPhase, InFlight, Reporting
  <2>2. PICK s : stage' = [stage EXCEPT ![r][a] = s]
    BY <1>10 DEF Worker, Judge, Emit, Collect
  <2>3. \A q \in Run \ {r} : result'[q] = result[q] /\ filed'[q] = filed[q]
    BY <1>0, <1>10 DEF Worker, Judge, Judged, Emit, Collect
  <2>4. UNCHANGED <<phase, reported, concluded>>
    BY <1>10 DEF Worker, Judge, Emit, Collect
  <2>5. QED  BY <1>8, <2>1, <2>2, <2>3, <2>4
<1>11. ASSUME NEW r \in Run, NEW a \in Alert,
              \/ OpenCheckpoint(r, a)
              \/ WriteCheckpoint(r, a)
              \/ CheckpointFails(r, a)
       PROVE  ReportCovers'
  BY <1>8, <1>11
     DEF OpenCheckpoint, WriteCheckpoint, CheckpointFails, Persist
<1>12. ASSUME NEW r \in Run, NEW a \in Alert, Upsert(r, a) \/ UpsertFails(r, a)
       PROVE  ReportCovers'
  BY <1>8, <1>12 DEF Upsert, UpsertFails, Persist
<1>13. CASE UNCHANGED vars
  BY <1>1, <1>13 DEF vars
<1>14. QED
  BY <1>2, <1>3, <1>4, <1>5, <1>6, <1>7, <1>9, <1>10, <1>11, <1>12, <1>13
     DEF Next, Orchestrator, RouteOrResume, Respond, Crash

Inv2 == Inv1 /\ ReportCovers /\ ResumeOnlyConcluded

LEMMA ResumeOnlyConcludedNext ==
  Inv1 /\ ReportCovers /\ ResumeOnlyConcluded /\ [Next]_vars
    => ResumeOnlyConcluded'
<1> SUFFICES ASSUME Inv1, ReportCovers, ResumeOnlyConcluded, [Next]_vars
             PROVE  ResumeOnlyConcluded'
  OBVIOUS
<1> USE DEF durable, local, history, ResumeOnlyConcluded
<1>0. /\ StagesFitPhase
      /\ ckpt \in [Hash -> {"absent", "truncated", "failed", "clean"}]
  BY DEF Inv1, TypeWeak
<1>1. ASSUME UNCHANGED ckpt, concluded \subseteq concluded'
      PROVE  ResumeOnlyConcluded'
  BY <1>1
<1>2. ASSUME NEW r \in Run, NEW a \in Alert, OpenCheckpoint(r, a)
      PROVE  ResumeOnlyConcluded'
  BY <1>0, <1>2 DEF OpenCheckpoint
<1>3. ASSUME NEW r \in Run, NEW a \in Alert, WriteCheckpoint(r, a)
      PROVE  ResumeOnlyConcluded'
  <2>1. phase[r] \in Reporting /\ stage[r][a] \in Persist
    BY <1>0, <1>3 DEF WriteCheckpoint, StagesFitPhase, Reporting, Persist
  <2>2. ~result[r][a].failed => filed[r][a] \in concluded
    BY <2>1 DEF ReportCovers
  <2>3. QED  BY <1>0, <1>3, <2>2 DEF WriteCheckpoint, Contents
<1>4. ASSUME NEW r \in Run, Start(r) \/ Cancel(r) \/ Respond(r) \/ MakeReport(r)
      PROVE  ResumeOnlyConcluded'
  BY <1>1, <1>4 DEF Start, Cancel, Respond, MakeReport
<1>5. ASSUME Crash PROVE ResumeOnlyConcluded'
  BY <1>1, <1>5 DEF Crash
<1>6. ASSUME NEW r \in Run, \/ PartitionAndStart(r) \/ BeginFanOut(r)
                            \/ EndFanOut(r) \/ Return(r) \/ WriteRun(r)
                            \/ ScaReturns(r) \/ Refuse(r)
      PROVE  ResumeOnlyConcluded'
  BY <1>1, <1>6 DEF PartitionAndStart, BeginFanOut, EndFanOut, Return, WriteRun,
                    ScaReturns, Refuse
<1>7. ASSUME NEW r \in Run, NEW a \in Alert,
             RouteOrResume(r, a) \/ Dispatch(r, a) \/ Worker(r, a)
      PROVE  ResumeOnlyConcluded'
  BY <1>1, <1>7 DEF RouteOrResume, Route, RouteUnread, Resume, ResumeUnread, Dispatch,
                    Worker, Judge, Emit, Collect
<1>8. ASSUME NEW r \in Run, NEW a \in Alert,
             CheckpointFails(r, a) \/ Upsert(r, a) \/ UpsertFails(r, a)
      PROVE  ResumeOnlyConcluded'
  BY <1>1, <1>8 DEF CheckpointFails, Upsert, UpsertFails
<1>9. CASE UNCHANGED vars
  BY <1>1, <1>9 DEF vars
<1>10. QED
  BY <1>2, <1>3, <1>4, <1>5, <1>6, <1>7, <1>8, <1>9 DEF Next, Orchestrator, RouteOrResume

LEMMA Inv2Holds == Spec => []Inv2
<1>1. Init => ReportCovers /\ ResumeOnlyConcluded
  BY ReportCoversInit DEF Init, ResumeOnlyConcluded
<1>2. ReportCovers /\ ResumeOnlyConcluded /\ Inv1 /\ [Next]_vars
        => ReportCovers' /\ ResumeOnlyConcluded'
  BY ReportCoversNext, ResumeOnlyConcludedNext
<1>3. QED  BY <1>1, <1>2, Inv1Holds, PTL DEF Spec, Inv2

\* A checkpoint makes later runs skip a bughash only if some report judged it
\* without a fail_reason, whatever crashes, failed writes and concurrent runs.
THEOREM CheckpointJustified == Spec => []ResumeOnlyConcluded
BY Inv2Holds, PTL DEF Inv2

-----------------------------------------------------------------------------
(* The bughash store implements the abstract ledger.                       *)

LEMMA LedgerInit == Init => Ledger!Init
BY DEF Init, Ledger!Init

LEMMA LedgerNext == Inv2 /\ [Next]_vars => [Ledger!Next]_(Ledger!vars)
<1> SUFFICES ASSUME Inv2, [Next]_vars
             PROVE  Ledger!Next \/ UNCHANGED <<store, reported>>
  BY DEF Ledger!vars
<1> USE ConstantsAssumption DEF durable, local, history
<1>0. /\ StagesFitPhase
      /\ ReportCovers
      /\ store \in [Hash -> {"none", "tp", "fp"}]
      /\ result \in [Run -> [Alert -> Judgement]]
      /\ filed \in [Run -> [Alert -> Hash]]
  BY DEF Inv2, Inv1, TypeWeak
<1>1. ASSUME NEW r \in Run, MakeReport(r)
      PROVE  Ledger!Next
  <2>1. Support(r, At(r, Persist)) \in SUBSET (Hash \X Ledger!Inheritable)
    BY <1>0 DEF Support, At, Ledger!Inheritable
  <2>2. Ledger!Publish
    BY <1>1, <2>1 DEF MakeReport, Ledger!Publish
  <2>3. QED  BY <2>2 DEF Ledger!Next
<1>2. ASSUME NEW r \in Run, NEW a \in Alert, Upsert(r, a)
      PROVE  Ledger!Next \/ UNCHANGED <<store, reported>>
  <2> DEFINE v == StoredVerdict(a, result[r][a])
  <2>1. CASE v = "none"
    BY <1>2, <2>1 DEF Upsert
  <2>2. CASE v # "none"
    <3>1. v \in Ledger!Inheritable
      BY <2>2 DEF StoredVerdict, Ledger!Inheritable
    <3>2. phase[r] \in Reporting /\ stage[r][a] \in Persist
      BY <1>0, <1>2 DEF Upsert, StagesFitPhase, Reporting, Persist
    <3>3. <<filed[r][a], v>> \in reported
      BY <1>0, <2>2, <3>2 DEF ReportCovers
    <3>4. /\ filed[r][a] \in Hash
          /\ store' = [store EXCEPT ![filed[r][a]] = v]
          /\ reported' = reported
      BY <1>0, <1>2, <2>2 DEF Upsert
    <3>5. Ledger!Record
      BY <3>1, <3>3, <3>4 DEF Ledger!Record
    <3>6. QED  BY <3>5 DEF Ledger!Next
  <2>3. QED  BY <2>1, <2>2
<1>3. ASSUME NEW r \in Run, \/ Start(r) \/ PartitionAndStart(r) \/ BeginFanOut(r)
                            \/ EndFanOut(r) \/ Return(r) \/ WriteRun(r)
                            \/ ScaReturns(r) \/ Refuse(r) \/ Respond(r) \/ Cancel(r)
      PROVE  UNCHANGED <<store, reported>>
  BY <1>3 DEF Start, PartitionAndStart, BeginFanOut, EndFanOut, Return,
              WriteRun, ScaReturns, Refuse, Respond, Cancel
<1>4. ASSUME NEW r \in Run, NEW a \in Alert,
             RouteOrResume(r, a) \/ Dispatch(r, a) \/ Worker(r, a)
      PROVE  UNCHANGED <<store, reported>>
  BY <1>4 DEF RouteOrResume, Route, RouteUnread, Resume, ResumeUnread, Dispatch,
              Worker, Judge, Emit, Collect
<1>5. ASSUME NEW r \in Run, NEW a \in Alert,
             \/ OpenCheckpoint(r, a) \/ WriteCheckpoint(r, a)
             \/ CheckpointFails(r, a) \/ UpsertFails(r, a)
      PROVE  UNCHANGED <<store, reported>>
  BY <1>5 DEF OpenCheckpoint, WriteCheckpoint, CheckpointFails, UpsertFails
<1>6. ASSUME Crash PROVE UNCHANGED <<store, reported>>
  BY <1>6 DEF Crash
<1>7. CASE UNCHANGED vars
  BY <1>7 DEF vars
<1>8. QED
  BY <1>1, <1>2, <1>3, <1>4, <1>5, <1>6, <1>7 DEF Next, Orchestrator, RouteOrResume

\* Every step of the scans is a step of the ledger or leaves it alone, so what
\* a production run inherits was always supported by an earlier report.
THEOREM ImplementsLedger == Spec => LedgerSpec
<1>1. QED  BY LedgerInit, LedgerNext, Inv2Holds, PTL
           DEF Spec, LedgerSpec, Ledger!Spec

\* What Ledger!Spec promises its readers: a stored verdict has its evidence.
THEOREM StoreSupported == Spec => []Ledger!Supported
<1>1. Ledger!Init => Ledger!Supported
  BY DEF Ledger!Init, Ledger!Supported
<1>2. TypeWeak /\ Ledger!Supported /\ [Ledger!Next]_(Ledger!vars)
        => Ledger!Supported'
  BY DEF TypeWeak, Ledger!Supported, Ledger!Next, Ledger!Publish,
         Ledger!Record, Ledger!Inheritable, Ledger!vars
<1>3. Spec => []TypeWeak
  BY Inv1Holds, PTL DEF Inv1
<1>4. QED  BY <1>1, <1>2, <1>3, ImplementsLedger, PTL
           DEF LedgerSpec, Ledger!Spec

-----------------------------------------------------------------------------
(* What the client and the report are told.  In each phase an alert can be *)
(* in some stages only.                                                    *)

Aside  == {"none", "inherited", "excluded", "skipped"}
FannedOut == InFlight \cup {"recorded"}

Allowed(p) ==
  IF p \in {"idle", "refused"} THEN {"none"}
  ELSE IF p = "routing" THEN {"none", "input", "forAI", "inherited"}
  ELSE IF p = "resuming" THEN Aside \cup {"survivor", "todo"}
  ELSE IF p \in {"dispatch", "wait"} THEN Aside \cup {"todo"} \cup FannedOut
  ELSE Aside \cup {"todo"} \cup Persist

StagesAllowed == \A r \in Run, a \in Alert : stage[r][a] \in Allowed(phase[r])

LEMMA StagesAllowedInit == Init => StagesAllowed
BY DEF Init, StagesAllowed, Allowed

LEMMA StagesAllowedNext == TypeWeak /\ StagesAllowed /\ [Next]_vars => StagesAllowed'
<1> SUFFICES ASSUME TypeWeak, StagesAllowed, [Next]_vars PROVE StagesAllowed'
  OBVIOUS
<1> USE DEF StagesAllowed, Allowed, Aside, FannedOut, InFlight, Persist, durable,
            local, history
<1>0. /\ stage \in [Run -> [Alert -> Stage]]
      /\ phase \in [Run -> Phase]
  BY DEF TypeWeak
<1>1. ASSUME NEW r \in Run, Start(r) PROVE StagesAllowed'
  BY <1>0, <1>1 DEF Start
<1>2. ASSUME NEW r \in Run, PartitionAndStart(r) PROVE StagesAllowed'
  BY <1>0, <1>2 DEF PartitionAndStart, At
<1>3. ASSUME NEW r \in Run, BeginFanOut(r) PROVE StagesAllowed'
  BY <1>0, <1>3 DEF BeginFanOut, At
<1>4. ASSUME NEW r \in Run, EndFanOut(r) PROVE StagesAllowed'
  BY <1>0, <1>4 DEF EndFanOut
<1>5. ASSUME NEW r \in Run, MakeReport(r) PROVE StagesAllowed'
  BY <1>0, <1>5 DEF MakeReport, Drained, At
<1>6. ASSUME NEW r \in Run, \/ Return(r) \/ WriteRun(r) \/ ScaReturns(r)
                            \/ Refuse(r)
      PROVE  StagesAllowed'
  <2>1. CASE Return(r) \/ WriteRun(r)
    BY <1>0, <2>1 DEF Return, WriteRun
  <2>2. CASE ScaReturns(r) \/ Refuse(r)
    BY <1>0, <2>2 DEF ScaReturns, Refuse
  <2>3. QED  BY <1>6, <2>1, <2>2
<1>7. ASSUME NEW S \in SUBSET Run, Forget(S) PROVE StagesAllowed'
  BY <1>0, <1>7 DEF Forget
<1>8. ASSUME UNCHANGED <<phase, stage>> PROVE StagesAllowed'
  BY <1>8
<1>9. ASSUME NEW r \in Run, NEW a \in Alert, RouteOrResume(r, a)
      PROVE  StagesAllowed'
  <2>1. CASE Route(r, a) \/ RouteUnread(r, a)
    BY <1>0, <2>1 DEF Route, RouteUnread
  <2>2. CASE Resume(r, a) \/ ResumeUnread(r, a)
    BY <1>0, <2>2 DEF Resume, ResumeUnread
  <2>3. QED  BY <1>9, <2>1, <2>2 DEF RouteOrResume
<1>10. ASSUME NEW r \in Run, NEW a \in Alert, Dispatch(r, a) \/ Worker(r, a)
       PROVE  StagesAllowed'
  <2>1. CASE Dispatch(r, a)
    BY <1>0, <2>1 DEF Dispatch
  <2>2. CASE Worker(r, a)
    <3>1. /\ stage[r][a] \in InFlight
          /\ \E s \in FannedOut : stage' = [stage EXCEPT ![r][a] = s]
          /\ phase' = phase
      BY <2>2 DEF Worker, Judge, Emit, Collect
    <3>2. phase[r] \in {"dispatch", "wait"}
      BY <1>0, <3>1 DEF Phase
    <3>3. QED  BY <1>0, <3>1, <3>2
  <2>3. QED  BY <1>10, <2>1, <2>2
<1>11. ASSUME NEW r \in Run, NEW a \in Alert,
              \/ OpenCheckpoint(r, a) \/ WriteCheckpoint(r, a)
              \/ CheckpointFails(r, a) \/ Upsert(r, a) \/ UpsertFails(r, a)
       PROVE  StagesAllowed'
  <2>1. /\ \E s \in Persist : stage' = [stage EXCEPT ![r][a] = s]
        /\ phase' = phase
    BY <1>11 DEF OpenCheckpoint, WriteCheckpoint, CheckpointFails, Upsert, UpsertFails
  <2>2. \/ phase[r] = "persist"
        \/ stage[r][a] \in {"saving", "saved"}
    BY <1>11 DEF OpenCheckpoint, WriteCheckpoint, CheckpointFails, Upsert, UpsertFails
  <2>3. phase[r] \in {"persist", "returned", "written", "over"}
    BY <1>0, <2>2 DEF Phase
  <2>4. QED  BY <1>0, <2>1, <2>3
<1>12. QED
  BY <1>1, <1>2, <1>3, <1>4, <1>5, <1>6, <1>7, <1>8, <1>9, <1>10, <1>11
     DEF Next, Orchestrator, RouteOrResume, Respond, Cancel, Crash, vars

-----------------------------------------------------------------------------
(* The alerts that were announced, and those the client heard of.          *)

Announced == {"survivor", "skipped", "todo"} \cup InFlight \cup Persist
Heard == {"emitted"} \cup Persist
Counted == {"counted", "emitted"} \cup Persist

\* Where OnStart has not been called.
Unstarted == {"idle", "refused", "routing"}

TotalCounts ==
  \A r \in Run :
    phase[r] \notin Unstarted => total[r] = Cardinality(At(r, Announced))

HeardOf == \A r \in Run : emitted[r] = At(r, Heard)

LeftOnlyWhenCancelled ==
  \A r \in Run :
    phase[r] \in {"wait"} \cup Reporting /\ ~cancelled[r] => At(r, {"todo"}) = {}

\* Announced alerts stay announced until the run is forgotten.
LEMMA AnnouncedKept ==
  TypeWeak /\ StagesAllowed /\ [Next]_vars =>
    \A r \in Run :
      phase[r] \notin Unstarted /\ phase'[r] \notin Unstarted =>
        /\ At(r, Announced)' = At(r, Announced)
        /\ total'[r] = total[r]
<1> SUFFICES ASSUME TypeWeak, StagesAllowed, [Next]_vars, NEW q \in Run,
                    phase[q] \notin Unstarted, phase'[q] \notin Unstarted
             PROVE  At(q, Announced)' = At(q, Announced) /\ total'[q] = total[q]
  OBVIOUS
<1> USE DEF durable, local, history, Unstarted
<1>0. /\ stage \in [Run -> [Alert -> Stage]]
      /\ phase \in [Run -> Phase]
      /\ total \in [Run -> Nat]
  BY DEF TypeWeak
<1>1. ASSUME UNCHANGED total, NEW r \in Run, NEW a \in Alert, NEW s,
             stage' = [stage EXCEPT ![r][a] = s],
             stage[r][a] \in Announced <=> s \in Announced
      PROVE  At(q, Announced)' = At(q, Announced) /\ total'[q] = total[q]
  BY <1>0, <1>1 DEF At
<1>2. ASSUME UNCHANGED <<stage, total>>
      PROVE  At(q, Announced)' = At(q, Announced) /\ total'[q] = total[q]
  BY <1>2 DEF At
<1>3. ASSUME NEW r \in Run, Start(r)
      PROVE  At(q, Announced)' = At(q, Announced) /\ total'[q] = total[q]
  BY <1>0, <1>3 DEF Start, At
<1>4. ASSUME NEW r \in Run, PartitionAndStart(r)
      PROVE  At(q, Announced)' = At(q, Announced) /\ total'[q] = total[q]
  BY <1>0, <1>4 DEF PartitionAndStart, At
<1>5. ASSUME NEW S \in SUBSET Run, Forget(S)
      PROVE  At(q, Announced)' = At(q, Announced) /\ total'[q] = total[q]
  BY <1>0, <1>5 DEF Forget, At
<1>6. ASSUME NEW r \in Run, NEW a \in Alert, Route(r, a) \/ RouteUnread(r, a)
      PROVE  At(q, Announced)' = At(q, Announced) /\ total'[q] = total[q]
  BY <1>1, <1>6 DEF Route, RouteUnread, Announced, InFlight, Persist
<1>7. ASSUME NEW r \in Run, NEW a \in Alert,
             \/ Resume(r, a) \/ ResumeUnread(r, a) \/ Dispatch(r, a) \/ Worker(r, a)
             \/ OpenCheckpoint(r, a) \/ WriteCheckpoint(r, a)
             \/ CheckpointFails(r, a) \/ Upsert(r, a) \/ UpsertFails(r, a)
      PROVE  At(q, Announced)' = At(q, Announced) /\ total'[q] = total[q]
  <2>1. /\ stage[r][a] \in Announced
        /\ \E s \in Announced : stage' = [stage EXCEPT ![r][a] = s]
        /\ UNCHANGED total
    BY <1>7 DEF Resume, ResumeUnread, Dispatch, Worker, Judge, Emit, Collect,
                OpenCheckpoint, WriteCheckpoint, CheckpointFails, Upsert, UpsertFails,
                Announced, InFlight, Persist
  <2>2. QED  BY <1>1, <2>1
<1>8. ASSUME NEW r \in Run, \/ BeginFanOut(r) \/ EndFanOut(r) \/ MakeReport(r)
                            \/ Return(r) \/ WriteRun(r) \/ ScaReturns(r)
                            \/ Refuse(r) \/ Cancel(r)
      PROVE  At(q, Announced)' = At(q, Announced) /\ total'[q] = total[q]
  BY <1>2, <1>8 DEF BeginFanOut, EndFanOut, MakeReport, Return, WriteRun, ScaReturns,
                    Refuse, Cancel
<1>9. QED
  BY <1>2, <1>3, <1>4, <1>5, <1>6, <1>7, <1>8
     DEF Next, Orchestrator, RouteOrResume, Respond, Crash, vars

LEMMA TotalCountsNext ==
  TypeWeak /\ StagesAllowed /\ TotalCounts /\ [Next]_vars => TotalCounts'
<1> SUFFICES ASSUME TypeWeak, StagesAllowed, TotalCounts, [Next]_vars, NEW q \in Run,
                    phase'[q] \notin Unstarted
             PROVE  total'[q] = Cardinality(At(q, Announced)')
  BY DEF TotalCounts
<1>1. CASE phase[q] \notin Unstarted
  BY <1>1, AnnouncedKept DEF TotalCounts
<1>2. CASE phase[q] \in Unstarted
  <2>1. PartitionAndStart(q)
    <3> USE <1>2 DEF durable, local, history, Unstarted
    <3>0. phase \in [Run -> Phase]
      BY DEF TypeWeak
    <3>1. ASSUME NEW r \in Run, Start(r) \/ Refuse(r) PROVE FALSE
      BY <3>0, <3>1 DEF Start, Refuse
    <3>2. ASSUME NEW r \in Run, r # q, PartitionAndStart(r) PROVE FALSE
      BY <3>0, <3>2 DEF PartitionAndStart
    <3>3. ASSUME NEW r \in Run, \/ BeginFanOut(r) \/ EndFanOut(r) \/ MakeReport(r)
                                \/ Return(r) \/ WriteRun(r) \/ ScaReturns(r)
          PROVE  FALSE
      BY <3>0, <3>3
         DEF BeginFanOut, EndFanOut, MakeReport, Return, WriteRun, ScaReturns
    <3>4. ASSUME NEW S \in SUBSET Run, Forget(S) PROVE FALSE
      BY <3>0, <3>4 DEF Forget
    <3>5. ASSUME UNCHANGED phase PROVE FALSE
      BY <3>5
    <3>6. ASSUME NEW r \in Run, NEW a \in Alert,
                 \/ RouteOrResume(r, a) \/ Dispatch(r, a) \/ Worker(r, a)
                 \/ OpenCheckpoint(r, a) \/ WriteCheckpoint(r, a)
                 \/ CheckpointFails(r, a) \/ Upsert(r, a) \/ UpsertFails(r, a)
          PROVE  FALSE
      BY <3>5, <3>6 DEF RouteOrResume, Route, RouteUnread, Resume, ResumeUnread,
            Dispatch, Worker, Judge, Emit, Collect,
            OpenCheckpoint, WriteCheckpoint, CheckpointFails, Upsert, UpsertFails
    <3>7. ASSUME NEW r \in Run, Orchestrator(r) PROVE PartitionAndStart(q)
      <4>1. CASE PartitionAndStart(r)
        BY <3>2, <4>1
      <4>2. CASE ~PartitionAndStart(r)
        BY <3>3, <3>4, <3>6, <3>7, <4>2 DEF Orchestrator, RouteOrResume, Respond
      <4>3. QED  BY <4>1, <4>2
    <3>8. CASE Crash
      BY <3>4, <3>8 DEF Crash
    <3>9. CASE \E r \in Run : Cancel(r)
      BY <3>5, <3>9 DEF Cancel
    <3>10. CASE UNCHANGED vars
      BY <3>5, <3>10 DEF vars
    <3>11. QED  BY <3>1, <3>6, <3>7, <3>8, <3>9, <3>10 DEF Next
  <2>2. At(q, Announced)' = At(q, {"forAI"}) \ HardExcluded
    <3>1. \A a \in Alert : stage[q][a] \in {"none", "input", "forAI", "inherited"}
      BY <1>2 DEF StagesAllowed, Allowed, Unstarted
    <3>2. \A a \in Alert : stage'[q][a] = IF stage[q][a] # "forAI" THEN stage[q][a]
                                         ELSE IF a \in HardExcluded THEN "excluded"
                                         ELSE "survivor"
      BY <2>1 DEF PartitionAndStart, TypeWeak
    <3>3. \A a \in Alert :
            stage'[q][a] \in Announced <=> stage[q][a] = "forAI" /\ a \notin HardExcluded
      BY <3>1, <3>2 DEF Announced, InFlight, Persist
    <3>4. QED  BY <3>3 DEF At
  <2>3. total'[q] = Cardinality(At(q, {"forAI"}) \ HardExcluded)
    BY <2>1 DEF PartitionAndStart, TypeWeak
  <2>4. QED  BY <2>2, <2>3
<1>3. QED  BY <1>1, <1>2

LEMMA HeardOfNext == TypeWeak /\ StagesAllowed /\ HeardOf /\ [Next]_vars => HeardOf'
<1> SUFFICES ASSUME TypeWeak, StagesAllowed, HeardOf, [Next]_vars PROVE HeardOf'
  OBVIOUS
<1> USE DEF durable, local, history
<1>0. /\ stage \in [Run -> [Alert -> Stage]]
      /\ phase \in [Run -> Phase]
      /\ emitted \in [Run -> SUBSET Alert]
  BY DEF TypeWeak
<1>1. ASSUME UNCHANGED emitted, NEW r \in Run, NEW a \in Alert, NEW s,
             stage' = [stage EXCEPT ![r][a] = s],
             stage[r][a] \in Heard <=> s \in Heard
      PROVE  HeardOf'
  BY <1>0, <1>1 DEF HeardOf, At
<1>2. ASSUME UNCHANGED <<stage, emitted>> PROVE HeardOf'
  BY <1>2 DEF HeardOf, At
<1>3. ASSUME NEW r \in Run, Start(r) PROVE HeardOf'
  BY <1>0, <1>3 DEF Start, HeardOf, At, StagesAllowed, Allowed, Heard, Persist
<1>4. ASSUME NEW r \in Run, PartitionAndStart(r) PROVE HeardOf'
  BY <1>0, <1>4 DEF PartitionAndStart, HeardOf, At, Heard, Persist
<1>5. ASSUME NEW S \in SUBSET Run, Forget(S) PROVE HeardOf'
  BY <1>0, <1>5 DEF Forget, HeardOf, At, Heard, Persist
<1>6. ASSUME NEW r \in Run, NEW a \in Alert, Emit(r, a) PROVE HeardOf'
  BY <1>0, <1>6 DEF Emit, HeardOf, At, Heard, Persist
<1>7. ASSUME NEW r \in Run, NEW a \in Alert,
             RouteOrResume(r, a) \/ Dispatch(r, a) \/ Judge(r, a)
      PROVE  HeardOf'
  <2>1. CASE RouteOrResume(r, a)
    BY <1>1, <2>1, SMTT(30)
       DEF RouteOrResume, Route, RouteUnread, Resume, ResumeUnread, Heard, Persist
  <2>2. CASE Dispatch(r, a) \/ Judge(r, a)
    BY <1>1, <2>2, SMTT(30) DEF Dispatch, Judge, Heard, Persist
  <2>3. QED  BY <1>7, <2>1, <2>2
<1>8. ASSUME NEW r \in Run, NEW a \in Alert,
             \/ Collect(r, a) \/ OpenCheckpoint(r, a) \/ WriteCheckpoint(r, a)
             \/ CheckpointFails(r, a) \/ Upsert(r, a) \/ UpsertFails(r, a)
      PROVE  HeardOf'
  <2>1. /\ stage[r][a] \in Heard
        /\ \E s \in Heard : stage' = [stage EXCEPT ![r][a] = s]
        /\ UNCHANGED emitted
    BY <1>8 DEF Collect, OpenCheckpoint, WriteCheckpoint, CheckpointFails, Upsert,
                UpsertFails, Heard, Persist
  <2>2. QED  BY <1>1, <2>1
<1>9. ASSUME NEW r \in Run, \/ BeginFanOut(r) \/ EndFanOut(r) \/ MakeReport(r)
                            \/ Return(r) \/ WriteRun(r) \/ ScaReturns(r)
                            \/ Refuse(r) \/ Cancel(r)
      PROVE  HeardOf'
  BY <1>2, <1>9 DEF BeginFanOut, EndFanOut, MakeReport, Return, WriteRun, ScaReturns,
                    Refuse, Cancel
<1>10. QED
  BY <1>2, <1>3, <1>4, <1>5, <1>6, <1>7, <1>8, <1>9
     DEF Next, Orchestrator, RouteOrResume, Worker, Respond, Crash, vars

LEMMA LeftOnlyWhenCancelledNext ==
  TypeWeak /\ StagesAllowed /\ LeftOnlyWhenCancelled /\ [Next]_vars
    => LeftOnlyWhenCancelled'
<1> SUFFICES ASSUME TypeWeak, StagesAllowed, LeftOnlyWhenCancelled, [Next]_vars
             PROVE  LeftOnlyWhenCancelled'
  OBVIOUS
<1> USE DEF durable, local, history, Reporting
<1>0. /\ stage \in [Run -> [Alert -> Stage]]
      /\ phase \in [Run -> Phase]
      /\ cancelled \in [Run -> BOOLEAN]
  BY DEF TypeWeak
<1>1. ASSUME NEW r \in Run, Start(r) PROVE LeftOnlyWhenCancelled'
  BY <1>0, <1>1 DEF Start, LeftOnlyWhenCancelled, At
<1>2. ASSUME NEW r \in Run, PartitionAndStart(r) PROVE LeftOnlyWhenCancelled'
  BY <1>0, <1>2 DEF PartitionAndStart, LeftOnlyWhenCancelled, At
<1>3. ASSUME NEW r \in Run, BeginFanOut(r) PROVE LeftOnlyWhenCancelled'
  BY <1>0, <1>3 DEF BeginFanOut, LeftOnlyWhenCancelled, At
<1>4. ASSUME NEW r \in Run, EndFanOut(r) PROVE LeftOnlyWhenCancelled'
  BY <1>0, <1>4 DEF EndFanOut, FanOutOver, LeftOnlyWhenCancelled, At
<1>5. ASSUME NEW r \in Run, MakeReport(r) PROVE LeftOnlyWhenCancelled'
  BY <1>0, <1>5 DEF MakeReport, LeftOnlyWhenCancelled, At
<1>6. ASSUME NEW r \in Run, \/ Return(r) \/ WriteRun(r) \/ ScaReturns(r)
                            \/ Refuse(r)
      PROVE  LeftOnlyWhenCancelled'
  BY <1>0, <1>6 DEF Return, WriteRun, ScaReturns, Refuse, LeftOnlyWhenCancelled, At
<1>7. ASSUME NEW S \in SUBSET Run, Forget(S) PROVE LeftOnlyWhenCancelled'
  BY <1>0, <1>7 DEF Forget, LeftOnlyWhenCancelled, At
<1>8. ASSUME NEW r \in Run, Cancel(r) PROVE LeftOnlyWhenCancelled'
  BY <1>0, <1>8 DEF Cancel, LeftOnlyWhenCancelled, At
<1>9. ASSUME NEW r \in Run, NEW a \in Alert, NEW s,
             stage' = [stage EXCEPT ![r][a] = s], UNCHANGED <<phase, cancelled>>,
             s # "todo" \/ phase[r] = "resuming"
      PROVE  LeftOnlyWhenCancelled'
  BY <1>0, <1>9 DEF LeftOnlyWhenCancelled, At
<1>10. ASSUME NEW r \in Run, NEW a \in Alert,
              \/ RouteOrResume(r, a) \/ Dispatch(r, a) \/ Worker(r, a)
              \/ OpenCheckpoint(r, a) \/ WriteCheckpoint(r, a)
              \/ CheckpointFails(r, a) \/ Upsert(r, a) \/ UpsertFails(r, a)
       PROVE  LeftOnlyWhenCancelled'
  <2>1. CASE Resume(r, a) \/ ResumeUnread(r, a)
    BY <1>9, <2>1 DEF Resume, ResumeUnread
  <2>2. CASE ~(Resume(r, a) \/ ResumeUnread(r, a))
    <3>1. /\ \E s \in Stage \ {"todo"} : stage' = [stage EXCEPT ![r][a] = s]
          /\ UNCHANGED <<phase, cancelled>>
      BY <1>10, <2>2 DEF RouteOrResume, Route, RouteUnread, Dispatch, Worker, Judge,
         Emit, Collect, OpenCheckpoint, WriteCheckpoint, CheckpointFails, Upsert,
         UpsertFails, Stage, InFlight, Persist
    <3>2. QED  BY <1>9, <3>1
  <2>3. QED  BY <2>1, <2>2
<1>11. ASSUME UNCHANGED <<stage, phase, cancelled>> PROVE LeftOnlyWhenCancelled'
  BY <1>11 DEF LeftOnlyWhenCancelled, At
<1>12. QED
  BY <1>1, <1>2, <1>3, <1>4, <1>5, <1>6, <1>7, <1>8, <1>10, <1>11
     DEF Next, Orchestrator, RouteOrResume, Respond, Crash, vars

Inv3 == TypeWeak /\ StagesAllowed /\ TotalCounts /\ HeardOf /\ LeftOnlyWhenCancelled

LEMMA Inv3Holds == Spec => []Inv3
<1>1. Init => TotalCounts /\ HeardOf /\ LeftOnlyWhenCancelled
  BY DEF Init, TotalCounts, HeardOf, LeftOnlyWhenCancelled, Unstarted, Reporting, At, Heard,
        Persist
<1>2. Init => Inv3
  BY <1>1, TypeWeakInit, StagesAllowedInit DEF Inv3
<1>3. Inv3 /\ [Next]_vars => Inv3'
  BY TypeWeakNext, StagesAllowedNext, TotalCountsNext, HeardOfNext,
     LeftOnlyWhenCancelledNext DEF Inv3
<1>4. QED  BY <1>2, <1>3, PTL DEF Spec

\* run.go, for any input: when the report is made every alert is in a section of
\* it, was skipped by a checkpoint, or was left out by a cancellation; the client
\* heard of exactly the judged ones, and of their number beforehand.
THEOREM ReportAccounts == Spec => []ReportAccountsForInput
<1>1. Inv3 => ReportAccountsForInput
  <2> SUFFICES ASSUME Inv3, NEW r \in Run, phase[r] \in Reporting
               PROVE  /\ ~cancelled[r] => At(r, {"todo"}) = {}
                      /\ At(r, {"input", "forAI", "survivor"} \cup InFlight) = {}
                      /\ At(r, Persist) = emitted[r]
                      /\ total[r] = Cardinality(At(r, Persist \cup {"skipped", "todo"}))
    BY DEF ReportAccountsForInput, Reporting
  <2>1. \A a \in Alert : stage[r][a] \in Aside \cup {"todo"} \cup Persist
    BY DEF Inv3, StagesAllowed, Allowed, Reporting
  <2>2. ~cancelled[r] => At(r, {"todo"}) = {}
    BY DEF Inv3, LeftOnlyWhenCancelled
  <2>3. At(r, {"input", "forAI", "survivor"} \cup InFlight) = {}
    BY <2>1 DEF At, Aside, InFlight, Persist
  <2>4. At(r, Persist) = emitted[r]
    BY <2>1 DEF Inv3, HeardOf, At, Heard, Aside, Persist
  <2>5. At(r, Announced) = At(r, Persist \cup {"skipped", "todo"})
    BY <2>1 DEF At, Announced, Aside, InFlight, Persist
  <2>6. total[r] = Cardinality(At(r, Announced))
    BY DEF Inv3, TotalCounts, Reporting, Unstarted
  <2>7. QED  BY <2>2, <2>3, <2>4, <2>5, <2>6
<1>2. QED  BY <1>1, Inv3Holds, PTL

-----------------------------------------------------------------------------
(* The indices of the progress events.                                     *)

IndicesDense(r) ==
  /\ {number[r][a] : a \in At(r, Counted)} = 1..idx[r]
  /\ Cardinality(At(r, Counted)) = idx[r]

LEMMA DenseKept ==
  ASSUME NEW q \in Run, IndicesDense(q), At(q, Counted)' = At(q, Counted),
         idx'[q] = idx[q], number'[q] = number[q]
  PROVE  IndicesDense(q)'
BY DEF IndicesDense

\* Nothing of a run that was forgotten, or not begun, is counted.
LEMMA DenseForgotten ==
  ASSUME NEW S \in SUBSET Run, Forget(S), NEW q \in S
  PROVE  IndicesDense(q)'
<1>1. At(q, Counted)' = {}
  BY DEF Forget, At, Counted, Persist
<1>2. idx'[q] = 0
  BY DEF Forget
<1>3. Cardinality({}) = 0 /\ 1..0 = {}
  BY FS_EmptySet
<1>4. {number[q][a] : a \in At(q, Counted)}' = {}
  BY <1>1
<1>5. QED  BY <1>1, <1>2, <1>3, <1>4 DEF IndicesDense

\* idx.Add(1) gives the next index to the one alert that is counted.
LEMMA DenseCounted ==
  ASSUME TypeWeak, NEW r \in Run, NEW a \in Alert, IndicesDense(r), Judge(r, a)
  PROVE  IndicesDense(r)'
<1> USE ConstantsAssumption
<1>1. /\ At(r, Counted)' = At(r, Counted) \cup {a}
      /\ a \notin At(r, Counted)
      /\ IsFiniteSet(At(r, Counted))
  BY FS_Subset DEF Judge, TypeWeak, At, Counted, Persist
<1>2. Cardinality(At(r, Counted)') = Cardinality(At(r, Counted)) + 1
  BY <1>1, FS_AddElement
<1>3. /\ idx'[r] = idx[r] + 1
      /\ number'[r][a] = idx[r] + 1
      /\ \A b \in Alert \ {a} : number'[r][b] = number[r][b]
      /\ idx[r] \in Nat
  BY DEF Judge, TypeWeak
<1>4. {number[r][b] : b \in At(r, Counted)}'
        = {number[r][b] : b \in At(r, Counted)} \cup {idx[r] + 1}
  BY <1>1, <1>3 DEF At
<1>5. 1..(idx[r] + 1) = (1..idx[r]) \cup {idx[r] + 1}
  BY <1>3
<1>6. QED  BY <1>2, <1>3, <1>4, <1>5 DEF IndicesDense

LEMMA DenseNext ==
  TypeWeak /\ StagesAllowed /\ (\A r \in Run : IndicesDense(r)) /\ [Next]_vars
    => \A r \in Run : IndicesDense(r)'
<1> SUFFICES ASSUME TypeWeak, StagesAllowed, \A r \in Run : IndicesDense(r), [Next]_vars,
                    NEW q \in Run
             PROVE  IndicesDense(q)'
  OBVIOUS
<1> USE DEF durable, local, history
<1>0. /\ stage \in [Run -> [Alert -> Stage]]
      /\ phase \in [Run -> Phase]
      /\ number \in [Run -> [Alert -> Nat]]
      /\ idx \in [Run -> Nat]
  BY DEF TypeWeak
<1>1. ASSUME UNCHANGED <<idx, number>>, NEW r \in Run, NEW a \in Alert, NEW s,
             stage' = [stage EXCEPT ![r][a] = s],
             stage[r][a] \in Counted <=> s \in Counted
      PROVE  IndicesDense(q)'
  <2>1. At(q, Counted)' = At(q, Counted)
    BY <1>0, <1>1 DEF At
  <2>2. QED  BY <1>1, <2>1, DenseKept
<1>2. ASSUME UNCHANGED <<stage, idx, number>> PROVE IndicesDense(q)'
  BY <1>2, DenseKept DEF At
<1>3. ASSUME NEW r \in Run, Start(r) PROVE IndicesDense(q)'
  <2>1. At(q, Counted)' = At(q, Counted)
    BY <1>0, <1>3 DEF Start, At, StagesAllowed, Allowed, Counted, Persist
  <2>2. QED  BY <1>3, <2>1, DenseKept DEF Start
<1>4. ASSUME NEW r \in Run, PartitionAndStart(r) PROVE IndicesDense(q)'
  <2>1. At(q, Counted)' = At(q, Counted)
    BY <1>0, <1>4 DEF PartitionAndStart, At, Counted, Persist
  <2>2. QED  BY <1>4, <2>1, DenseKept DEF PartitionAndStart
<1>5. ASSUME NEW S \in SUBSET Run, Forget(S) PROVE IndicesDense(q)'
  <2>1. CASE q \in S
    BY <1>5, <2>1, DenseForgotten
  <2>2. CASE q \notin S
    <3>1. /\ At(q, Counted)' = At(q, Counted)
          /\ idx'[q] = idx[q]
          /\ number'[q] = number[q]
      BY <1>5, <2>2 DEF Forget, At
    <3>2. QED  BY <3>1, DenseKept
  <2>3. QED  BY <2>1, <2>2
<1>6. ASSUME NEW r \in Run, NEW a \in Alert, Judge(r, a) PROVE IndicesDense(q)'
  <2>1. CASE q = r
    BY <1>6, <2>1, DenseCounted
  <2>2. CASE q # r
    <3>1. /\ At(q, Counted)' = At(q, Counted)
          /\ idx'[q] = idx[q]
          /\ number'[q] = number[q]
      BY <1>0, <1>6, <2>2 DEF Judge, At
    <3>2. QED  BY <3>1, DenseKept
  <2>3. QED  BY <2>1, <2>2
<1>7. ASSUME NEW r \in Run, NEW a \in Alert,
             RouteOrResume(r, a) \/ Dispatch(r, a)
      PROVE  IndicesDense(q)'
  BY <1>1, <1>7 DEF RouteOrResume, Route, RouteUnread, Resume, ResumeUnread, Dispatch,
                    Counted, Persist
<1>8. ASSUME NEW r \in Run, NEW a \in Alert,
             \/ Emit(r, a) \/ Collect(r, a)
             \/ OpenCheckpoint(r, a) \/ WriteCheckpoint(r, a)
             \/ CheckpointFails(r, a) \/ Upsert(r, a) \/ UpsertFails(r, a)
      PROVE  IndicesDense(q)'
  <2>1. /\ stage[r][a] \in Counted
        /\ \E s \in Counted : stage' = [stage EXCEPT ![r][a] = s]
        /\ UNCHANGED <<idx, number>>
    BY <1>8 DEF Emit, Collect, OpenCheckpoint, WriteCheckpoint, CheckpointFails,
                Upsert, UpsertFails, Counted, Persist
  <2>2. QED  BY <1>1, <2>1
<1>9. ASSUME NEW r \in Run, \/ BeginFanOut(r) \/ EndFanOut(r) \/ MakeReport(r)
                            \/ Return(r) \/ WriteRun(r) \/ ScaReturns(r)
                            \/ Refuse(r) \/ Cancel(r)
      PROVE  IndicesDense(q)'
  BY <1>2, <1>9 DEF BeginFanOut, EndFanOut, MakeReport, Return, WriteRun, ScaReturns,
                    Refuse, Cancel
<1>10. QED
  BY <1>2, <1>3, <1>4, <1>5, <1>6, <1>7, <1>8, <1>9
     DEF Next, Orchestrator, RouteOrResume, Worker, Respond, Crash, vars

Inv4 == TypeWeak /\ StagesAllowed /\ \A r \in Run : IndicesDense(r)

LEMMA Inv4Holds == Spec => []Inv4
<1>1. ASSUME Init, NEW r \in Run PROVE IndicesDense(r)
  <2>1. At(r, Counted) = {} /\ idx[r] = 0
    BY <1>1 DEF Init, At, Counted, Persist
  <2>2. Cardinality({}) = 0 /\ 1..0 = {}
    BY FS_EmptySet
  <2>3. QED  BY <2>1, <2>2 DEF IndicesDense
<1>2. Init => Inv4
  BY <1>1, TypeWeakInit, StagesAllowedInit DEF Inv4
<1>3. Inv4 /\ [Next]_vars => Inv4'
  BY TypeWeakNext, StagesAllowedNext, DenseNext DEF Inv4
<1>4. QED  BY <1>2, <1>3, PTL DEF Spec

\* The indices that concurrent workers hand out are 1 to the count, whatever the
\* number of alerts, of workers and of runs.
THEOREM IndicesAreDense == Spec => []ProgressIndicesDense
<1>1. Inv4 => ProgressIndicesDense
  BY DEF Inv4, IndicesDense, ProgressIndicesDense, Counted
<1>2. QED  BY <1>1, Inv4Holds, PTL

-----------------------------------------------------------------------------
(* Who may overturn a stored verdict.                                      *)

Unrouted == {"none", "input", "inherited"}

\* A verdict once stored stays stored, so what a run found stored when it began is
\* still stored when the run routes its alerts, and a production run inherits it
\* unless the read fails, which makes it unknown to the run.
KnownStored == \A r \in Run : \A h \in known[r] : store[h] # "none"

KnownNotJudged ==
  \A r \in Run, a \in Alert :
    mode[r] # "experiment" /\ stage[r][a] \notin Unrouted => HashOf[a] \notin known[r]

Inv5 == TypeWeak /\ KnownStored /\ KnownNotJudged

\* The store changes by Upsert only.
LEMMA StoreStep ==
  ASSUME [Next]_vars
  PROVE  UNCHANGED store \/ \E r \in Run, a \in Alert : Upsert(r, a)
<1> USE DEF durable, local, history
<1>1. ASSUME NEW r \in Run, \/ Start(r) \/ PartitionAndStart(r) \/ BeginFanOut(r)
                            \/ EndFanOut(r) \/ MakeReport(r) \/ Return(r) \/ WriteRun(r)
                            \/ ScaReturns(r) \/ Refuse(r) \/ Respond(r) \/ Cancel(r)
      PROVE  UNCHANGED store
  BY <1>1 DEF Start, PartitionAndStart, BeginFanOut, EndFanOut, MakeReport, Return,
              WriteRun, ScaReturns, Refuse, Respond, Cancel
<1>2. ASSUME NEW r \in Run, NEW a \in Alert,
             \/ RouteOrResume(r, a) \/ Dispatch(r, a) \/ Worker(r, a)
             \/ OpenCheckpoint(r, a) \/ WriteCheckpoint(r, a)
             \/ CheckpointFails(r, a) \/ UpsertFails(r, a)
      PROVE  UNCHANGED store
  BY <1>2 DEF RouteOrResume, Route, RouteUnread, Resume, ResumeUnread, Dispatch, Worker, Judge, Emit, Collect, OpenCheckpoint,
              WriteCheckpoint, CheckpointFails, UpsertFails
<1>3. CASE Crash
  BY <1>3 DEF Crash
<1>4. CASE UNCHANGED vars
  BY <1>4 DEF vars
<1>5. QED  BY <1>1, <1>2, <1>3, <1>4 DEF Next, Orchestrator, RouteOrResume

\* Upsert never takes a verdict away.
LEMMA StoredStays ==
  ASSUME TypeWeak, [Next]_vars, NEW h \in Hash, store[h] # "none"
  PROVE  store'[h] # "none"
<1>1. CASE UNCHANGED store
  BY <1>1
<1>2. ASSUME NEW r \in Run, NEW a \in Alert, Upsert(r, a) PROVE store'[h] # "none"
  <2>1. CASE StoredVerdict(a, result[r][a]) = "none"
    BY <1>2, <2>1 DEF Upsert
  <2>2. CASE StoredVerdict(a, result[r][a]) # "none"
    BY <1>2, <2>2 DEF Upsert, TypeWeak
  <2>3. QED  BY <2>1, <2>2
<1>3. QED  BY <1>1, <1>2, StoreStep

LEMMA KnownNext == Inv5 /\ [Next]_vars => KnownStored' /\ KnownNotJudged'
<1> SUFFICES ASSUME Inv5, [Next]_vars PROVE KnownStored' /\ KnownNotJudged'
  OBVIOUS
<1> USE ConstantsAssumption DEF durable, local, history
<1>0. /\ TypeWeak /\ KnownStored /\ KnownNotJudged
      /\ known \in [Run -> SUBSET Hash]
      /\ mode \in [Run -> {"production", "experiment"}]
      /\ stage \in [Run -> [Alert -> Stage]]
      /\ store \in [Hash -> {"none", "tp", "fp"}]
  BY DEF Inv5, TypeWeak
\* A step is harmless when no run learns of a hash and no alert of it is routed.
<1>1. ASSUME \A r \in Run : \/ known'[r] = {}
                            \/ /\ known'[r] = known[r] /\ mode'[r] = mode[r]
                               /\ \A a \in Alert : stage'[r][a] \in Unrouted
                                                   \/ stage[r][a] \notin Unrouted
      PROVE  KnownStored' /\ KnownNotJudged'
  <2>1. KnownStored'
    <3>1. ASSUME NEW r \in Run, NEW h \in known'[r] PROVE store'[h] # "none"
      BY <1>0, <1>1, <3>1, StoredStays DEF KnownStored
    <3>2. QED  BY <3>1 DEF KnownStored
  <2>2. KnownNotJudged'
    BY <1>0, <1>1 DEF KnownNotJudged
  <2>3. QED  BY <2>1, <2>2
<1>2. ASSUME UNCHANGED <<known, mode, stage>> PROVE KnownStored' /\ KnownNotJudged'
  BY <1>1, <1>2
<1>3. ASSUME NEW r \in Run, Start(r) PROVE KnownStored' /\ KnownNotJudged'
  <2>1. KnownStored'
    BY <1>0, <1>3 DEF Start, KnownStored
  <2>2. /\ \A q \in Run \ {r} : /\ known'[q] = known[q] /\ mode'[q] = mode[q]
                                /\ stage'[q] = stage[q]
        /\ \A a \in Alert : stage'[r][a] \in Unrouted
    BY <1>0, <1>3 DEF Start, Unrouted
  <2>3. KnownNotJudged'
    BY <1>0, <2>2 DEF KnownNotJudged
  <2>4. QED  BY <2>1, <2>3
<1>4. ASSUME NEW r \in Run, NEW a \in Alert, Route(r, a)
      PROVE  KnownStored' /\ KnownNotJudged'
  <2>1. CASE Inherits(r, HashOf[a])
    <3>1. /\ stage' = [stage EXCEPT ![r][a] = "inherited"]
          /\ UNCHANGED <<known, mode>>
      BY <1>4, <2>1 DEF Route
    <3>2. QED  BY <1>0, <1>1, <3>1 DEF Unrouted
  <2>2. CASE ~Inherits(r, HashOf[a])
    <3>1. /\ stage' = [stage EXCEPT ![r][a] = "forAI"]
          /\ UNCHANGED <<known, mode, store>>
      BY <1>4, <2>2 DEF Route
    <3>2. mode[r] # "experiment" => HashOf[a] \notin known[r]
      <4>1. HashOf[a] \in Hash
        OBVIOUS
      <4>2. mode[r] # "experiment" => store[HashOf[a]] = "none"
        BY <1>0, <2>2, <4>1 DEF Inherits
      <4>3. QED  BY <1>0, <4>2 DEF KnownStored
    <3>3. KnownStored'
      BY <1>0, <3>1 DEF KnownStored
    <3>4. KnownNotJudged'
      BY <1>0, <3>1, <3>2 DEF KnownNotJudged
    <3>5. QED  BY <3>3, <3>4
  <2>3. QED  BY <2>1, <2>2
<1>5. ASSUME NEW r \in Run, PartitionAndStart(r) PROVE KnownStored' /\ KnownNotJudged'
  <2>1. \A q \in Run, a \in Alert : stage'[q][a] \in Unrouted \/ stage[q][a] \notin Unrouted
    BY <1>0, <1>5 DEF PartitionAndStart, Unrouted
  <2>2. UNCHANGED <<known, mode>>
    BY <1>5 DEF PartitionAndStart
  <2>3. QED  BY <1>1, <2>1, <2>2
<1>6. ASSUME NEW S \in SUBSET Run, Forget(S) PROVE KnownStored' /\ KnownNotJudged'
  <2>1. \A q \in Run : \/ known'[q] = {}
                       \/ known'[q] = known[q] /\ mode'[q] = mode[q] /\ stage'[q] = stage[q]
    BY <1>6 DEF Forget
  <2>2. QED  BY <1>1, <2>1
<1>7. ASSUME NEW r \in Run, NEW a \in Alert,
             \/ Resume(r, a) \/ ResumeUnread(r, a) \/ Dispatch(r, a) \/ Worker(r, a)
             \/ OpenCheckpoint(r, a) \/ WriteCheckpoint(r, a)
             \/ CheckpointFails(r, a) \/ Upsert(r, a) \/ UpsertFails(r, a)
      PROVE  KnownStored' /\ KnownNotJudged'
  <2>1. /\ \E s \in Stage : stage' = [stage EXCEPT ![r][a] = s]
        /\ stage[r][a] \notin Unrouted
        /\ UNCHANGED <<known, mode>>
    BY <1>7 DEF Resume, ResumeUnread, Dispatch, Worker, Judge, Emit, Collect,
                OpenCheckpoint, WriteCheckpoint, CheckpointFails, Upsert, UpsertFails, Unrouted,
                Stage, InFlight, Persist
  <2>2. QED  BY <1>0, <1>1, <2>1
<1>8. ASSUME NEW r \in Run, \/ BeginFanOut(r) \/ EndFanOut(r) \/ MakeReport(r)
                            \/ Return(r) \/ WriteRun(r) \/ ScaReturns(r)
                            \/ Refuse(r) \/ Cancel(r)
      PROVE  KnownStored' /\ KnownNotJudged'
  BY <1>2, <1>8 DEF BeginFanOut, EndFanOut, MakeReport, Return, WriteRun, ScaReturns,
                    Refuse, Cancel
\* A failed read: the run no longer counts as having seen the row it did not get.
<1>9. ASSUME NEW r \in Run, NEW a \in Alert, RouteUnread(r, a)
      PROVE  KnownStored' /\ KnownNotJudged'
  <2>1. /\ stage' = [stage EXCEPT ![r][a] = "forAI"]
        /\ known' = [known EXCEPT ![r] = @ \ {HashOf[a]}]
        /\ UNCHANGED <<mode, store>>
    BY <1>9 DEF RouteUnread
  <2>2. KnownStored'
    BY <1>0, <2>1 DEF KnownStored
  <2>3. ASSUME NEW q \in Run, NEW b \in Alert, mode'[q] # "experiment",
               stage'[q][b] \notin Unrouted
        PROVE  HashOf[b] \notin known'[q]
    <3>1. CASE q = r /\ b = a
      BY <1>0, <2>1, <3>1
    <3>2. CASE ~(q = r /\ b = a)
      <4>1. stage[q][b] \notin Unrouted
        BY <1>0, <2>1, <2>3, <3>2
      <4>2. HashOf[b] \notin known[q]
        BY <1>0, <2>1, <2>3, <4>1 DEF KnownNotJudged
      <4>3. QED  BY <1>0, <2>1, <4>2
    <3>3. QED  BY <3>1, <3>2
  <2>4. QED  BY <2>2, <2>3 DEF KnownNotJudged
<1>10. QED
  BY <1>2, <1>3, <1>4, <1>5, <1>6, <1>7, <1>8, <1>9
     DEF Next, Orchestrator, Respond, Crash, vars

LEMMA Inv5Holds == Spec => []Inv5
<1>1. Init => KnownStored /\ KnownNotJudged
  BY DEF Init, KnownStored, KnownNotJudged, Unrouted
<1>2. Init => Inv5
  BY <1>1, TypeWeakInit DEF Inv5
<1>3. Inv5 /\ [Next]_vars => Inv5'
  BY TypeWeakNext, KnownNext DEF Inv5
<1>4. QED  BY <1>2, <1>3, PTL DEF Spec

\* A stored verdict is replaced only by a run that has not seen it (an experiment, a
\* run that began before it was stored, one whose read of it failed) or under the
\* bughash of a twin, for any number of concurrent runs and of faults.
THEOREM OverturnedUnseenOnly == Spec => OverturnedOnlyUnseen
<1> DEFINE Unseen ==
      \A h \in Hash :
        store[h] # "none" /\ store'[h] # store[h] =>
          \E r \in Run, a \in Alert :
            /\ filed[r][a] = h
            /\ stage[r][a] = "saved" /\ stage'[r][a] = "stored"
            /\ \/ mode[r] = "experiment"
               \/ h \notin known[r]
               \/ HashOf[a] # h
<1>1. Inv5 /\ [Next]_vars => Unseen
  <2> SUFFICES ASSUME Inv5, [Next]_vars, NEW h \in Hash,
                      store[h] # "none", store'[h] # store[h]
               PROVE  \E r \in Run, a \in Alert :
                        /\ filed[r][a] = h
                        /\ stage[r][a] = "saved" /\ stage'[r][a] = "stored"
                        /\ \/ mode[r] = "experiment"
                           \/ h \notin known[r]
                           \/ HashOf[a] # h
    OBVIOUS
  <2>1. PICK r \in Run, a \in Alert : Upsert(r, a)
    BY StoreStep
  <2>2. /\ stage[r][a] = "saved"
        /\ stage'[r][a] = "stored"
        /\ filed[r][a] = h
    <3>1. StoredVerdict(a, result[r][a]) # "none"
      BY <2>1 DEF Upsert
    <3>2. store' = [store EXCEPT ![filed[r][a]] = StoredVerdict(a, result[r][a])]
      BY <2>1, <3>1 DEF Upsert
    <3>3. QED  BY <2>1, <3>2 DEF Upsert, Inv5, TypeWeak
  <2>3. mode[r] = "experiment" \/ HashOf[a] \notin known[r]
    BY <2>2 DEF Inv5, KnownNotJudged, Unrouted
  <2>4. QED  BY <2>2, <2>3
<1>2. Spec => [][Unseen]_vars
  BY <1>1, Inv5Holds, PTL DEF Spec
<1>3. QED  BY <1>2 DEF OverturnedOnlyUnseen

-----------------------------------------------------------------------------
(* A streamed scan is a scan.                                              *)

\* What an orchestrator's silent step is in the pipeline.
LEMMA OrchestrateIsOrchestrator ==
  ASSUME NEW r \in Run, Orchestrate(r)
  PROVE  Orchestrator(r) /\ UNCHANGED stream
BY DEF Orchestrate, Orchestrator

LEMMA StreamStepIsStep == [StreamNext]_streamVars => [Next]_vars
<1> SUFFICES ASSUME [StreamNext]_streamVars PROVE [Next]_vars
  OBVIOUS
<1>1. ASSUME NEW r \in Run, StreamStart(r) \/ StreamRefuse(r) PROVE Next
  BY <1>1 DEF StreamStart, StreamRefuse, Next
<1>2. ASSUME NEW r \in Run, SendStart(r) PROVE Next
  BY <1>2 DEF SendStart, Next, Orchestrator
<1>3. ASSUME NEW r \in Run, Orchestrate(r) \/ AttachedScanEnds(r) PROVE Next
  BY <1>3, OrchestrateIsOrchestrator DEF AttachedScanEnds, Orchestrator, Next
<1>4. ASSUME NEW r \in Run, StreamRespond(r) PROVE Next
  BY <1>4 DEF StreamRespond, Next, Orchestrator
<1>5. ASSUME NEW r \in Run, Disconnect(r) PROVE [Next]_vars
  BY <1>5 DEF Disconnect, Next
<1>6. ASSUME NEW r \in Run, Close(r) \/ Take(r) \/ Written(r) PROVE UNCHANGED vars
  BY <1>6 DEF Close, Take, Written
<1>7. ASSUME NEW r \in Run, NEW a \in Alert,
             JudgeAlert(r, a) \/ SendProgress(r, a) \/ CollectAlert(r, a)
      PROVE  Next
  BY <1>7 DEF JudgeAlert, SendProgress, CollectAlert, Next, Worker
<1>8. ASSUME StreamCrash PROVE Next
  BY <1>8 DEF StreamCrash, Next
<1>9. CASE UNCHANGED streamVars
  BY <1>9 DEF streamVars
<1>10. QED
  BY <1>1, <1>2, <1>3, <1>4, <1>5, <1>6, <1>7, <1>8, <1>9 DEF StreamNext

\* scanStreamHandler runs the same pipeline as scanHandler: the channel only
\* delays it, so whatever holds of every scan holds of a streamed one.
THEOREM StreamIsScan == StreamSpec => Spec
<1>1. StreamInit => Init
  BY DEF StreamInit
<1>2. QED  BY <1>1, StreamStepIsStep, PTL DEF StreamSpec, Spec

\* The semaphore, the indices and the report of a streamed scan.
THEOREM StreamAccounts ==
  StreamSpec => [](PermitsAccounted /\ ProgressIndicesDense /\ ReportAccountsForInput)
BY StreamIsScan, SemaphoreAccounted, IndicesAreDense, ReportAccounts, PTL

-----------------------------------------------------------------------------
(* The channel and the response.                                           *)

StreamTypeOK ==
  /\ closed \in [Run -> BOOLEAN]
  /\ drain \in [Run -> {"none", "running", "ended"}]
  /\ DOMAIN writing = Run

\* The drain lives as long as the handler, and writes only while it runs.
DrainFitsHandler ==
  \A r \in Run :
    /\ phase[r] = "idle" <=> drain[r] = "none"
    /\ drain[r] # "running" => writing[r] = NoEvent
    /\ closed[r] => Over(r)

StreamInv == TypeWeak /\ StagesAllowed /\ StreamTypeOK /\ DrainFitsHandler

LEMMA StreamInvInit == StreamInit => StreamInv
<1> SUFFICES ASSUME StreamInit PROVE StreamInv
  OBVIOUS
<1>1. TypeWeak /\ StagesAllowed
  BY TypeWeakInit, StagesAllowedInit DEF StreamInit
<1>2. StreamTypeOK
  BY Zenon DEF StreamInit, StreamTypeOK
<1>3. DrainFitsHandler
  BY DEF StreamInit, Init, DrainFitsHandler, Over
<1>4. QED  BY <1>1, <1>2, <1>3 DEF StreamInv

LEMMA StreamTypeNext ==
  ASSUME StreamTypeOK, [StreamNext]_streamVars
  PROVE  StreamTypeOK'
<1> USE DEF StreamTypeOK, stream
<1>1. ASSUME NEW r \in Run, StreamStart(r) \/ StreamRefuse(r) PROVE StreamTypeOK'
  BY <1>1 DEF StreamStart, StreamRefuse
<1>2. ASSUME NEW r \in Run, \/ SendStart(r) \/ Orchestrate(r) \/ AttachedScanEnds(r)
                            \/ Disconnect(r)
      PROVE  StreamTypeOK'
  BY <1>2 DEF SendStart, Send, Orchestrate, AttachedScanEnds, Disconnect
<1>3. ASSUME NEW r \in Run, NEW a \in Alert,
             JudgeAlert(r, a) \/ SendProgress(r, a) \/ CollectAlert(r, a)
      PROVE  StreamTypeOK'
  BY <1>3 DEF Send, JudgeAlert, SendProgress, CollectAlert
<1>4. ASSUME NEW r \in Run, Close(r) PROVE StreamTypeOK'
  <2>1. closed' = [closed EXCEPT ![r] = TRUE] /\ UNCHANGED <<drain, writing>>
    BY <1>4 DEF Close
  <2>2. closed' \in [Run -> BOOLEAN]
    BY <2>1, Zenon
  <2>3. QED  BY <2>1, <2>2
<1>5. ASSUME NEW r \in Run, StreamRespond(r) PROVE StreamTypeOK'
  <2>1. closed' = [closed EXCEPT ![r] = FALSE] /\ UNCHANGED writing
    BY <1>5 DEF StreamRespond
  <2>2. closed' \in [Run -> BOOLEAN]
    BY <2>1, Zenon
  <2>3. drain' \in [Run -> {"none", "running", "ended"}]
    BY <1>5 DEF StreamRespond
  <2>4. QED  BY <2>1, <2>2, <2>3
<1>6. ASSUME NEW r \in Run, Take(r) \/ Written(r) PROVE StreamTypeOK'
  <2>1. closed' = closed
    BY <1>6 DEF Take, Written
  <2>2. drain' \in [Run -> {"none", "running", "ended"}]
    BY <1>6 DEF Take, Written
  <2>3. DOMAIN writing' = Run
    BY <1>6 DEF Take, Written
  <2>4. QED  BY <2>1, <2>2, <2>3
<1>7. ASSUME StreamCrash PROVE StreamTypeOK'
  <2>1. closed' = [r \in Run |-> FALSE]
    BY <1>7 DEF StreamCrash
  <2>2. closed' \in [Run -> BOOLEAN]
    BY <2>1, Zenon
  <2>3. drain' \in [Run -> {"none", "running", "ended"}] /\ DOMAIN writing' = Run
    BY <1>7 DEF StreamCrash
  <2>4. QED  BY <2>2, <2>3
<1>8. CASE UNCHANGED streamVars
  BY <1>8 DEF streamVars
<1>9. QED
  BY <1>1, <1>2, <1>3, <1>4, <1>5, <1>6, <1>7, <1>8 DEF StreamNext

LEMMA DrainFitsHandlerNext ==
  ASSUME TypeWeak, StreamTypeOK, DrainFitsHandler, [StreamNext]_streamVars
  PROVE  DrainFitsHandler'
<1> USE DEF DrainFitsHandler, Over, stream, durable, local, history
<1>0. /\ phase \in [Run -> Phase]
      /\ drain \in [Run -> {"none", "running", "ended"}]
      /\ DOMAIN writing = Run
      /\ closed \in [Run -> BOOLEAN]
  BY DEF TypeWeak, StreamTypeOK
<1>1. ASSUME NEW r \in Run, StreamStart(r) \/ StreamRefuse(r) PROVE DrainFitsHandler'
  BY <1>0, <1>1 DEF StreamStart, Start, StreamRefuse, Refuse
<1>2. ASSUME UNCHANGED <<phase, closed, drain, writing>> PROVE DrainFitsHandler'
  BY <1>2
<1>3. ASSUME NEW r \in Run, UNCHANGED <<closed, drain, writing>>,
             phase[r] # "idle", ~Over(r),
             \E p \in Phase \ {"idle"} : phase' = [phase EXCEPT ![r] = p]
      PROVE  DrainFitsHandler'
  BY <1>0, <1>3
<1>4. ASSUME NEW r \in Run, SendStart(r) PROVE DrainFitsHandler'
  BY <1>3, <1>4 DEF SendStart, Send, PartitionAndStart, Phase
<1>5. ASSUME NEW r \in Run, Orchestrate(r) \/ AttachedScanEnds(r)
      PROVE  DrainFitsHandler'
  <2>0. UNCHANGED <<closed, drain, writing>>
    BY <1>5 DEF Orchestrate, AttachedScanEnds
  <2>1. ASSUME NEW a \in Alert,
               \/ RouteOrResume(r, a) \/ Dispatch(r, a)
               \/ OpenCheckpoint(r, a) \/ WriteCheckpoint(r, a) \/ CheckpointFails(r, a)
               \/ Upsert(r, a) \/ UpsertFails(r, a)
        PROVE  DrainFitsHandler'
    <3>1. UNCHANGED phase
      BY <2>1 DEF RouteOrResume, Route, RouteUnread, Resume, ResumeUnread, Dispatch,
                  OpenCheckpoint, WriteCheckpoint, CheckpointFails, Upsert, UpsertFails
    <3>2. QED  BY <1>2, <2>0, <3>1
  <2>2. CASE \/ BeginFanOut(r) \/ EndFanOut(r) \/ MakeReport(r) \/ Return(r)
             \/ WriteRun(r) \/ ScaReturns(r)
    <3>1. /\ phase[r] # "idle" /\ ~Over(r)
          /\ \E p \in Phase \ {"idle"} : phase' = [phase EXCEPT ![r] = p]
      BY <2>2 DEF BeginFanOut, EndFanOut, MakeReport, Return, WriteRun, ScaReturns, Phase
    <3>2. QED  BY <1>3, <2>0, <3>1
  <2>3. QED  BY <1>5, <2>1, <2>2 DEF Orchestrate, AttachedScanEnds, RouteOrResume
<1>6. ASSUME NEW r \in Run, NEW a \in Alert,
             JudgeAlert(r, a) \/ SendProgress(r, a) \/ CollectAlert(r, a)
      PROVE  DrainFitsHandler'
  BY <1>2, <1>6 DEF JudgeAlert, SendProgress, CollectAlert, Judge, Emit, Collect, Send
<1>7. ASSUME NEW r \in Run, Close(r) PROVE DrainFitsHandler'
  BY <1>0, <1>7 DEF Close, vars
<1>8. ASSUME NEW r \in Run, StreamRespond(r) PROVE DrainFitsHandler'
  <2>1. /\ \A q \in Run : phase'[q] = IF q = r THEN "idle" ELSE phase[q]
        /\ \A q \in Run : drain'[q] = IF q = r THEN "none" ELSE drain[q]
        /\ \A q \in Run : closed'[q] = IF q = r THEN FALSE ELSE closed[q]
        /\ writing' = writing
        /\ drain[r] = "ended"
    BY <1>0, <1>8 DEF StreamRespond, MayReturn, Respond, Forget
  <2>2. ASSUME NEW q \in Run
        PROVE  /\ phase'[q] = "idle" <=> drain'[q] = "none"
               /\ drain'[q] # "running" => writing'[q] = NoEvent
               /\ closed'[q] => Over(q)'
    <3>1. CASE q = r
      BY <2>1, <3>1
    <3>2. CASE q # r
      BY <2>1, <3>2
    <3>3. QED  BY <3>1, <3>2
  <2>3. QED  BY <2>2
<1>9. ASSUME NEW r \in Run, Take(r) PROVE DrainFitsHandler'
  <2>1. /\ UNCHANGED <<phase, closed, drain>>
        /\ drain[r] = "running"
        /\ \A q \in Run \ {r} : writing'[q] = writing[q]
    BY <1>0, <1>9 DEF Take, vars
  <2>2. QED  BY <1>0, <2>1
<1>10. ASSUME NEW r \in Run, Written(r) PROVE DrainFitsHandler'
  <2>1. /\ UNCHANGED <<phase, closed>>
        /\ drain[r] = "running"
        /\ \A q \in Run \ {r} : writing'[q] = writing[q] /\ drain'[q] = drain[q]
        /\ drain'[r] \in {"running", "ended"}
        /\ writing'[r] = NoEvent
    BY <1>0, <1>10 DEF Written, vars
  <2>2. QED  BY <1>0, <2>1
<1>11. ASSUME NEW r \in Run, Disconnect(r) PROVE DrainFitsHandler'
  BY <1>2, <1>11 DEF Disconnect, Cancel, vars
<1>12. ASSUME StreamCrash PROVE DrainFitsHandler'
  BY <1>12 DEF StreamCrash, Crash, Forget
<1>13. CASE UNCHANGED streamVars
  BY <1>2, <1>13 DEF streamVars, vars
<1>14. QED
  BY <1>1, <1>4, <1>5, <1>6, <1>7, <1>8, <1>9, <1>10, <1>11, <1>12, <1>13
     DEF StreamNext

LEMMA StreamInvHolds == StreamSpec => []StreamInv
<1>1. StreamInv /\ [StreamNext]_streamVars => StreamInv'
  BY StreamStepIsStep, TypeWeakNext, StagesAllowedNext, StreamTypeNext,
     DrainFitsHandlerNext DEF StreamInv
<1>2. QED  BY <1>1, StreamInvInit, PTL DEF StreamSpec

\* close(evCh) comes after the last worker's send, and the handler returns only
\* when the drain has written its last byte: no send on a closed channel, no write
\* to a response that is gone.
THEOREM ChannelKept == StreamSpec => []ChannelDiscipline
<1>1. StreamInv => ChannelDiscipline
  <2> SUFFICES ASSUME StreamInv, NEW r \in Run
               PROVE  /\ closed[r] => /\ At(r, {"judging", "counted"}) = {}
                                      /\ Over(r)
                      /\ phase[r] = "idle" => /\ drain[r] = "none"
                                              /\ writing[r] = NoEvent
    BY DEF ChannelDiscipline
  <2>1. closed[r] => Over(r)
    BY DEF StreamInv, DrainFitsHandler
  <2>2. Over(r) => At(r, {"judging", "counted"}) = {}
    BY DEF StreamInv, StagesAllowed, Allowed, Aside, Persist, At, Over
  <2>3. phase[r] = "idle" => drain[r] = "none" /\ writing[r] = NoEvent
    BY DEF StreamInv, DrainFitsHandler
  <2>4. QED  BY <2>1, <2>2, <2>3
<1>2. QED  BY <1>1, StreamInvHolds, PTL

-----------------------------------------------------------------------------
(* What the client is told.  Events go from the worker that sends them     *)
(* through the channel and the drain to the client.  Each index an alert   *)
(* was announced with is in one of the three places, once; the start is in *)
(* front of everything else; and the drain takes up done when the channel  *)
(* is closed and empty, so that nothing is behind it.  When the client is  *)
(* gone the places in front of it no longer matter.                        *)

Event == [kind : {"none", "start", "progress", "done"}, n : Nat]

NumberOf(event) == IF event.kind = "progress" THEN {event.n} ELSE {}

Numbers(events) == UNION {NumberOf(events[i]) : i \in DOMAIN events}

Distinct(events) ==
  \A i, j \in DOMAIN events :
    i # j => NumberOf(events[i]) \cap NumberOf(events[j]) = {}

NoStart(events, from) == \A i \in DOMAIN events : i >= from => events[i].kind # "start"

\* What the client got, of a scan of t alerts that has sent the indices in sent.
GotWell(got, t, sent) ==
  /\ got \in Seq(Event)
  /\ got # << >> => got[1] = StartEvent(t)
  /\ NoStart(got, 2)
  /\ Distinct(got)
  /\ Numbers(got) \subseteq sent
  /\ \A i \in DOMAIN got :
       got[i].kind = "done" => i = Len(got) /\ sent \subseteq Numbers(got)

\* What is on its way to it: the event w the drain is writing and the channel ch.
LineWell(got, w, ch, sent) ==
  /\ w \in Event
  /\ ch \in Seq(Event)
  /\ \A i \in DOMAIN ch : ch[i].kind \in {"start", "progress"}
  /\ w.kind = "done" => w = DoneEvent /\ ch = << >>
  /\ w.kind = "none" => w = NoEvent
  /\ Distinct(ch)
  /\ NumberOf(w) \cup Numbers(ch) \subseteq sent
  /\ NumberOf(w) \cap Numbers(ch) = {}
  /\ (NumberOf(w) \cup Numbers(ch)) \cap Numbers(got) = {}

\* While the client stays every index sent is on its way or there, ...
AllComing(got, w, ch, sent) == sent \subseteq Numbers(got) \cup NumberOf(w) \cup Numbers(ch)

\* ... and so is the start, before everything else.
StartComing(got, w, ch, t) ==
  \/ got # << >> /\ w.kind # "start" /\ NoStart(ch, 1)
  \/ got = << >> /\ w = StartEvent(t) /\ NoStart(ch, 1)
  \/ got = << >> /\ w = NoEvent /\ ch # << >> /\ ch[1] = StartEvent(t) /\ NoStart(ch, 2)

Sent(r) == {number[r][a] : a \in emitted[r]}

Unannounced(r) == phase[r] \in {"idle", "routing"}

Told(r) ==
  /\ Unannounced(r) => received[r] = << >> /\ writing[r] = NoEvent /\ channel[r] = << >>
  /\ GotWell(received[r], total[r], Sent(r))
  /\ LineWell(received[r], writing[r], channel[r], Sent(r))
  /\ ~gone[r] => AllComing(received[r], writing[r], channel[r], Sent(r))
  /\ ~gone[r] /\ ~Unannounced(r) =>
       StartComing(received[r], writing[r], channel[r], total[r])
  /\ writing[r].kind = "done" => closed[r]
  /\ drain[r] = "ended" => closed[r] /\ channel[r] = << >>
  /\ (\E i \in DOMAIN received[r] : received[r][i].kind = "done") => drain[r] = "ended"

\* A run that was refused before it started sends nothing; its client gets done.
ToldRefused(r) ==
  /\ channel[r] = << >>
  /\ writing[r] \in {NoEvent, DoneEvent}
  /\ received[r] \in {<< >>, <<DoneEvent>>}
  /\ writing[r] = DoneEvent => closed[r] /\ received[r] = << >>
  /\ received[r] = <<DoneEvent>> => drain[r] = "ended"

Informed(r) == IF phase[r] = "refused" THEN ToldRefused(r) ELSE Told(r)

LEMMA EventTypes ==
  /\ NoEvent \in Event /\ NoEvent.kind = "none"
  /\ DoneEvent \in Event /\ DoneEvent.kind = "done"
  /\ \A n \in Nat : /\ StartEvent(n) \in Event /\ StartEvent(n).kind = "start"
                    /\ ProgressEvent(n) \in Event /\ ProgressEvent(n).kind = "progress"
                    /\ ProgressEvent(n).n = n
BY DEF Event, NoEvent, DoneEvent, StartEvent, ProgressEvent

LEMMA EmptyEvents ==
  /\ << >> \in Seq(Event)
  /\ Numbers(<< >>) = {}
  /\ Distinct(<< >>)
  /\ \A n : NoStart(<< >>, n)
BY DEF Numbers, Distinct, NoStart

\* One more event behind the others.
LEMMA AppendedEvent ==
  ASSUME NEW ev \in Seq(Event), NEW e \in Event
  PROVE  /\ Append(ev, e) \in Seq(Event)
         /\ Numbers(Append(ev, e)) = Numbers(ev) \cup NumberOf(e)
         /\ Distinct(ev) /\ NumberOf(e) \cap Numbers(ev) = {} => Distinct(Append(ev, e))
         /\ \A n \in Nat : NoStart(ev, n) /\ (e.kind # "start" \/ Len(ev) + 1 < n)
                             => NoStart(Append(ev, e), n)
<1> DEFINE longer == Append(ev, e)
<1>1. /\ longer \in Seq(Event)
      /\ DOMAIN ev = 1 .. Len(ev) /\ Len(ev) \in Nat
      /\ DOMAIN longer = 1 .. Len(ev) + 1
      /\ \A i \in DOMAIN ev : longer[i] = ev[i]
      /\ longer[Len(ev) + 1] = e
  OBVIOUS
<1> HIDE DEF longer
<1>2. DOMAIN longer = DOMAIN ev \cup {Len(ev) + 1}
  BY <1>1
<1>3. Numbers(longer) = Numbers(ev) \cup NumberOf(e)
  BY <1>1, <1>2, Zenon DEF Numbers
<1>4. Distinct(ev) /\ NumberOf(e) \cap Numbers(ev) = {} => Distinct(longer)
  <2> SUFFICES ASSUME Distinct(ev), NumberOf(e) \cap Numbers(ev) = {},
                      NEW i \in DOMAIN longer, NEW j \in DOMAIN longer, i # j
               PROVE  NumberOf(longer[i]) \cap NumberOf(longer[j]) = {}
    BY DEF Distinct
  <2>1. CASE i \in DOMAIN ev /\ j \in DOMAIN ev
    BY <1>1, <2>1 DEF Distinct
  <2>2. CASE i = Len(ev) + 1 /\ j \in DOMAIN ev
    BY <1>1, <2>2 DEF Numbers
  <2>3. CASE j = Len(ev) + 1 /\ i \in DOMAIN ev
    BY <1>1, <2>3 DEF Numbers
  <2>4. QED  BY <1>2, <2>1, <2>2, <2>3
<1>5. \A n \in Nat : NoStart(ev, n) /\ (e.kind # "start" \/ Len(ev) + 1 < n)
                       => NoStart(longer, n)
  BY <1>1, <1>2 DEF NoStart
<1>6. QED  BY <1>1, <1>3, <1>4, <1>5 DEF longer

\* One event less in front of the others.
LEMMA TakenEvent ==
  ASSUME NEW ev \in Seq(Event), ev # << >>
  PROVE  /\ Head(ev) \in Event /\ Head(ev) = ev[1] /\ Tail(ev) \in Seq(Event)
         /\ \A i \in DOMAIN Tail(ev) : i + 1 \in DOMAIN ev /\ Tail(ev)[i] = ev[i + 1]
         /\ 1 \in DOMAIN ev
         /\ Numbers(ev) = NumberOf(Head(ev)) \cup Numbers(Tail(ev))
         /\ Distinct(ev) => /\ Distinct(Tail(ev))
                            /\ NumberOf(Head(ev)) \cap Numbers(Tail(ev)) = {}
         /\ NoStart(ev, 1) => NoStart(Tail(ev), 1) /\ Head(ev).kind # "start"
         /\ NoStart(ev, 2) => NoStart(Tail(ev), 1)
<1> DEFINE rest == Tail(ev)
<1>1. /\ Head(ev) \in Event /\ Head(ev) = ev[1] /\ rest \in Seq(Event)
      /\ DOMAIN ev = 1 .. Len(ev) /\ Len(ev) \in Nat \ {0}
      /\ DOMAIN rest = 1 .. Len(ev) - 1
      /\ \A i \in DOMAIN rest : rest[i] = ev[i + 1]
  OBVIOUS
<1> HIDE DEF rest
<1>2. /\ 1 \in DOMAIN ev
      /\ \A i \in DOMAIN rest : i \in Nat /\ i >= 1 /\ i + 1 \in DOMAIN ev
      /\ \A i \in DOMAIN ev : i = 1 \/ (i - 1 \in DOMAIN rest /\ rest[i - 1] = ev[i])
  BY <1>1
<1>3. Numbers(ev) = NumberOf(Head(ev)) \cup Numbers(rest)
  <2>1. ASSUME NEW x \in Numbers(ev) PROVE x \in NumberOf(Head(ev)) \cup Numbers(rest)
    <3>1. PICK i \in DOMAIN ev : x \in NumberOf(ev[i])
      BY <2>1 DEF Numbers
    <3>2. CASE i = 1
      BY <1>1, <3>1, <3>2
    <3>3. CASE i # 1
      BY <1>2, <3>1, <3>3, Zenon DEF Numbers
    <3>4. QED  BY <3>2, <3>3
  <2>2. ASSUME NEW x \in Numbers(rest) PROVE x \in Numbers(ev)
    <3>1. PICK i \in DOMAIN rest : x \in NumberOf(rest[i])
      BY <2>2 DEF Numbers
    <3>2. x \in NumberOf(ev[i + 1]) /\ i + 1 \in DOMAIN ev
      BY <1>1, <1>2, <3>1
    <3>3. QED  BY <3>2 DEF Numbers
  <2>3. NumberOf(Head(ev)) \subseteq Numbers(ev)
    BY <1>1, <1>2 DEF Numbers
  <2>4. QED  BY <2>1, <2>2, <2>3
<1>4. Distinct(ev) => Distinct(rest) /\ NumberOf(Head(ev)) \cap Numbers(rest) = {}
  <2> SUFFICES ASSUME Distinct(ev)
               PROVE  Distinct(rest) /\ NumberOf(Head(ev)) \cap Numbers(rest) = {}
    OBVIOUS
  <2>1. ASSUME NEW i \in DOMAIN rest, NEW j \in DOMAIN rest, i # j
        PROVE  NumberOf(rest[i]) \cap NumberOf(rest[j]) = {}
    <3>1. i + 1 # j + 1
      BY <1>2, <2>1
    <3>2. NumberOf(ev[i + 1]) \cap NumberOf(ev[j + 1]) = {}
      BY <1>2, <3>1, Zenon DEF Distinct
    <3>3. QED  BY <1>1, <3>2
  <2>2. ASSUME NEW i \in DOMAIN rest PROVE NumberOf(Head(ev)) \cap NumberOf(rest[i]) = {}
    <3>1. i + 1 # 1
      BY <1>2
    <3>2. NumberOf(ev[1]) \cap NumberOf(ev[i + 1]) = {}
      BY <1>2, <3>1, Zenon DEF Distinct
    <3>3. QED  BY <1>1, <3>2
  <2>3. NumberOf(Head(ev)) \cap Numbers(rest) = {}
    BY <2>2 DEF Numbers
  <2>4. QED  BY <2>1, <2>3 DEF Distinct
<1>5. /\ NoStart(ev, 1) => NoStart(rest, 1) /\ Head(ev).kind # "start"
      /\ NoStart(ev, 2) => NoStart(rest, 1)
  BY <1>1, <1>2 DEF NoStart
<1>6. QED  BY <1>1, <1>2, <1>3, <1>4, <1>5 DEF rest

-----------------------------------------------------------------------------
(* What each step does to the stream.                                      *)

LEMMA StartSent ==
  ASSUME NEW t \in Nat, NEW sent, LineWell(<< >>, NoEvent, << >>, sent),
         NEW ch, ch = Append(<< >>, StartEvent(t))
  PROVE  /\ LineWell(<< >>, NoEvent, ch, sent)
         /\ StartComing(<< >>, NoEvent, ch, t)
         /\ AllComing(<< >>, NoEvent, << >>, sent) => AllComing(<< >>, NoEvent, ch, sent)
<1> DEFINE e == StartEvent(t)
<1>1. e \in Event /\ e.kind = "start" /\ NumberOf(e) = {} /\ NumberOf(NoEvent) = {}
  BY EventTypes DEF NumberOf
<1>2. /\ ch \in Seq(Event) /\ Numbers(ch) = {} /\ Distinct(ch)
  BY <1>1, EmptyEvents, AppendedEvent
<1>3. DOMAIN ch = {1} /\ ch # << >> /\ ch[1] = e /\ NoStart(ch, 2)
  BY <1>1 DEF NoStart
<1>4. LineWell(<< >>, NoEvent, ch, sent)
  BY <1>1, <1>2, <1>3, EventTypes, EmptyEvents DEF LineWell
<1>5. StartComing(<< >>, NoEvent, ch, t)
  BY <1>3 DEF StartComing
<1>6. Numbers(ch) = Numbers(<< >>)
  BY <1>2, EmptyEvents
<1>7. QED  BY <1>4, <1>5, <1>6 DEF AllComing

LEMMA ProgressSent ==
  ASSUME NEW got, NEW w, NEW ch, NEW t, NEW sent, NEW n \in Nat, n \notin sent,
         GotWell(got, t, sent), LineWell(got, w, ch, sent), w.kind # "done",
         \A i \in DOMAIN got : got[i].kind # "done",
         NEW longer, longer = Append(ch, ProgressEvent(n))
  PROVE  /\ GotWell(got, t, sent \cup {n})
         /\ LineWell(got, w, longer, sent \cup {n})
         /\ AllComing(got, w, ch, sent) => AllComing(got, w, longer, sent \cup {n})
         /\ StartComing(got, w, ch, t) => StartComing(got, w, longer, t)
<1> DEFINE e == ProgressEvent(n)
<1>1. e \in Event /\ e.kind = "progress" /\ NumberOf(e) = {n}
  BY EventTypes DEF NumberOf
<1>2. ch \in Seq(Event) /\ Numbers(ch) \subseteq sent /\ Distinct(ch)
  BY DEF LineWell
<1>3. /\ longer \in Seq(Event)
      /\ Numbers(longer) = Numbers(ch) \cup {n}
      /\ Distinct(longer)
      /\ \A k \in Nat : NoStart(ch, k) => NoStart(longer, k)
  BY <1>1, <1>2, AppendedEvent
<1>4. \A i \in DOMAIN longer : longer[i] = e \/ (i \in DOMAIN ch /\ longer[i] = ch[i])
  BY <1>1, <1>2
<1>5. ch # << >> => longer # << >> /\ longer[1] = ch[1]
  BY <1>1, <1>2
<1>6. GotWell(got, t, sent \cup {n})
  BY DEF GotWell
<1>7. LineWell(got, w, longer, sent \cup {n})
  <2>1. NumberOf(w) \subseteq sent /\ Numbers(got) \subseteq sent
    BY DEF LineWell, GotWell
  <2>2. \A i \in DOMAIN longer : longer[i].kind \in {"start", "progress"}
    BY <1>1, <1>4 DEF LineWell
  <2>3. QED  BY <1>3, <2>1, <2>2 DEF LineWell
<1>8. AllComing(got, w, ch, sent) => AllComing(got, w, longer, sent \cup {n})
  BY <1>3 DEF AllComing
<1>9. StartComing(got, w, ch, t) => StartComing(got, w, longer, t)
  BY <1>3, <1>5 DEF StartComing
<1>10. QED  BY <1>6, <1>7, <1>8, <1>9

LEMMA EventTaken ==
  ASSUME NEW got, NEW ch, NEW t, NEW sent, LineWell(got, NoEvent, ch, sent), ch # << >>
  PROVE  /\ LineWell(got, Head(ch), Tail(ch), sent)
         /\ Head(ch).kind # "done"
         /\ AllComing(got, NoEvent, ch, sent) => AllComing(got, Head(ch), Tail(ch), sent)
         /\ StartComing(got, NoEvent, ch, t) => StartComing(got, Head(ch), Tail(ch), t)
<1> DEFINE e == Head(ch)  rest == Tail(ch)
<1>1. ch \in Seq(Event) /\ Distinct(ch)
  BY DEF LineWell
<1>2. /\ e \in Event /\ e = ch[1] /\ rest \in Seq(Event)
      /\ \A i \in DOMAIN rest : i + 1 \in DOMAIN ch /\ rest[i] = ch[i + 1]
      /\ 1 \in DOMAIN ch
      /\ Numbers(ch) = NumberOf(e) \cup Numbers(rest)
      /\ Distinct(rest) /\ NumberOf(e) \cap Numbers(rest) = {}
      /\ NoStart(ch, 1) => NoStart(rest, 1) /\ e.kind # "start"
      /\ NoStart(ch, 2) => NoStart(rest, 1)
  BY <1>1, TakenEvent
<1> HIDE DEF e, rest
<1>3. NumberOf(NoEvent) = {}
  BY EventTypes DEF NumberOf
<1>4. e.kind \in {"start", "progress"}
  BY <1>2 DEF LineWell
<1>5. LineWell(got, e, rest, sent)
  <2>1. \A i \in DOMAIN rest : rest[i].kind \in {"start", "progress"}
    BY <1>2 DEF LineWell
  <2>2. NumberOf(e) \cup Numbers(rest) \subseteq sent
    BY <1>2 DEF LineWell
  <2>3. (NumberOf(e) \cup Numbers(rest)) \cap Numbers(got) = {}
    BY <1>2 DEF LineWell
  <2>4. QED  BY <1>2, <1>4, <2>1, <2>2, <2>3 DEF LineWell
<1>6. AllComing(got, NoEvent, ch, sent) => AllComing(got, e, rest, sent)
  BY <1>2, <1>3 DEF AllComing
<1>7. StartComing(got, NoEvent, ch, t) => StartComing(got, e, rest, t)
  BY <1>2, EventTypes DEF StartComing, NoEvent, StartEvent
<1>8. QED  BY <1>4, <1>5, <1>6, <1>7 DEF e, rest

LEMMA DoneTaken ==
  ASSUME NEW got, NEW t, NEW sent, LineWell(got, NoEvent, << >>, sent)
  PROVE  /\ LineWell(got, DoneEvent, << >>, sent)
         /\ AllComing(got, NoEvent, << >>, sent) => AllComing(got, DoneEvent, << >>, sent)
         /\ StartComing(got, NoEvent, << >>, t) => StartComing(got, DoneEvent, << >>, t)
<1>1. NumberOf(NoEvent) = {} /\ NumberOf(DoneEvent) = {}
  BY EventTypes DEF NumberOf
<1>2. LineWell(got, DoneEvent, << >>, sent)
  BY <1>1, EventTypes DEF LineWell
<1>3. AllComing(got, NoEvent, << >>, sent) => AllComing(got, DoneEvent, << >>, sent)
  BY <1>1 DEF AllComing
<1>4. StartComing(got, NoEvent, << >>, t) => StartComing(got, DoneEvent, << >>, t)
  BY EventTypes DEF StartComing, NoEvent, StartEvent
<1>5. QED  BY <1>2, <1>3, <1>4

\* The client stays: it gets what the drain was writing.
LEMMA EventGot ==
  ASSUME NEW got, NEW w, NEW ch, NEW t \in Nat, NEW sent, w # NoEvent,
         GotWell(got, t, sent), LineWell(got, w, ch, sent),
         AllComing(got, w, ch, sent), StartComing(got, w, ch, t),
         \A i \in DOMAIN got : got[i].kind # "done",
         NEW more, more = Append(got, w)
  PROVE  /\ GotWell(more, t, sent)
         /\ LineWell(more, NoEvent, ch, sent)
         /\ AllComing(more, NoEvent, ch, sent)
         /\ StartComing(more, NoEvent, ch, t)
<1>0. /\ got \in Seq(Event) /\ w \in Event /\ Distinct(got)
      /\ NumberOf(w) \cap Numbers(got) = {}
      /\ w.kind # "none" /\ Len(got) \in Nat
  BY DEF GotWell, LineWell
<1>1. /\ more \in Seq(Event)
      /\ Numbers(more) = Numbers(got) \cup NumberOf(w)
      /\ Distinct(more)
      /\ \A n \in Nat : NoStart(got, n) /\ (w.kind # "start" \/ Len(got) + 1 < n)
                          => NoStart(more, n)
  BY <1>0, AppendedEvent
<1>2. /\ DOMAIN more = 1 .. Len(got) + 1 /\ Len(more) = Len(got) + 1
      /\ \A i \in DOMAIN got : more[i] = got[i]
      /\ more[Len(got) + 1] = w
      /\ DOMAIN got = 1 .. Len(got)
      /\ more # << >>
      /\ got = << >> => Len(got) = 0
      /\ got # << >> => Len(got) > 0
  BY <1>0
<1>3. NumberOf(NoEvent) = {}
  BY EventTypes DEF NumberOf
<1>4. /\ more[1] = StartEvent(t)
      /\ NoStart(more, 2)
  <2>1. CASE got # << >>
    <3>1. w.kind # "start" /\ got[1] = StartEvent(t) /\ 1 \in DOMAIN got
      BY <1>2, <2>1 DEF StartComing, GotWell
    <3>2. QED  BY <1>1, <1>2, <3>1 DEF GotWell
  <2>2. CASE got = << >>
    <3>1. w = StartEvent(t)
      BY <2>2 DEF StartComing
    <3>2. Len(got) + 1 = 1
      BY <1>2, <2>2
    <3>3. more[1] = w
      BY <1>2, <3>2
    <3>4. NoStart(more, 2)
      BY <1>2, <3>2 DEF NoStart
    <3>5. QED  BY <3>1, <3>3, <3>4
  <2>3. QED  BY <2>1, <2>2
<1>5. \A i \in DOMAIN more :
        more[i].kind = "done" => i = Len(more) /\ sent \subseteq Numbers(more)
  <2> SUFFICES ASSUME NEW i \in DOMAIN more, more[i].kind = "done"
               PROVE  i = Len(more) /\ sent \subseteq Numbers(more)
    OBVIOUS
  <2>1. i = Len(got) + 1
    BY <1>2
  <2>2. w.kind = "done"
    BY <1>2, <2>1
  <2>3. ch = << >>
    BY <2>2 DEF LineWell
  <2>4. sent \subseteq Numbers(more)
    BY <1>1, <2>3, EmptyEvents DEF AllComing
  <2>5. QED  BY <1>2, <2>1, <2>4
<1>6. GotWell(more, t, sent)
  <2>1. Numbers(more) \subseteq sent
    BY <1>1 DEF GotWell, LineWell
  <2>2. QED  BY <1>1, <1>4, <1>5, <2>1 DEF GotWell
<1>7. LineWell(more, NoEvent, ch, sent)
  <2>1. Numbers(ch) \cap Numbers(more) = {}
    BY <1>1 DEF LineWell
  <2>2. QED  BY <1>3, <2>1, EventTypes DEF LineWell
<1>8. AllComing(more, NoEvent, ch, sent)
  BY <1>1 DEF AllComing
<1>9. StartComing(more, NoEvent, ch, t)
  <2>1. NoStart(ch, 1)
    BY DEF StartComing
  <2>2. QED  BY <1>2, <2>1, EventTypes DEF StartComing
<1>10. QED  BY <1>6, <1>7, <1>8, <1>9

\* The client is gone: the event is lost.
LEMMA EventLost ==
  ASSUME NEW got, NEW w, NEW ch, NEW sent, LineWell(got, w, ch, sent)
  PROVE  LineWell(got, NoEvent, ch, sent)
<1>1. NumberOf(NoEvent) = {}
  BY EventTypes DEF NumberOf
<1>2. QED  BY <1>1, EventTypes DEF LineWell

-----------------------------------------------------------------------------
(* The indices sent.                                                       *)

LEMMA NumbersApart ==
  ASSUME TypeWeak, NEW r \in Run, IndicesDense(r),
         NEW a \in At(r, Counted), NEW b \in At(r, Counted), a # b
  PROVE  number[r][a] # number[r][b]
<1> USE ConstantsAssumption
<1> DEFINE S == At(r, Counted)  T == 1 .. idx[r]  f == [x \in S |-> number[r][x]]
<1>1. IsFiniteSet(S)
  BY FS_Subset DEF At
<1>2. idx[r] \in Nat
  BY DEF TypeWeak
<1>3. Cardinality(T) = idx[r]
  BY <1>2, FS_Interval
<1>4. Cardinality(S) = idx[r] /\ {number[r][x] : x \in S} = T
  BY DEF IndicesDense
<1>5. f \in Surjection(S, T)
  <2>1. \A x \in S : number[r][x] \in T
    BY <1>4
  <2>2. \A y \in T : \E x \in S : number[r][x] = y
    BY <1>4
  <2>3. QED  BY <2>1, <2>2 DEF Surjection
<1>6. f \in Injection(S, T)
  BY <1>1, <1>3, <1>4, <1>5, FS_SurjSameCardinalityImpliesInj
<1>7. f[a] = f[b] => a = b
  BY <1>6 DEF Injection, IsInjective
<1>8. QED  BY <1>7

LEMMA SentKept ==
  ASSUME NEW q \in Run, number'[q] = number[q], emitted'[q] = emitted[q]
  PROVE  Sent(q)' = Sent(q)
BY DEF Sent

\* An alert is numbered before it is announced, ...
LEMMA SentKeptByJudge ==
  ASSUME TypeWeak, HeardOf, NEW r \in Run, NEW a \in Alert, Judge(r, a), NEW q \in Run
  PROVE  Sent(q)' = Sent(q)
<1>1. a \notin emitted[r]
  BY DEF Judge, HeardOf, At, Heard, Persist
<1>2. /\ emitted' = emitted
      /\ \A b \in Alert \ {a} : number'[r][b] = number[r][b]
      /\ \A p \in Run \ {r} : number'[p] = number[p]
  BY DEF Judge, TypeWeak
<1>3. CASE q = r
  <2>1. \A b \in emitted[r] : number'[r][b] = number[r][b]
    BY <1>1, <1>2 DEF TypeWeak
  <2>2. QED  BY <1>2, <1>3, <2>1 DEF Sent
<1>4. CASE q # r
  BY <1>2, <1>4 DEF Sent
<1>5. QED  BY <1>3, <1>4

\* ... and announced with a number no alert announced before has.
LEMMA SentGrows ==
  ASSUME TypeWeak, HeardOf, NEW r \in Run, IndicesDense(r), NEW a \in Alert, Emit(r, a)
  PROVE  /\ number[r][a] \in Nat
         /\ number[r][a] \notin Sent(r)
         /\ Sent(r)' = Sent(r) \cup {number[r][a]}
         /\ \A q \in Run \ {r} : Sent(q)' = Sent(q)
<1>1. a \in At(r, Counted)
  BY DEF Emit, At, Counted
<1>2. emitted[r] \subseteq At(r, Counted) /\ a \notin emitted[r]
  BY DEF Emit, HeardOf, At, Heard, Counted, Persist
<1>3. number[r][a] \notin Sent(r)
  BY <1>1, <1>2, NumbersApart DEF Sent
<1>4. /\ number' = number
      /\ emitted'[r] = emitted[r] \cup {a}
      /\ \A q \in Run \ {r} : emitted'[q] = emitted[q]
  BY DEF Emit, TypeWeak
<1>5. Sent(r)' = Sent(r) \cup {number[r][a]}
  BY <1>4 DEF Sent
<1>6. \A q \in Run \ {r} : Sent(q)' = Sent(q)
  BY <1>4 DEF Sent
<1>7. QED  BY <1>3, <1>5, <1>6 DEF TypeWeak

-----------------------------------------------------------------------------
(* Informed is inductive.                                                  *)

StreamShape ==
  /\ DOMAIN channel = Run
  /\ DOMAIN received = Run
  /\ gone \in [Run -> BOOLEAN]

\* A step that leaves the stream of a scan alone.
LEMMA ToldKept ==
  ASSUME NEW q \in Run, Informed(q),
         received'[q] = received[q], writing'[q] = writing[q], channel'[q] = channel[q],
         total'[q] = total[q], Sent(q)' = Sent(q),
         phase'[q] \in {"idle", "routing"} <=> phase[q] \in {"idle", "routing"},
         phase'[q] = "refused" <=> phase[q] = "refused",
         gone[q] => gone'[q], closed[q] => closed'[q],
         drain'[q] = "ended" <=> drain[q] = "ended"
  PROVE  Informed(q)'
<1>1. Unannounced(q)' <=> Unannounced(q)
  BY DEF Unannounced
<1>2. ASSUME Told(q) PROVE Told(q)'
  BY <1>1, <1>2 DEF Told
<1>3. ASSUME ToldRefused(q) PROVE ToldRefused(q)'
  BY <1>3 DEF ToldRefused
<1>4. QED  BY <1>2, <1>3 DEF Informed

\* A scan that was forgotten has told nothing.
LEMMA ToldNothing ==
  ASSUME NEW q \in Run, received'[q] = << >>, writing'[q] = NoEvent, channel'[q] = << >>,
         emitted'[q] = {}, phase'[q] = "idle", drain'[q] = "none"
  PROVE  Informed(q)'
<1>1. Sent(q)' = {} /\ Unannounced(q)'
  BY DEF Sent, Unannounced
<1>2. NumberOf(NoEvent) = {}
  BY EventTypes DEF NumberOf
<1>3. GotWell(<< >>, total'[q], {})
  BY EmptyEvents DEF GotWell
<1>4. LineWell(<< >>, NoEvent, << >>, {})
  BY <1>2, EmptyEvents, EventTypes DEF LineWell
<1>5. AllComing(<< >>, NoEvent, << >>, {})
  BY DEF AllComing
<1>6. Told(q)'
  BY <1>1, <1>3, <1>4, <1>5, EventTypes DEF Told
<1>7. QED  BY <1>6 DEF Informed

LEMMA ToldByStart ==
  ASSUME TypeWeak, DrainFitsHandler, StreamTypeOK, \A r \in Run : Informed(r),
         NEW r \in Run, StreamStart(r), NEW q \in Run
  PROVE  Informed(q)'
<1> USE DEF durable, local, history
<1>1. /\ UNCHANGED <<received, writing, channel, gone, closed, total, number, emitted>>
      /\ phase[r] = "idle" /\ phase'[r] = "routing"
      /\ drain[r] = "none" /\ drain'[r] = "running"
      /\ \A p \in Run \ {r} : phase'[p] = phase[p] /\ drain'[p] = drain[p]
  BY DEF StreamStart, Start, TypeWeak, DrainFitsHandler, StreamTypeOK
<1>2. Sent(q)' = Sent(q)
  BY <1>1, SentKept
<1>3. /\ phase'[q] \in {"idle", "routing"} <=> phase[q] \in {"idle", "routing"}
      /\ phase'[q] = "refused" <=> phase[q] = "refused"
  BY <1>1
<1>4. drain'[q] = "ended" <=> drain[q] = "ended"
  BY <1>1
<1>5. QED  BY <1>1, <1>2, <1>3, <1>4, ToldKept

LEMMA ToldByRefuse ==
  ASSUME TypeWeak, DrainFitsHandler, StreamTypeOK, \A r \in Run : Informed(r),
         NEW r \in Run, StreamRefuse(r), NEW q \in Run
  PROVE  Informed(q)'
<1> USE DEF durable, local, history
<1>1. /\ UNCHANGED <<received, writing, channel, gone, closed, total, number, emitted>>
      /\ phase[r] = "idle" /\ phase'[r] = "refused"
      /\ \A p \in Run \ {r} : phase'[p] = phase[p] /\ drain'[p] = drain[p]
  BY DEF StreamRefuse, Refuse, TypeWeak, StreamTypeOK
<1>2. CASE q # r
  <2>1. Sent(q)' = Sent(q)
    BY <1>1, SentKept
  <2>2. QED  BY <1>1, <1>2, <2>1, ToldKept
<1>3. CASE q = r
  <2>1. received[r] = << >> /\ writing[r] = NoEvent /\ channel[r] = << >>
    BY <1>1 DEF Informed, Told, Unannounced
  <2>2. ToldRefused(r)'
    BY <1>1, <2>1, EventTypes DEF ToldRefused
  <2>3. QED  BY <1>1, <1>3, <2>2 DEF Informed
<1>4. QED  BY <1>2, <1>3

LEMMA ToldBySendStart ==
  ASSUME TypeWeak, TypeWeak', StreamShape, DrainFitsHandler, \A r \in Run : Informed(r),
         NEW r \in Run, SendStart(r), NEW q \in Run
  PROVE  Informed(q)'
<1> USE DEF durable, local, history
<1>1. /\ UNCHANGED <<received, writing, gone, closed, drain, number, emitted>>
      /\ phase[r] = "routing" /\ phase'[r] = "resuming"
      /\ \A p \in Run \ {r} : phase'[p] = phase[p] /\ total'[p] = total[p]
      /\ \A p \in Run \ {r} : channel'[p] = channel[p]
      /\ channel'[r] = Append(channel[r], StartEvent(total'[r]))
  BY DEF SendStart, Send, PartitionAndStart, TypeWeak, StreamShape
<1>2. Sent(q)' = Sent(q)
  BY <1>1, SentKept
<1>3. CASE q # r
  BY <1>1, <1>2, <1>3, ToldKept
<1>4. CASE q = r
  <2> DEFINE t == total'[r]  ch == channel'[r]  sent == Sent(r)
  <2>1. /\ received[r] = << >> /\ writing[r] = NoEvent /\ channel[r] = << >>
        /\ Told(r)
    BY <1>1 DEF Informed, Told, Unannounced
  <2>2. t \in Nat
    BY DEF TypeWeak
  <2>3. /\ LineWell(<< >>, NoEvent, << >>, sent)
        /\ ~gone[r] => AllComing(<< >>, NoEvent, << >>, sent)
    BY <2>1 DEF Told
  <2>4. ch = Append(<< >>, StartEvent(t))
    BY <1>1, <2>1
  <2> HIDE DEF t, ch, sent
  <2>5. /\ LineWell(<< >>, NoEvent, ch, sent)
        /\ StartComing(<< >>, NoEvent, ch, t)
        /\ AllComing(<< >>, NoEvent, << >>, sent) => AllComing(<< >>, NoEvent, ch, sent)
    BY <2>2, <2>3, <2>4, StartSent
  <2>6. GotWell(<< >>, t, sent)
    BY EmptyEvents DEF GotWell
  <2>7. ~(phase'[r] \in {"idle", "routing"})
    BY <1>1
  <2>8. drain[r] # "ended"
    BY <1>1, <2>1 DEF Told, DrainFitsHandler, Over
  <2>9. Told(r)'
    BY <1>1, <1>2, <1>4, <2>1, <2>3, <2>5, <2>6, <2>7, <2>8, EventTypes
       DEF Told, Unannounced, t, ch, sent
  <2>10. QED  BY <1>1, <1>4, <2>9 DEF Informed
<1>5. QED  BY <1>3, <1>4

\* While an alert is about to be announced the drain cannot have seen the end.
LEMMA ToldByProgress ==
  ASSUME StreamInv, HeardOf, StreamShape, \A r \in Run : Informed(r),
         NEW r \in Run, IndicesDense(r), NEW a \in Alert, SendProgress(r, a), NEW q \in Run
  PROVE  Informed(q)'
<1> USE DEF durable, local, history
<1>0. TypeWeak /\ StagesAllowed /\ DrainFitsHandler /\ Emit(r, a)
  BY DEF StreamInv, SendProgress
<1>1. /\ UNCHANGED <<received, writing, gone, closed, drain, phase, total>>
      /\ \A p \in Run \ {r} : channel'[p] = channel[p]
      /\ channel'[r] = Append(channel[r], ProgressEvent(number[r][a]))
  BY DEF SendProgress, Send, Emit, StreamShape
<1>2. /\ number[r][a] \in Nat
      /\ number[r][a] \notin Sent(r)
      /\ Sent(r)' = Sent(r) \cup {number[r][a]}
      /\ \A p \in Run \ {r} : Sent(p)' = Sent(p)
  BY <1>0, SentGrows
<1>3. CASE q # r
  BY <1>1, <1>2, <1>3, ToldKept
<1>4. CASE q = r
  <2> DEFINE got == received[r]  w == writing[r]  ch == channel[r]  longer == channel'[r]
             n == number[r][a]  sent == Sent(r)  t == total[r]
  <2>2. stage[r][a] = "counted"
    BY <1>0 DEF Emit
  <2>3. phase[r] \in {"dispatch", "wait"}
    BY <1>0, <2>2 DEF StagesAllowed, Allowed, Aside, Persist, TypeWeak, Phase
  <2>1. Told(r)
    BY <2>3 DEF Informed
  <2>4. ~closed[r] /\ ~Unannounced(r) /\ drain[r] # "ended"
    BY <1>0, <2>1, <2>3 DEF DrainFitsHandler, Unannounced, Told, Over
  <2>5. /\ w.kind # "done"
        /\ \A i \in DOMAIN got : got[i].kind # "done"
    BY <2>1, <2>4 DEF Told
  <2>6. GotWell(got, t, sent) /\ LineWell(got, w, ch, sent)
    BY <2>1 DEF Told
  <2>7. longer = Append(ch, ProgressEvent(n))
    BY <1>1
  <2>8. n \in Nat /\ n \notin sent
    BY <1>2
  <2>9. /\ ~gone[r] => AllComing(got, w, ch, sent)
        /\ ~gone[r] => StartComing(got, w, ch, t)
    BY <2>1, <2>4 DEF Told
  <2> HIDE DEF got, w, ch, longer, n, sent, t
  <2>10. /\ GotWell(got, t, sent \cup {n})
         /\ LineWell(got, w, longer, sent \cup {n})
         /\ AllComing(got, w, ch, sent) => AllComing(got, w, longer, sent \cup {n})
         /\ StartComing(got, w, ch, t) => StartComing(got, w, longer, t)
    BY <2>5, <2>6, <2>7, <2>8, ProgressSent
  <2>11. Sent(r)' = sent \cup {n}
    BY <1>2 DEF sent, n
  <2>12. ~Unannounced(r)'
    BY <1>1, <2>4 DEF Unannounced
  <2>13. Told(r)'
    BY <1>1, <1>4, <2>4, <2>5, <2>9, <2>10, <2>11, <2>12
       DEF Told, got, w, ch, longer, t
  <2>14. QED  BY <1>1, <1>4, <2>3, <2>13 DEF Informed
<1>5. QED  BY <1>3, <1>4

LEMMA ToldByTake ==
  ASSUME StreamInv, \A r \in Run : Informed(r), StreamShape,
         NEW r \in Run, Take(r), NEW q \in Run
  PROVE  Informed(q)'
<1>0. DOMAIN writing = Run /\ DOMAIN channel = Run
  BY DEF StreamInv, StreamTypeOK, StreamShape
<1>1. /\ UNCHANGED <<received, gone, closed, drain, phase, total, number, emitted>>
      /\ drain[r] = "running" /\ writing[r] = NoEvent
      /\ \A p \in Run \ {r} : channel'[p] = channel[p] /\ writing'[p] = writing[p]
  BY <1>0 DEF Take, vars
<1>2. Sent(q)' = Sent(q) /\ (Unannounced(q)' <=> Unannounced(q))
  BY <1>1, SentKept DEF Unannounced
<1>3. CASE q # r
  BY <1>1, <1>2, <1>3, ToldKept DEF Unannounced
<1>4. CASE q = r /\ phase[r] # "refused"
  <2> DEFINE got == received[r]  ch == channel[r]  sent == Sent(r)  t == total[r]
  <2>1. Told(r) /\ (Told(r)' => Informed(q)')
    BY <1>1, <1>4 DEF Informed
  <2>2. /\ LineWell(got, NoEvent, ch, sent)
        /\ ~gone[r] => AllComing(got, NoEvent, ch, sent)
        /\ ~gone[r] /\ ~Unannounced(r) => StartComing(got, NoEvent, ch, t)
    BY <1>1, <2>1 DEF Told
  <2>3. GotWell(got, t, sent)
    BY <2>1 DEF Told
  <2>4. CASE TakesDone(r)
    <3>1. /\ closed[r] /\ ch = << >> /\ channel' = channel
          /\ writing'[r] = DoneEvent
      BY <1>0, <2>4 DEF Take, TakesDone
    <3>2. /\ LineWell(got, DoneEvent, << >>, sent)
          /\ AllComing(got, NoEvent, << >>, sent) => AllComing(got, DoneEvent, << >>, sent)
          /\ StartComing(got, NoEvent, << >>, t) => StartComing(got, DoneEvent, << >>, t)
      <4> HIDE DEF got, ch, sent, t
      <4>1. LineWell(got, NoEvent, << >>, sent)
        BY <2>2, <3>1
      <4>2. QED  BY <4>1, DoneTaken
    <3>3. ~Unannounced(r)
      BY <3>1 DEF StreamInv, DrainFitsHandler, Unannounced, Over
    <3>4. QED  BY <1>1, <1>2, <1>4, <2>1, <2>2, <2>3, <3>1, <3>2, <3>3 DEF Told
  <2>5. CASE ~TakesDone(r)
    <3>1. /\ ch # << >>
          /\ writing'[r] = Head(ch) /\ channel'[r] = Tail(ch)
      BY <1>0, <2>5 DEF Take
    <3>2. /\ LineWell(got, Head(ch), Tail(ch), sent)
          /\ Head(ch).kind # "done"
          /\ AllComing(got, NoEvent, ch, sent) => AllComing(got, Head(ch), Tail(ch), sent)
          /\ StartComing(got, NoEvent, ch, t) => StartComing(got, Head(ch), Tail(ch), t)
      <4> HIDE DEF got, ch, sent, t
      <4>1. QED  BY <2>2, <3>1, EventTaken
    <3>3. ~Unannounced(r)
      BY <2>1, <3>1 DEF Told
    <3>4. QED  BY <1>1, <1>2, <1>4, <2>1, <2>2, <2>3, <3>1, <3>2, <3>3 DEF Told
  <2>6. QED  BY <2>4, <2>5
<1>5. CASE q = r /\ phase[r] = "refused"
  <2>1. ToldRefused(r) /\ (ToldRefused(r)' => Informed(q)')
    BY <1>1, <1>5 DEF Informed
  <2>2. received[r] = << >>
    BY <1>1, <2>1 DEF ToldRefused
  <2>3. closed[r] /\ writing'[r] = DoneEvent /\ channel'[r] = << >>
    BY <1>0, <2>1 DEF Take, TakesDone, ToldRefused
  <2>4. << >> # <<DoneEvent>>
    OBVIOUS
  <2>5. QED  BY <1>1, <2>1, <2>2, <2>3, <2>4 DEF ToldRefused
<1>6. QED  BY <1>3, <1>4, <1>5

LEMMA ToldByWritten ==
  ASSUME StreamInv, \A r \in Run : Informed(r), StreamShape,
         NEW r \in Run, Written(r), NEW q \in Run
  PROVE  Informed(q)'
<1>0. /\ DOMAIN writing = Run /\ DOMAIN received = Run
      /\ drain \in [Run -> {"none", "running", "ended"}]
      /\ total[r] \in Nat
  BY DEF StreamInv, StreamTypeOK, StreamShape, TypeWeak
<1>1. /\ UNCHANGED <<channel, gone, closed, phase, total, number, emitted>>
      /\ writing[r] # NoEvent /\ writing'[r] = NoEvent
      /\ drain'[r] = IF writing[r] = DoneEvent THEN "ended" ELSE drain[r]
      /\ received'[r] = IF gone[r] THEN received[r] ELSE Append(received[r], writing[r])
      /\ \A p \in Run \ {r} : /\ received'[p] = received[p] /\ writing'[p] = writing[p]
                              /\ drain'[p] = drain[p]
  BY <1>0 DEF Written, vars
<1>2. Sent(q)' = Sent(q) /\ (Unannounced(q)' <=> Unannounced(q))
  BY <1>1, SentKept DEF Unannounced
<1>3. CASE q # r
  BY <1>1, <1>2, <1>3, ToldKept DEF Unannounced
<1>4. CASE q = r /\ phase[r] # "refused"
  <2> DEFINE got == received[r]  w == writing[r]  ch == channel[r]  sent == Sent(r)
             t == total[r]  more == Append(got, w)
  <2>1. Told(r) /\ (Told(r)' => Informed(q)')
    BY <1>1, <1>4 DEF Informed
  <2>2. drain[r] = "running"
    BY <1>0, <1>1 DEF StreamInv, DrainFitsHandler
  <2>3. ~Unannounced(r) /\ \A i \in DOMAIN got : got[i].kind # "done"
    BY <1>1, <2>1, <2>2 DEF Told
  <2>4. GotWell(got, t, sent) /\ LineWell(got, w, ch, sent)
    BY <2>1 DEF Told
  <2>5. w.kind = "done" => closed[r] /\ ch = << >>
    BY <2>1, <2>4 DEF Told, LineWell
  <2>6. drain'[r] = "ended" => closed[r] /\ ch = << >>
    BY <1>1, <2>2, <2>5, EventTypes
  <2>7. CASE gone[r]
    <3>1. LineWell(got, NoEvent, ch, sent)
      <4> HIDE DEF got, w, ch, sent, t
      <4>1. QED  BY <2>4, EventLost
    <3>2. received'[r] = got
      BY <1>1, <2>7
    <3>3. Told(r)'
      BY <1>1, <1>2, <1>4, <2>1, <2>3, <2>4, <2>6, <2>7, <3>1, <3>2, EventTypes
         DEF Told
    <3>4. QED  BY <2>1, <3>3
  <2>8. CASE ~gone[r]
    <3>1. AllComing(got, w, ch, sent) /\ StartComing(got, w, ch, t)
      BY <2>1, <2>3, <2>8 DEF Told
    <3>2. /\ GotWell(more, t, sent)
          /\ LineWell(more, NoEvent, ch, sent)
          /\ AllComing(more, NoEvent, ch, sent)
          /\ StartComing(more, NoEvent, ch, t)
      <4>1. t \in Nat /\ w # NoEvent
        BY <1>0, <1>1
      <4> HIDE DEF got, w, ch, sent, t
      <4>2. QED  BY <2>3, <2>4, <3>1, <4>1, EventGot
    <3>3. received'[r] = more
      BY <1>1, <2>8
    <3>4. (\E i \in DOMAIN more : more[i].kind = "done") => drain'[r] = "ended"
      <4>1. got \in Seq(Event) /\ w \in Event
        BY <2>4 DEF GotWell, LineWell
      <4>2. ASSUME NEW i \in DOMAIN more, more[i].kind = "done" PROVE w.kind = "done"
        BY <2>3, <4>1, <4>2
      <4>3. w.kind = "done" => w = DoneEvent
        BY <2>4 DEF LineWell
      <4>4. QED  BY <1>1, <4>2, <4>3
    <3>5. /\ writing'[r] = NoEvent /\ channel'[r] = ch /\ total'[r] = t
          /\ ~Unannounced(r)' /\ Sent(r)' = sent /\ ~gone'[r] /\ NoEvent.kind # "done"
      BY <1>1, <1>2, <1>4, <2>3, <2>8, EventTypes
    <3>6. (drain'[r] = "ended" => closed'[r] /\ channel'[r] = << >>)
      BY <1>1, <2>6
    <3> HIDE DEF got, w, ch, sent, t, more
    <3>7. Told(r)'
      BY <1>4, <3>2, <3>3, <3>4, <3>5, <3>6 DEF Told
    <3>8. QED  BY <2>1, <3>7
  <2>9. QED  BY <2>7, <2>8
<1>5. CASE q = r /\ phase[r] = "refused"
  <2>1. ToldRefused(r) /\ (ToldRefused(r)' => Informed(q)')
    BY <1>1, <1>5 DEF Informed
  <2>2. writing[r] = DoneEvent /\ received[r] = << >>
    BY <1>1, <2>1 DEF ToldRefused
  <2>3. drain'[r] = "ended" /\ received'[r] \in {<< >>, <<DoneEvent>>}
    BY <1>1, <2>2
  <2>4. NoEvent # DoneEvent
    BY EventTypes
  <2>5. QED  BY <1>1, <2>1, <2>3, <2>4 DEF ToldRefused
<1>6. QED  BY <1>3, <1>4, <1>5

LEMMA ToldByRespond ==
  ASSUME StreamInv, \A r \in Run : Informed(r), StreamShape,
         NEW r \in Run, StreamRespond(r), NEW q \in Run
  PROVE  Informed(q)'
<1>0. /\ DOMAIN channel = Run /\ DOMAIN received = Run
      /\ closed \in [Run -> BOOLEAN] /\ gone \in [Run -> BOOLEAN]
      /\ drain \in [Run -> {"none", "running", "ended"}]
  BY DEF StreamInv, StreamTypeOK, StreamShape
<1>1. drain[r] = "ended" /\ Forget({r})
  BY DEF StreamRespond, MayReturn, Respond
<1>2. CASE q = r
  <2>1. /\ channel'[r] = << >> /\ received'[r] = << >> /\ drain'[r] = "none"
        /\ writing' = writing
    BY <1>0, <1>1 DEF StreamRespond
  <2>2. writing[r] = NoEvent
    BY <1>1 DEF StreamInv, DrainFitsHandler
  <2>3. emitted'[r] = {} /\ phase'[r] = "idle"
    BY <1>1 DEF Forget
  <2>4. QED  BY <1>2, <2>1, <2>2, <2>3, ToldNothing
<1>3. CASE q # r
  <2>1. /\ phase'[q] = phase[q] /\ total'[q] = total[q]
        /\ number'[q] = number[q] /\ emitted'[q] = emitted[q]
    BY <1>1, <1>3 DEF Forget
  <2>2. /\ channel'[q] = channel[q] /\ received'[q] = received[q]
        /\ drain'[q] = drain[q] /\ writing' = writing
    BY <1>0, <1>3 DEF StreamRespond
  <2>3. closed'[q] = closed[q] /\ gone'[q] = gone[q]
    BY <1>0, <1>3 DEF StreamRespond
  <2>4. Sent(q)' = Sent(q)
    BY <2>1, SentKept
  <2>5. QED  BY <2>1, <2>2, <2>3, <2>4, ToldKept
<1>4. QED  BY <1>2, <1>3

LEMMA ToldByCrash ==
  ASSUME StreamCrash, NEW q \in Run
  PROVE  Informed(q)'
<1>1. emitted'[q] = {} /\ phase'[q] = "idle"
  BY DEF StreamCrash, Crash, Forget
<1>2. /\ channel'[q] = << >> /\ received'[q] = << >> /\ drain'[q] = "none"
      /\ writing'[q] = NoEvent
  BY DEF StreamCrash
<1>3. QED  BY <1>1, <1>2, ToldNothing

LEMMA ToldNext ==
  ASSUME StreamInv, StreamInv', Inv3, Inv4, StreamShape, \A r \in Run : Informed(r),
         [StreamNext]_streamVars, NEW q \in Run
  PROVE  Informed(q)'
<1> USE DEF durable, local, history, stream
<1>0. /\ TypeWeak /\ TypeWeak' /\ DrainFitsHandler /\ StreamTypeOK /\ HeardOf
      /\ \A r \in Run : IndicesDense(r)
  BY DEF StreamInv, Inv3, Inv4
\* Most steps are not of the stream.
<1>1. ASSUME UNCHANGED <<received, writing, channel, gone, drain, total>>,
             closed[q] => closed'[q], Sent(q)' = Sent(q),
             phase'[q] \in {"idle", "routing"} <=> phase[q] \in {"idle", "routing"},
             phase'[q] = "refused" <=> phase[q] = "refused"
      PROVE  Informed(q)'
  BY <1>1, ToldKept
<1>2. ASSUME UNCHANGED <<received, writing, channel, gone, drain, total>>,
             UNCHANGED <<closed, phase, number, emitted>>
      PROVE  Informed(q)'
  BY <1>1, <1>2, SentKept
<1>3. ASSUME NEW r \in Run, StreamStart(r) \/ StreamRefuse(r) PROVE Informed(q)'
  BY <1>0, <1>3, ToldByStart, ToldByRefuse
<1>4. ASSUME NEW r \in Run, SendStart(r) PROVE Informed(q)'
  BY <1>0, <1>4, ToldBySendStart
<1>5. ASSUME NEW r \in Run, Orchestrate(r) \/ AttachedScanEnds(r) PROVE Informed(q)'
  <2>1. UNCHANGED stream
    BY <1>5 DEF Orchestrate, AttachedScanEnds
  <2>2. CASE \/ BeginFanOut(r) \/ EndFanOut(r) \/ MakeReport(r) \/ Return(r)
             \/ WriteRun(r) \/ ScaReturns(r)
    <3>1. /\ UNCHANGED <<total, number, emitted>>
          /\ phase[r] \notin Unstarted /\ phase'[r] \notin Unstarted
          /\ \A p \in Run \ {r} : phase'[p] = phase[p]
      BY <1>0, <2>2 DEF BeginFanOut, EndFanOut, MakeReport, Return, WriteRun, ScaReturns,
                        TypeWeak, Unstarted
    <3>2. /\ phase'[q] \in {"idle", "routing"} <=> phase[q] \in {"idle", "routing"}
          /\ phase'[q] = "refused" <=> phase[q] = "refused"
      BY <3>1 DEF Unstarted
    <3>3. QED  BY <1>1, <2>1, <3>1, <3>2, SentKept
  <2>3. ASSUME NEW a \in Alert,
               \/ RouteOrResume(r, a) \/ Dispatch(r, a)
               \/ OpenCheckpoint(r, a) \/ WriteCheckpoint(r, a) \/ CheckpointFails(r, a)
               \/ Upsert(r, a) \/ UpsertFails(r, a)
        PROVE  Informed(q)'
    <3>1. UNCHANGED <<total, phase, number, emitted>>
      BY <2>3 DEF RouteOrResume, Route, RouteUnread, Resume, ResumeUnread, Dispatch,
                  OpenCheckpoint, WriteCheckpoint, CheckpointFails, Upsert, UpsertFails
    <3>2. QED  BY <1>2, <2>1, <3>1
  <2>4. QED  BY <1>5, <2>2, <2>3 DEF Orchestrate, AttachedScanEnds, RouteOrResume
<1>6. ASSUME NEW r \in Run, Close(r) PROVE Informed(q)'
  <2>1. /\ UNCHANGED <<received, writing, channel, gone, drain, total, number, emitted>>
        /\ UNCHANGED phase
    BY <1>6 DEF Close, vars
  <2>2. closed[q] => closed'[q]
    BY <1>0, <1>6 DEF Close, StreamTypeOK
  <2>3. QED  BY <1>1, <2>1, <2>2, SentKept
<1>7. ASSUME NEW r \in Run, Disconnect(r) PROVE Informed(q)'
  <2>1. /\ UNCHANGED <<received, writing, channel, closed, drain, total, number, emitted>>
        /\ UNCHANGED phase
    BY <1>7 DEF Disconnect, Cancel, vars
  <2>2. gone[q] => gone'[q]
    BY <1>7 DEF Disconnect, StreamShape
  <2>3. QED  BY <2>1, <2>2, SentKept, ToldKept
<1>8. ASSUME NEW r \in Run, StreamRespond(r) PROVE Informed(q)'
  BY <1>8, ToldByRespond
<1>9. ASSUME NEW r \in Run, Take(r) PROVE Informed(q)'
  BY <1>9, ToldByTake
<1>10. ASSUME NEW r \in Run, Written(r) PROVE Informed(q)'
  BY <1>10, ToldByWritten
<1>11. ASSUME NEW r \in Run, NEW a \in Alert, JudgeAlert(r, a) PROVE Informed(q)'
  <2>1. Judge(r, a) /\ UNCHANGED stream /\ UNCHANGED <<phase, total>>
    BY <1>11 DEF JudgeAlert, Judge
  <2>2. Sent(q)' = Sent(q)
    BY <1>0, <2>1, SentKeptByJudge
  <2>3. QED  BY <1>1, <2>1, <2>2
<1>12. ASSUME NEW r \in Run, NEW a \in Alert, SendProgress(r, a) PROVE Informed(q)'
  BY <1>0, <1>12, ToldByProgress
<1>13. ASSUME NEW r \in Run, NEW a \in Alert, CollectAlert(r, a) PROVE Informed(q)'
  BY <1>2, <1>13 DEF CollectAlert, Collect
<1>14. ASSUME StreamCrash PROVE Informed(q)'
  BY <1>14, ToldByCrash
<1>15. CASE UNCHANGED streamVars
  BY <1>2, <1>15 DEF streamVars, vars
<1>16. QED
  BY <1>3, <1>4, <1>5, <1>6, <1>7, <1>8, <1>9, <1>10, <1>11, <1>12, <1>13, <1>14,
     <1>15 DEF StreamNext

LEMMA StreamShapeNext ==
  ASSUME StreamShape, [StreamNext]_streamVars
  PROVE  StreamShape'
<1> USE DEF stream
<1>1. ASSUME NEW r \in Run, \/ StreamStart(r) \/ StreamRefuse(r) \/ Orchestrate(r)
                            \/ AttachedScanEnds(r) \/ Close(r) \/ SendStart(r)
                            \/ Take(r) \/ Written(r)
      PROVE  StreamShape'
  <2>1. gone' = gone
    BY <1>1 DEF StreamStart, StreamRefuse, Orchestrate, AttachedScanEnds, Close,
                SendStart, Send, Take, Written
  <2>2. DOMAIN channel' = Run
    BY <1>1 DEF StreamShape, StreamStart, StreamRefuse, Orchestrate, AttachedScanEnds,
                Close, SendStart, Send, Take, Written
  <2>3. DOMAIN received' = Run
    BY <1>1 DEF StreamShape, StreamStart, StreamRefuse, Orchestrate, AttachedScanEnds,
                Close, SendStart, Send, Take, Written
  <2>4. QED  BY <2>1, <2>2, <2>3 DEF StreamShape
<1>2. ASSUME NEW r \in Run, NEW a \in Alert,
             JudgeAlert(r, a) \/ SendProgress(r, a) \/ CollectAlert(r, a)
      PROVE  StreamShape'
  <2>1. UNCHANGED <<gone, received>>
    BY <1>2 DEF JudgeAlert, SendProgress, Send, CollectAlert
  <2>2. DOMAIN channel' = Run
    BY <1>2 DEF StreamShape, JudgeAlert, SendProgress, Send, CollectAlert
  <2>3. QED  BY <2>1, <2>2 DEF StreamShape
<1>3. ASSUME NEW r \in Run, StreamRespond(r) PROVE StreamShape'
  <2>1. gone' = [gone EXCEPT ![r] = FALSE]
    BY <1>3 DEF StreamRespond
  <2>2. gone' \in [Run -> BOOLEAN]
    BY <2>1, Zenon DEF StreamShape
  <2>3. DOMAIN channel' = Run /\ DOMAIN received' = Run
    BY <1>3 DEF StreamRespond, StreamShape
  <2>4. QED  BY <2>2, <2>3 DEF StreamShape
<1>4. ASSUME NEW r \in Run, Disconnect(r) PROVE StreamShape'
  <2>1. gone' = [gone EXCEPT ![r] = TRUE] /\ UNCHANGED <<channel, received>>
    BY <1>4 DEF Disconnect
  <2>2. gone' \in [Run -> BOOLEAN]
    BY <2>1, Zenon DEF StreamShape
  <2>3. QED  BY <2>1, <2>2 DEF StreamShape
<1>5. ASSUME StreamCrash PROVE StreamShape'
  <2>1. gone' = [r \in Run |-> FALSE]
    BY <1>5 DEF StreamCrash
  <2>2. gone' \in [Run -> BOOLEAN]
    BY <2>1, Zenon
  <2>3. DOMAIN channel' = Run /\ DOMAIN received' = Run
    BY <1>5 DEF StreamCrash
  <2>4. QED  BY <2>2, <2>3 DEF StreamShape
<1>6. CASE UNCHANGED streamVars
  BY <1>6 DEF streamVars, StreamShape
<1>7. QED  BY <1>1, <1>2, <1>3, <1>4, <1>5, <1>6 DEF StreamNext

ToldInv == StreamShape /\ \A r \in Run : Informed(r)

LEMMA ToldInit == StreamInit => ToldInv
<1> SUFFICES ASSUME StreamInit PROVE ToldInv
  OBVIOUS
<1>1. StreamShape
  <2>1. gone \in [Run -> BOOLEAN]
    BY Zenon DEF StreamInit
  <2>2. QED  BY <2>1 DEF StreamInit, StreamShape
<1>2. ASSUME NEW r \in Run PROVE Informed(r)
  <2>1. /\ received[r] = << >> /\ writing[r] = NoEvent /\ channel[r] = << >>
        /\ emitted[r] = {} /\ phase[r] = "idle" /\ drain[r] = "none"
    BY DEF StreamInit, Init
  <2>2. Sent(r) = {} /\ Unannounced(r)
    BY <2>1 DEF Sent, Unannounced
  <2>3. NumberOf(NoEvent) = {}
    BY EventTypes DEF NumberOf
  <2>4. GotWell(<< >>, total[r], {})
    BY EmptyEvents DEF GotWell
  <2>5. LineWell(<< >>, NoEvent, << >>, {})
    BY <2>3, EmptyEvents, EventTypes DEF LineWell
  <2>6. Told(r)
    BY <2>1, <2>2, <2>4, <2>5, EventTypes DEF Told, AllComing
  <2>7. QED  BY <2>1, <2>6 DEF Informed
<1>3. QED  BY <1>1, <1>2 DEF ToldInv

LEMMA ToldHolds == StreamSpec => []ToldInv
<1>1. StreamInv /\ StreamInv' /\ Inv3 /\ Inv4 /\ ToldInv /\ [StreamNext]_streamVars
        => ToldInv'
  BY ToldNext, StreamShapeNext DEF ToldInv
<1>2. QED
  BY <1>1, ToldInit, StreamInvHolds, StreamIsScan, Inv3Holds, Inv4Holds, PTL
     DEF StreamSpec

-----------------------------------------------------------------------------
\* As many progress events as indices were sent, hence no more than OnStart said.
LEMMA ProgressCounted ==
  ASSUME Inv3, NEW r \in Run, phase[r] # "refused", Told(r)
  PROVE  Cardinality({i \in DOMAIN received[r] : received[r][i].kind = "progress"})
           <= total[r]
<1> USE ConstantsAssumption
<1> DEFINE got == received[r]
           P == {i \in DOMAIN got : got[i].kind = "progress"}
           f == [i \in P |-> CHOOSE a \in emitted[r] : number[r][a] = got[i].n]
<1>0. /\ GotWell(got, total[r], Sent(r)) /\ HeardOf /\ total[r] \in Nat
      /\ emitted[r] = At(r, Heard)
  BY DEF Told, Inv3, TypeWeak, HeardOf
<1>1. CASE Unannounced(r)
  <2>1. P = {}
    BY <1>1 DEF Told
  <2>2. Cardinality(P) = 0
    BY <2>1, FS_EmptySet
  <2> HIDE DEF P
  <2>3. Cardinality(P) <= total[r]
    BY <1>0, <2>2
  <2>4. QED  BY <2>3 DEF P
<1>2. CASE ~Unannounced(r)
  <2>1. \A i \in P : NumberOf(got[i]) = {got[i].n}
    BY DEF NumberOf
  <2>2. \A i \in P : \E a \in emitted[r] : number[r][a] = got[i].n
    <3>1. ASSUME NEW i \in P PROVE got[i].n \in Sent(r)
      <4>1. got[i].n \in Numbers(got)
        BY <2>1 DEF Numbers
      <4>2. QED  BY <1>0, <4>1 DEF GotWell
    <3>2. QED  BY <3>1 DEF Sent
  <2>3. \A i \in P : f[i] \in emitted[r] /\ number[r][f[i]] = got[i].n
    BY <2>2
  <2>4. \A i, j \in P : i # j => got[i].n # got[j].n
    BY <1>0, <2>1 DEF GotWell, Distinct
  <2>5. \A i, j \in P : f[i] = f[j] => i = j
    <3> HIDE DEF P, f
    <3>1. QED  BY <2>3, <2>4
  <2>6. f \in Injection(P, emitted[r])
    BY <2>3, <2>5 DEF Injection, IsInjective
  <2>7. /\ IsFiniteSet(emitted[r])
        /\ IsFiniteSet(At(r, Announced))
        /\ emitted[r] \subseteq At(r, Announced)
    BY <1>0, FS_Subset DEF At, Announced, Heard, InFlight
  <2>8. Cardinality(P) <= Cardinality(emitted[r]) /\ IsFiniteSet(P)
    BY <2>6, <2>7, FS_Injection
  <2>9. Cardinality(emitted[r]) <= Cardinality(At(r, Announced))
    BY <2>7, FS_Subset
  <2>10. total[r] = Cardinality(At(r, Announced))
    BY <1>2 DEF Inv3, TotalCounts, Unannounced, Unstarted
  <2>11. /\ Cardinality(P) \in Nat /\ Cardinality(emitted[r]) \in Nat
         /\ Cardinality(At(r, Announced)) \in Nat
    BY <2>7, <2>8, FS_CardinalityType
  <2>12. QED  BY <2>8, <2>9, <2>10, <2>11
<1>3. QED  BY <1>1, <1>2

\* scanStreamHandler, for any alerts, workers, capacity, faults and disconnections:
\* the client reads one start, then distinct progress events within the total, then
\* done, and done only behind the event of every alert judged; of a run refused
\* before it started it reads done alone.
THEOREM StreamTellsTheScan == StreamSpec => []StreamTells
<1>1. Inv3 /\ ToldInv => StreamTells
  <2> SUFFICES ASSUME Inv3, ToldInv, NEW r \in Run
               PROVE
        LET got == received[r]
            progress == {i \in DOMAIN got : got[i].kind = "progress"}
        IN  /\ got # <<>> => got[1] = IF phase[r] = "refused" THEN DoneEvent
                                      ELSE StartEvent(total[r])
            /\ \A i \in DOMAIN got \ {1} : got[i].kind # "start"
            /\ \A i \in DOMAIN got : got[i] = DoneEvent => i = Len(got)
            /\ \A i, j \in progress : i # j => got[i].n # got[j].n
            /\ Cardinality(progress) <= total[r]
            /\ got # <<>> /\ got[Len(got)] = DoneEvent =>
                 {got[i].n : i \in progress} = {number[r][a] : a \in emitted[r]}
    BY DEF StreamTells
  <2> DEFINE got == received[r]
             progress == {i \in DOMAIN got : got[i].kind = "progress"}
  <2>1. CASE phase[r] = "refused"
    <3>1. got \in {<< >>, <<DoneEvent>>}
      BY <2>1 DEF ToldInv, Informed, ToldRefused
    <3>2. progress = {} /\ \A i \in DOMAIN got : i = 1 /\ Len(got) = 1
      BY <3>1, EventTypes
    <3>3. Cardinality(progress) = 0
      BY <3>2, FS_EmptySet
    <3>4. total[r] \in Nat
      BY DEF Inv3, TypeWeak
    <3>5. emitted[r] = {}
      BY <2>1 DEF Inv3, HeardOf, StagesAllowed, Allowed, At, Heard, Persist
    <3>6. {number[r][a] : a \in emitted[r]} = {} /\ {got[i].n : i \in progress} = {}
      BY <3>2, <3>5
    <3> HIDE DEF progress
    <3>7. Cardinality(progress) <= total[r]
      BY <3>3, <3>4
    <3>8. got # <<>> => got[1] = DoneEvent
      BY <3>1
    <3>9. QED  BY <2>1, <3>2, <3>6, <3>7, <3>8 DEF progress
  <2>2. CASE phase[r] # "refused"
    <3>1. Told(r) /\ GotWell(got, total[r], Sent(r)) /\ got \in Seq(Event)
      BY <2>2 DEF ToldInv, Informed, Told, GotWell
    <3>2. got # <<>> => got[1] = StartEvent(total[r])
      BY <3>1 DEF GotWell
    <3>3. \A i \in DOMAIN got \ {1} : got[i].kind # "start"
      BY <3>1 DEF GotWell, NoStart
    <3>4. \A i \in DOMAIN got : got[i] = DoneEvent => i = Len(got)
      BY <3>1, EventTypes DEF GotWell
    <3>5. \A i \in progress : NumberOf(got[i]) = {got[i].n}
      BY DEF NumberOf
    <3>6. \A i, j \in progress : i # j => got[i].n # got[j].n
      BY <3>1, <3>5 DEF GotWell, Distinct
    <3>7. Cardinality(progress) <= total[r]
      BY <2>2, <3>1, ProgressCounted
    <3>8. ASSUME got # <<>>, got[Len(got)] = DoneEvent
          PROVE  {got[i].n : i \in progress} = {number[r][a] : a \in emitted[r]}
      <4>1. Numbers(got) = {got[i].n : i \in progress}
        BY <3>5 DEF Numbers, NumberOf
      <4>2. Len(got) \in DOMAIN got
        BY <3>1, <3>8
      <4>3. Numbers(got) = Sent(r)
        BY <3>1, <3>8, <4>2, EventTypes DEF GotWell
      <4>4. QED  BY <4>1, <4>3 DEF Sent
    <3>9. QED  BY <2>2, <3>2, <3>3, <3>4, <3>6, <3>7, <3>8
  <2>3. QED  BY <2>1, <2>2
<1>2. QED  BY <1>1, ToldHolds, StreamIsScan, Inv3Holds, PTL

=============================================================================
