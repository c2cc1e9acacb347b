--------------------------- MODULE CmdbPushProofs ---------------------------
(***************************************************************************)
(* Theorems of CmdbPush: what cmdb_push.json says and what the receiver    *)
(* has, for any number of handlers, findings and faults.                   *)
(***************************************************************************)
EXTENDS CmdbPush, TLAPS

(* What a handler holds, by where it is.                                   *)

\* A handler that heard of an event is right; one that heard "created" made it.
HeardRight ==
  \A h \in Handler :
    /\ reply[h] \in {"created", "already", "blank"} => event # {}
    /\ reply[h] = "created" => event = kept[h]
    /\ pc[h] \in {"record", "recording"} =>
         reply[h] \in {"created", "already", "blank"}
    /\ pc[h] = "idle" => reply[h] = "none"

\* Only findings that were selected and not hard-excluded are dispatched.
KeptSelected ==
  \A h \in Handler :
    /\ kept[h] \subseteq sel[h] \ HardExcluded
    /\ pc[h] # "idle" => kept[h] # {}

\* Stage 1 comes before the request, and the file never goes away.
Staged ==
  /\ \A h \in Handler : pc[h] \in {"post", "waiting"} => file.status # "absent"
  /\ event # {} \/ late # {} => file.status # "absent"

\* Without overlap there is one handler at most, and none once the file says
\* pushed: it would have begun before.
Sole ==
  ~overlap => /\ \A h, g \in Handler : pc[h] # "idle" /\ pc[g] # "idle" => h = g
              /\ file.status = "pushed" => \A h \in Handler : pc[h] = "idle"

Inv ==
  /\ TypeOK
  /\ HeardRight
  /\ KeptSelected
  /\ Staged
  /\ Sole
  /\ PushedIsDelivered
  /\ CreatedIsRecorded

LEMMA InitInv == Init => Inv
<1> SUFFICES ASSUME Init PROVE Inv
  OBVIOUS
<1>1. file \in File /\ file.status = "absent"
  BY DEF Init, Unreadable, File
<1>2. TypeOK
  <2>1. /\ pc \in [Handler -> Stages]
        /\ reply \in [Handler -> {"none", "created", "already", "blank", "error"}]
    BY DEF Init, Stages
  <2>2. sel \in [Handler -> SUBSET Finding] /\ kept \in [Handler -> SUBSET Finding]
    BY DEF Init
  <2>3. event \subseteq Finding /\ late \subseteq SUBSET Finding
    BY DEF Init
  <2>4. faults \in 0..MaxFaults
    BY PushAssumption DEF Init
  <2>5. overlap \in BOOLEAN
    BY DEF Init
  <2>6. QED  BY <1>1, <2>1, <2>2, <2>3, <2>4, <2>5 DEF TypeOK
<1>3. HeardRight /\ KeptSelected /\ Staged /\ Sole
  BY <1>1 DEF Init, HeardRight, KeptSelected, Staged, Sole
<1>4. PushedIsDelivered /\ CreatedIsRecorded
  BY <1>1 DEF PushedIsDelivered, CreatedIsRecorded
<1>5. QED  BY <1>2, <1>3, <1>4 DEF Inv

LEMMA DispatchedType ==
  ASSUME NEW s \in SUBSET Finding, NEW k \in Dispatched(s)
  PROVE  k \subseteq s \ HardExcluded /\ k # {}
BY DEF Dispatched

LEMMA BeginInv == ASSUME Inv, NEW h \in Handler, Begin(h) PROVE Inv'
<1>0. PICK s \in SUBSET Finding :
        \E k \in Dispatched(s) : /\ sel' = [sel EXCEPT ![h] = s]
                                 /\ kept' = [kept EXCEPT ![h] = k]
  BY DEF Begin
<1>1. PICK k \in Dispatched(s) : /\ sel' = [sel EXCEPT ![h] = s]
                                 /\ kept' = [kept EXCEPT ![h] = k]
  BY <1>0
<1>2. k \subseteq s \ HardExcluded /\ k # {} /\ k \subseteq Finding
  BY DispatchedType
<1>3. /\ pc' = [pc EXCEPT ![h] = "prepared"] /\ pc[h] = "idle"
      /\ file.status # "pushed"
      /\ overlap' = (overlap \/ Active # {})
      /\ UNCHANGED <<file, event, late, reply, faults>>
  BY DEF Begin, MayPush
<1>4. TypeOK'
  BY <1>1, <1>2, <1>3 DEF Inv, TypeOK, Stages
<1>5. HeardRight'
  BY <1>1, <1>3 DEF Inv, TypeOK, HeardRight
<1>6. KeptSelected' /\ Staged'
  BY <1>1, <1>2, <1>3 DEF Inv, TypeOK, KeptSelected, Staged
<1>7. Sole'
  BY <1>3 DEF Inv, TypeOK, Sole, Active
<1>8. QED
  BY <1>3, <1>4, <1>5, <1>6, <1>7 DEF Inv, PushedIsDelivered, CreatedIsRecorded

LEMMA FileTypes ==
  /\ \A st \in {"absent", "empty", "garbled", "pushing", "failed", "pushed"} :
       Unreadable(st) \in File /\ Unreadable(st).status = st
  /\ Failed \in File /\ Failed.status = "failed"
  /\ \A h \in Handler : sel[h] \subseteq Finding =>
       /\ Pushing(h) \in File /\ Pushed(h) \in File
       /\ Pushing(h).status = "pushing" /\ Pushed(h).status = "pushed"
       /\ Pushed(h).bughashes = sel[h]
       /\ Pushed(h).created <=> reply[h] = "created"
BY DEF Unreadable, File, Failed, Pushing, Pushed

\* What a write leaves: the contents or a file nobody can parse.
LEMMA OverLeaves ==
  ASSUME NEW c, NEW f \in Over(c)
  PROVE  f = c \/ f = Unreadable("garbled")
BY DEF Over

\* A step of a handler that goes on, or stops, and touches neither the event nor
\* the late requests, but may replace the file by one that is not pushed.
LEMMA ProceedInv ==
  ASSUME Inv, NEW h \in Handler, NEW p \in Stages \ {"idle", "record", "recording"},
         pc[h] # "idle", pc' = [pc EXCEPT ![h] = p], file' \in File,
         file'.status # "absent" \/ file' = file,
         file'.status # "pushed" \/ file' = file,
         p \in {"post", "waiting"} => file'.status # "absent",
         UNCHANGED <<event, late, sel, kept, reply, overlap>>,
         faults' \in 0..MaxFaults
  PROVE  Inv'
<1>1. TypeOK'
  BY DEF Inv, TypeOK
<1>2. HeardRight' /\ KeptSelected'
  BY DEF Inv, TypeOK, HeardRight, KeptSelected
<1>3. Staged'
  BY DEF Inv, TypeOK, Staged
<1>4. Sole'
  BY DEF Inv, TypeOK, Sole
<1>5. PushedIsDelivered' /\ CreatedIsRecorded'
  BY DEF Inv, PushedIsDelivered, CreatedIsRecorded
<1>6. QED  BY <1>1, <1>2, <1>3, <1>4, <1>5 DEF Inv

\* A handler that leaves, the file now being one its write may have left.
LEMMA LeaveInv ==
  ASSUME Inv, NEW h \in Handler, pc[h] # "idle", Leave(h), file' \in File,
         file'.status # "absent" \/ file' = file,
         file'.status = "pushed" =>
           \/ file' = file
           \/ /\ pc[h] = "recording"
              /\ file'.bughashes = sel[h]
              /\ file'.created <=> reply[h] = "created",
         UNCHANGED <<event, late>>, faults' \in 0..MaxFaults
  PROVE  Inv'
<1>1. TypeOK'
  BY DEF Inv, TypeOK, Leave, Stages
<1>2. HeardRight' /\ KeptSelected'
  BY DEF Inv, TypeOK, HeardRight, KeptSelected, Leave
<1>3. Staged'
  BY DEF Inv, TypeOK, Staged, Leave
<1>4. Sole'
  <2>1. ASSUME ~overlap PROVE \A g \in Handler : pc'[g] = "idle"
    BY <2>1 DEF Inv, TypeOK, Sole, Leave
  <2>2. ASSUME overlap, Active = {h} PROVE \A g \in Handler : pc'[g] = "idle"
    BY <2>2 DEF Inv, TypeOK, Active, Leave
  <2>3. overlap' => overlap /\ Active # {h}
    BY DEF Leave
  <2>4. ~overlap' => ~overlap \/ Active = {h}
    BY DEF Leave
  <2>5. QED  BY <2>1, <2>2, <2>4 DEF Sole
<1>5. PushedIsDelivered' /\ CreatedIsRecorded'
  <2>1. pc[h] = "recording" => event # {}
    BY DEF Inv, HeardRight
  <2>2. reply[h] = "created" => event # {} /\ event \subseteq sel[h] \ HardExcluded
    BY DEF Inv, HeardRight, KeptSelected
  <2>3. QED
    BY <2>1, <2>2 DEF Inv, PushedIsDelivered, CreatedIsRecorded
<1>6. QED  BY <1>1, <1>2, <1>3, <1>4, <1>5 DEF Inv

LEMMA WriteFailsFacts ==
  ASSUME Inv, NEW h \in Handler, NEW p, NEW q, WriteFails(h, p, q)
  PROVE  /\ pc[h] \in {p, q} /\ faults' \in 0..MaxFaults
         /\ file' \in File
         /\ file' = file \/ file'.status = "garbled"
<1>1. pc[h] \in {p, q} /\ (file' = file \/ file' = Unreadable("garbled"))
  BY DEF WriteFails
<1>2. faults' \in 0..MaxFaults
  BY PushAssumption DEF WriteFails, Inv, TypeOK
<1>3. QED  BY <1>1, <1>2, FileTypes DEF Inv, TypeOK

LEMMA QuietInv ==
  ASSUME Inv, NEW h \in Handler,
         UploadFails(h) \/ Post(h) \/ Reject(h)
  PROVE  Inv'
<1>1. file' = file /\ file \in File /\ faults' = faults /\ faults \in 0..MaxFaults
  BY DEF UploadFails, Post, Reject, Inv, TypeOK
<1>2. pc[h] = "post" => file.status # "absent"
  BY DEF Inv, Staged
<1>3. UNCHANGED <<event, late, sel, kept, reply, overlap>>
  BY DEF UploadFails, Post, Reject
<1>4. PICK p \in {"fail", "waiting"} :
        /\ pc' = [pc EXCEPT ![h] = p]
        /\ pc[h] # "idle" /\ (p = "waiting" => pc[h] = "post")
  BY DEF UploadFails, Post, Reject
<1>5. QED  BY <1>1, <1>2, <1>3, <1>4, ProceedInv DEF Stages

LEMMA SucceedInv == ASSUME Inv, NEW h \in Handler, Succeed(h) PROVE Inv'
<1>1. TypeOK'
  BY DEF Succeed, Inv, TypeOK, Stages
<1>2. HeardRight' /\ KeptSelected'
  BY DEF Succeed, Accepted, Inv, TypeOK, HeardRight, KeptSelected
<1>3. Staged' /\ Sole'
  BY DEF Succeed, Inv, TypeOK, Staged, Sole
<1>4. QED
  BY <1>1, <1>2, <1>3 DEF Succeed, Inv, PushedIsDelivered, CreatedIsRecorded

LEMMA GiveUpInv == ASSUME Inv, NEW h \in Handler, GiveUp(h) PROVE Inv'
<1>1. TypeOK'
  BY DEF GiveUp, Inv, TypeOK, Stages
<1>2. HeardRight' /\ KeptSelected'
  BY DEF GiveUp, Inv, TypeOK, HeardRight, KeptSelected
<1>3. Staged' /\ Sole'
  BY DEF GiveUp, Inv, TypeOK, Staged, Sole
<1>4. QED
  BY <1>1, <1>2, <1>3 DEF GiveUp, Inv, PushedIsDelivered, CreatedIsRecorded

LEMMA ReceiveInv == ASSUME Inv, NEW h \in Handler, Receive(h) PROVE Inv'
<1>1. kept[h] \subseteq Finding /\ kept[h] # {} /\ file.status # "absent"
  BY DEF Receive, Inv, TypeOK, KeptSelected, Staged
<1>2. PICK r \in {"created", "already", "blank", "error"} :
        /\ reply' = [reply EXCEPT ![h] = r]
        /\ event' = event \/ (event = {} /\ event' = kept[h])
        /\ r = "created" => event' = kept[h]
        /\ r \in {"created", "already", "blank"} => event' # {}
  BY <1>1 DEF Receive
<1>3. /\ pc[h] = "waiting" /\ reply[h] = "none"
      /\ UNCHANGED <<file, late, pc, sel, kept, faults, overlap>>
  BY DEF Receive
<1>4. TypeOK'
  BY <1>1, <1>2, <1>3 DEF Inv, TypeOK
<1>5. HeardRight'
  BY <1>1, <1>2, <1>3 DEF Inv, TypeOK, HeardRight
<1>6. KeptSelected' /\ Staged' /\ Sole'
  BY <1>1, <1>2, <1>3 DEF Inv, KeptSelected, Staged, Sole
<1>7. PushedIsDelivered' /\ CreatedIsRecorded'
  BY <1>1, <1>2, <1>3 DEF Inv, PushedIsDelivered, CreatedIsRecorded
<1>8. QED  BY <1>4, <1>5, <1>6, <1>7 DEF Inv

LEMMA ArriveInv == ASSUME Inv, ArriveLate PROVE Inv'
<1>1. TypeOK'
  BY DEF ArriveLate, Inv, TypeOK
<1>2. HeardRight' /\ KeptSelected'
  BY DEF ArriveLate, Inv, HeardRight, KeptSelected
<1>3. Staged' /\ Sole'
  BY DEF ArriveLate, Inv, Staged, Sole
<1>4. PushedIsDelivered' /\ CreatedIsRecorded'
  BY DEF ArriveLate, Inv, PushedIsDelivered, CreatedIsRecorded
<1>5. QED  BY <1>1, <1>2, <1>3, <1>4 DEF Inv

LEMMA OpenInv ==
  ASSUME Inv, NEW h \in Handler, OpenPushing(h) \/ OpenFailed(h)
  PROVE  Inv'
<1>1. /\ file' = Unreadable("empty")
      /\ UNCHANGED <<event, late, sel, kept, reply, faults, overlap>>
  BY DEF OpenPushing, OpenFailed, Open
<1>2. PICK p \in {"staging", "failing"} :
        pc' = [pc EXCEPT ![h] = p] /\ pc[h] # "idle"
  BY DEF OpenPushing, OpenFailed, Open
<1>3. faults' \in 0..MaxFaults /\ file' \in File /\ file'.status = "empty"
  BY <1>1, FileTypes DEF Inv, TypeOK
<1>4. QED  BY <1>1, <1>2, <1>3, ProceedInv DEF Stages

LEMMA OpenPushedInv == ASSUME Inv, NEW h \in Handler, OpenPushed(h) PROVE Inv'
<1>1. file' \in File /\ file'.status = "empty"
  BY FileTypes DEF OpenPushed, Open
<1>2. TypeOK'
  BY <1>1 DEF OpenPushed, Open, Inv, TypeOK, Stages
<1>3. HeardRight' /\ KeptSelected'
  BY DEF OpenPushed, Open, Inv, TypeOK, HeardRight, KeptSelected
<1>4. Staged' /\ Sole'
  BY <1>1 DEF OpenPushed, Open, Inv, TypeOK, Staged, Sole
<1>5. QED
  BY <1>1, <1>2, <1>3, <1>4 DEF Inv, PushedIsDelivered, CreatedIsRecorded

LEMMA WritePushingInv == ASSUME Inv, NEW h \in Handler, WritePushing(h) PROVE Inv'
<1>1. file' = Pushing(h) \/ file' = Unreadable("garbled")
  BY OverLeaves DEF WritePushing
<1>2. file' \in File /\ file'.status \in {"pushing", "garbled"}
  BY <1>1, FileTypes DEF Inv, TypeOK
<1>3. QED
  BY <1>2, ProceedInv DEF WritePushing, Stages, Inv, TypeOK

LEMMA WriteLastInv ==
  ASSUME Inv, NEW h \in Handler, WritePushed(h) \/ WriteFailed(h)
  PROVE  Inv'
<1>1. \/ pc[h] = "recording" /\ file' = Pushed(h)
      \/ pc[h] = "failing" /\ file' = Failed
      \/ file' = Unreadable("garbled")
  BY OverLeaves DEF WritePushed, WriteFailed
<1>2. /\ pc[h] # "idle" /\ Leave(h) /\ UNCHANGED <<event, late, faults>>
      /\ faults \in 0..MaxFaults /\ sel[h] \subseteq Finding
  BY DEF WritePushed, WriteFailed, Inv, TypeOK
<1>3. /\ file' \in File
      /\ file'.status # "absent"
      /\ file'.status = "pushed" =>
           /\ pc[h] = "recording"
           /\ file'.bughashes = sel[h]
           /\ file'.created <=> reply[h] = "created"
  BY <1>1, <1>2, FileTypes
<1>4. QED  BY <1>2, <1>3, LeaveInv

LEMMA FailingInv ==
  ASSUME Inv, NEW h \in Handler, PushingFails(h) \/ PushedFails(h) \/ FailedFails(h)
  PROVE  Inv'
<1>1. PICK p \in Stages \ {"idle"}, q \in Stages \ {"idle"} : WriteFails(h, p, q)
  BY DEF PushingFails, PushedFails, FailedFails, Stages
<1>2. /\ pc[h] # "idle" /\ faults' \in 0..MaxFaults
      /\ file' \in File /\ (file' = file \/ file'.status = "garbled")
  BY <1>1, WriteFailsFacts
<1>3. Leave(h) /\ UNCHANGED <<event, late>>
  BY DEF PushingFails, PushedFails, FailedFails
<1>4. QED  BY <1>2, <1>3, LeaveInv

LEMMA CrashInv == ASSUME Inv, Crash PROVE Inv'
<1>1. TypeOK'
  <2>1. /\ pc' \in [Handler -> Stages]
        /\ reply' \in [Handler -> {"none", "created", "already", "blank", "error"}]
    BY DEF Crash, Stages
  <2>2. sel' \in [Handler -> SUBSET Finding] /\ kept' \in [Handler -> SUBSET Finding]
    BY DEF Crash
  <2>3. late' \subseteq SUBSET Finding
    BY DEF Crash, Inv, TypeOK
  <2>4. faults' \in 0..MaxFaults
    BY PushAssumption DEF Crash, Inv, TypeOK
  <2>5. overlap' \in BOOLEAN
    BY DEF Crash
  <2>6. QED  BY <2>1, <2>2, <2>3, <2>4, <2>5 DEF Crash, Inv, TypeOK
<1>2. HeardRight' /\ KeptSelected'
  BY DEF Crash, HeardRight, KeptSelected
<1>3. Staged'
  BY DEF Crash, Inv, Staged
<1>4. Sole'
  BY DEF Crash, Sole
<1>5. QED
  BY <1>1, <1>2, <1>3, <1>4 DEF Crash, Inv, PushedIsDelivered, CreatedIsRecorded

LEMMA NextInv == Inv /\ [Next]_vars => Inv'
<1> SUFFICES ASSUME Inv, [Next]_vars PROVE Inv'
  OBVIOUS
<1>1. ASSUME NEW h \in Handler, Begin(h) \/ Serve(h) \/ Receive(h) PROVE Inv'
  BY <1>1, BeginInv, QuietInv, SucceedInv, GiveUpInv, ReceiveInv, OpenInv,
     OpenPushedInv, WritePushingInv, WriteLastInv, FailingInv DEF Serve
<1>2. CASE UNCHANGED vars
  BY <1>2 DEF vars, Inv, TypeOK, HeardRight, KeptSelected, Staged, Sole,
              PushedIsDelivered, CreatedIsRecorded
<1>3. QED  BY <1>1, <1>2, ArriveInv, CrashInv DEF Next

LEMMA InvHolds == Spec => []Inv
BY InitInv, NextInv, PTL DEF Spec

-----------------------------------------------------------------------------
(* The theorems.                                                           *)

\* Whatever handlers overlap, time out or die: a run the file calls pushed has
\* its event at the receiver.
THEOREM PushedDelivered == Spec => []PushedIsDelivered
BY InvHolds, PTL DEF Inv

\* A push that says it created the event recorded all the event holds, and
\* dispatched nothing that was hard-excluded.
THEOREM CreatedRecorded == Spec => []CreatedIsRecorded
BY InvHolds, PTL DEF Inv

\* No request is sent for a run without a file that says so.
THEOREM SentIsSeen == Spec => []NothingSentUnseen
<1>1. Inv => NothingSentUnseen
  BY DEF Inv, Staged, NothingSentUnseen
<1>2. QED  BY <1>1, InvHolds, PTL

\* Without overlapping requests pushed is final.
THEOREM PushedFinal == Spec => PushedIsFinal
<1>1. Inv /\ [Next]_vars =>
        [file.status = "pushed" /\ ~overlap => file' = file]_vars
  <2> SUFFICES ASSUME Inv, [Next]_vars, file.status = "pushed", ~overlap
               PROVE  file' = file
    OBVIOUS
  <2>1. \A h \in Handler : pc[h] = "idle"
    BY DEF Inv, Sole
  <2>2. ASSUME NEW h \in Handler, Begin(h) \/ Serve(h) \/ Receive(h)
        PROVE  file' = file
    BY <2>1, <2>2 DEF Begin, Serve, Receive, UploadFails, OpenPushing, WritePushing,
       PushingFails, Post, Succeed, Reject, GiveUp, OpenPushed, WritePushed,
       PushedFails, OpenFailed, WriteFailed, FailedFails, Open, WriteFails
  <2>3. QED  BY <2>2 DEF Next, ArriveLate, Crash, vars
<1>2. QED  BY <1>1, InvHolds, PTL DEF Spec, PushedIsFinal
=============================================================================
