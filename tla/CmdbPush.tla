------------------------------ MODULE CmdbPush ------------------------------
(***************************************************************************)
(* Dispatching the findings of one run to the CMDB: the handlers of        *)
(* POST /api/runs/{run_id}/push-to-cmdb, which share cmdb_push.json without *)
(* a lock, and the external receiver, which keeps one event per run and    *)
(* answers already_pushed to every further request for it.                 *)
(*                                                                         *)
(* A request that a handler stopped waiting for may still arrive.  Writing *)
(* the file is opening (which truncates) and writing at offset 0, so two   *)
(* writers may garble it.  A file that is empty or garbled does not parse. *)
(***************************************************************************)
EXTENDS Integers, FiniteSets

CONSTANTS
  Handler,       \* requests that may be served at once
  Finding,       \* the bughashes of the run
  HardExcluded,  \* findings with an exclusion_reason
  Exempt,        \* true positives of a type exempt outside public networks
  MaxFaults      \* bound on crashes and on failed writes, together

ASSUME PushAssumption ==
  /\ HardExcluded \subseteq Finding
  /\ Exempt \subseteq Finding
  /\ MaxFaults \in Nat

VARIABLES
  file,     \* cmdb_push.json
  event,    \* the findings of the receiver's event, {} if there is none
  late,     \* requests nobody waits for, still on their way
  pc,       \* where a handler is
  sel,      \* bughashes its client selected
  kept,     \* those it dispatches
  reply,    \* the receiver's answer to it
  faults,   \* crashes and failed writes so far
  overlap   \* history: two handlers were active at once since none was

vars == <<file, event, late, pc, sel, kept, reply, faults, overlap>>

File == [status : {"absent", "empty", "garbled", "pushing", "failed", "pushed"},
         bughashes : SUBSET Finding, created : BOOLEAN]

Unreadable(status) == [status |-> status, bughashes |-> {}, created |-> FALSE]

Stages == {"idle", "prepared", "staging", "post", "waiting",
           "record", "recording", "fail", "failing"}

Active == {h \in Handler : pc[h] # "idle"}

\* countSelected leaves hard-excluded findings out, filterEnvExemption an exempt
\* one unless it is forced or the application is taken to be public.
Dispatched(s) == {(s \ HardExcluded) \ x : x \in SUBSET Exempt} \ {{}}

-----------------------------------------------------------------------------
Init ==
  /\ file = Unreadable("absent")
  /\ event = {}
  /\ late = {}
  /\ pc = [h \in Handler |-> "idle"]
  /\ sel = [h \in Handler |-> {}]
  /\ kept = [h \in Handler |-> {}]
  /\ reply = [h \in Handler |-> "none"]
  /\ faults = 0
  /\ overlap = FALSE

Leave(h) ==
  /\ pc' = [pc EXCEPT ![h] = "idle"]
  /\ sel' = [sel EXCEPT ![h] = {}]
  /\ kept' = [kept EXCEPT ![h] = {}]
  /\ reply' = [reply EXCEPT ![h] = "none"]
  /\ overlap' = (overlap /\ Active # {h})

\* A seeded fault: only a push under way is left alone.
MayPushUnlessPushing == file.status # "pushing"

\* A file that does not parse reads as no file; pushing and failed are retried.
MayPush == file.status # "pushed"

\* The file is checked, the selection read and filtered, the report rendered.
\* A request that is answered with what the file holds, or refused, changes
\* nothing.
Begin(h) ==
  /\ pc[h] = "idle"
  /\ MayPush
  /\ \E s \in SUBSET Finding :
     \E k \in Dispatched(s) :
       /\ sel' = [sel EXCEPT ![h] = s]
       /\ kept' = [kept EXCEPT ![h] = k]
  /\ pc' = [pc EXCEPT ![h] = "prepared"]
  /\ overlap' = (overlap \/ Active # {})
  /\ UNCHANGED <<file, event, late, reply, faults>>

\* The upload of the report fails.
UploadFails(h) ==
  /\ pc[h] = "prepared"
  /\ pc' = [pc EXCEPT ![h] = "fail"]
  /\ UNCHANGED <<file, event, late, sel, kept, reply, faults, overlap>>

-----------------------------------------------------------------------------
(* Writing the file.                                                       *)

Open(h, from, to) ==
  /\ pc[h] = from
  /\ file' = Unreadable("empty")
  /\ pc' = [pc EXCEPT ![h] = to]

\* What the file may hold after a write at offset 0: over another writer's
\* longer contents the end of those remains.
Over(contents) ==
  IF file.status = "empty" THEN {contents}
  ELSE {contents, Unreadable("garbled")}

\* Opening fails and leaves the old contents alone, or writing does, perhaps
\* after some of the bytes.
WriteFails(h, closed, open) ==
  /\ faults < MaxFaults
  /\ \/ pc[h] = closed /\ UNCHANGED file
     \/ pc[h] = open /\ file' \in {file, Unreadable("garbled")}
  /\ faults' = faults + 1

Pushing(h) ==
  [status |-> "pushing", bughashes |-> sel[h], created |-> FALSE]

Failed == Unreadable("failed")

\* A seeded fault: the event is taken to be this handler's whatever the answer.
PushedAsCreated(h) ==
  [status |-> "pushed", bughashes |-> sel[h], created |-> TRUE]

\* bughashes are the selected ones, event_created is the receiver's word.
Pushed(h) ==
  [status |-> "pushed", bughashes |-> sel[h], created |-> reply[h] = "created"]

\* Stage 1: without the file no request is sent.
OpenPushing(h) ==
  /\ Open(h, "prepared", "staging")
  /\ UNCHANGED <<event, late, sel, kept, reply, faults, overlap>>

WritePushing(h) ==
  /\ pc[h] = "staging"
  /\ file' \in Over(Pushing(h))
  /\ pc' = [pc EXCEPT ![h] = "post"]
  /\ UNCHANGED <<event, late, sel, kept, reply, faults, overlap>>

PushingFails(h) ==
  /\ WriteFails(h, "prepared", "staging")
  /\ Leave(h)
  /\ UNCHANGED <<event, late>>

\* Stage 2, the error of the write is dropped.
OpenPushed(h) ==
  /\ Open(h, "record", "recording")
  /\ UNCHANGED <<event, late, sel, kept, reply, faults, overlap>>

WritePushed(h) ==
  /\ pc[h] = "recording"
  /\ file' \in Over(Pushed(h))
  /\ Leave(h)
  /\ UNCHANGED <<event, late, faults>>

PushedFails(h) ==
  /\ WriteFails(h, "record", "recording")
  /\ Leave(h)
  /\ UNCHANGED <<event, late>>

\* writeFailedState, the error of the write is dropped.
OpenFailed(h) ==
  /\ Open(h, "fail", "failing")
  /\ UNCHANGED <<event, late, sel, kept, reply, faults, overlap>>

WriteFailed(h) ==
  /\ pc[h] = "failing"
  /\ file' \in Over(Failed)
  /\ Leave(h)
  /\ UNCHANGED <<event, late, faults>>

FailedFails(h) ==
  /\ WriteFails(h, "fail", "failing")
  /\ Leave(h)
  /\ UNCHANGED <<event, late>>

-----------------------------------------------------------------------------
(* The request.                                                            *)

\* client.Do: the request is on its way.
Post(h) ==
  /\ pc[h] = "post"
  /\ pc' = [pc EXCEPT ![h] = "waiting"]
  /\ UNCHANGED <<file, event, late, sel, kept, reply, faults, overlap>>

\* The receiver: one event per run, made from the first request it accepts.  The
\* answer may be lost or replaced by an error on its way back, or arrive without
\* a body that parses.
Receive(h) ==
  /\ pc[h] = "waiting"
  /\ reply[h] = "none"
  /\ \/ /\ event = {}
        /\ event' = kept[h]
        /\ \E r \in {"created", "blank", "error"} : reply' = [reply EXCEPT ![h] = r]
     \/ /\ event # {}
        /\ \E r \in {"already", "blank", "error"} : reply' = [reply EXCEPT ![h] = r]
        /\ UNCHANGED event
     \/ /\ reply' = [reply EXCEPT ![h] = "error"]
        /\ UNCHANGED event
  /\ UNCHANGED <<file, late, pc, sel, kept, faults, overlap>>

\* A seeded fault: every answer counts as accepted.
AcceptsAnyAnswer(h) == reply[h] # "none"

\* 2xx; the error of reading or parsing the body is dropped.
Accepted(h) == reply[h] \in {"created", "already", "blank"}

Succeed(h) ==
  /\ pc[h] = "waiting"
  /\ Accepted(h)
  /\ pc' = [pc EXCEPT ![h] = "record"]
  /\ UNCHANGED <<file, event, late, sel, kept, reply, faults, overlap>>

Reject(h) ==
  /\ pc[h] = "waiting"
  /\ reply[h] = "error"
  /\ pc' = [pc EXCEPT ![h] = "fail"]
  /\ UNCHANGED <<file, event, late, sel, kept, reply, faults, overlap>>

\* After 30 s, when the client of the handler disconnects, or when the
\* connection breaks, the handler stops waiting.
TimesOut(h) == reply[h] = "none"

GiveUp(h) ==
  /\ pc[h] = "waiting"
  /\ TimesOut(h)
  /\ late' = late \cup {kept[h]}
  /\ pc' = [pc EXCEPT ![h] = "fail"]
  /\ UNCHANGED <<file, event, sel, kept, reply, faults, overlap>>

\* A request nobody waits for arrives after all.
ArriveLate ==
  /\ event = {}
  /\ event' \in late
  /\ UNCHANGED <<file, late, pc, sel, kept, reply, faults, overlap>>

\* The server dies; requests on their way still arrive.
Crash ==
  /\ faults < MaxFaults
  /\ Active # {}
  /\ faults' = faults + 1
  /\ late' = late \cup {kept[h] : h \in {i \in Handler :
                                           pc[i] = "waiting" /\ reply[i] = "none"}}
  /\ pc' = [h \in Handler |-> "idle"]
  /\ sel' = [h \in Handler |-> {}]
  /\ kept' = [h \in Handler |-> {}]
  /\ reply' = [h \in Handler |-> "none"]
  /\ overlap' = FALSE
  /\ UNCHANGED <<file, event>>

Serve(h) ==
  \/ UploadFails(h)
  \/ OpenPushing(h) \/ WritePushing(h) \/ PushingFails(h)
  \/ Post(h) \/ Succeed(h) \/ Reject(h) \/ GiveUp(h)
  \/ OpenPushed(h) \/ WritePushed(h) \/ PushedFails(h)
  \/ OpenFailed(h) \/ WriteFailed(h) \/ FailedFails(h)

Next ==
  \/ \E h \in Handler : Begin(h) \/ Serve(h) \/ Receive(h)
  \/ ArriveLate
  \/ Crash

Spec == Init /\ [][Next]_vars

-----------------------------------------------------------------------------
(* Properties.                                                             *)

TypeOK ==
  /\ file \in File
  /\ event \subseteq Finding
  /\ late \subseteq SUBSET Finding
  /\ pc \in [Handler -> Stages]
  /\ sel \in [Handler -> SUBSET Finding]
  /\ kept \in [Handler -> SUBSET Finding]
  /\ reply \in [Handler -> {"none", "created", "already", "blank", "error"}]
  /\ faults \in 0..MaxFaults
  /\ overlap \in BOOLEAN

\* What the file calls pushed, the receiver has: whichever handlers overlapped,
\* timed out or died, nobody is told of an event that does not exist.
PushedIsDelivered == file.status = "pushed" => event # {}

\* Where the file says that its push created the event, the event holds nothing
\* but what that file records, and nothing that was excluded.
CreatedIsRecorded ==
  file.status = "pushed" /\ file.created =>
    event # {} /\ event \subseteq file.bughashes \ HardExcluded

\* The receiver hears of a run only after stage 1 left a file behind ("against a
\* half push"): the operator can see that something was under way.
NothingSentUnseen == event # {} \/ late # {} => file.status # "absent"

\* As long as no two requests for the run overlap, pushed is final: neither a
\* retry nor a late answer turns it back.
PushedIsFinal ==
  [][file.status = "pushed" /\ ~overlap => file' = file]_vars

=============================================================================
