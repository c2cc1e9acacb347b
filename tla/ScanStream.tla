----------------------------- MODULE ScanStream -----------------------------
(***************************************************************************)
(* scanStreamHandler: a scan whose callbacks OnStart and OnAlert send into *)
(* one bounded channel, which one goroutine, the drain, empties into the   *)
(* response.  The scan itself is ScanPipeline, step for step: its workers  *)
(* block in a callback while the channel is full, and its handler closes   *)
(* the channel and waits for the drain before it returns.                  *)
(***************************************************************************)
EXTENDS ScanPipeline, Sequences

CONSTANT Capacity   \* of the channel

ASSUME CapacityAssumption == Capacity \in Nat \ {0}

VARIABLES
  channel,   \* channel[r]: evCh, as a sequence of events
  closed,    \* closed[r]: close(evCh) was called
  drain,     \* drain[r]: the drain goroutine
  writing,   \* writing[r]: the event it is writing, if any
  received,  \* received[r]: the events the client of r got
  gone       \* gone[r]: the client disconnected

stream == <<channel, closed, drain, writing, received, gone>>
streamVars == <<vars, stream>>

NoEvent == [kind |-> "none", n |-> 0]
DoneEvent == [kind |-> "done", n |-> 0]
StartEvent(n) == [kind |-> "start", n |-> n]
ProgressEvent(n) == [kind |-> "progress", n |-> n]

StreamInit ==
  /\ Init
  /\ channel = [r \in Run |-> <<>>]
  /\ closed = [r \in Run |-> FALSE]
  /\ drain = [r \in Run |-> "none"]
  /\ writing = [r \in Run |-> NoEvent]
  /\ received = [r \in Run |-> <<>>]
  /\ gone = [r \in Run |-> FALSE]

\* evCh <- ev blocks while the channel is full.
Send(r, event) ==
  /\ Len(channel[r]) < Capacity
  /\ channel' = [channel EXCEPT ![r] = Append(@, event)]
  /\ UNCHANGED <<closed, drain, writing, received, gone>>

-----------------------------------------------------------------------------
(* The handler and its workers.                                            *)

\* The handler starts the drain, then runPipeline.
StreamStart(r) ==
  /\ Start(r)
  /\ drain' = [drain EXCEPT ![r] = "running"]
  /\ UNCHANGED <<channel, closed, writing, received, gone>>

\* An early error of runPipeline: no callback was called.
StreamRefuse(r) ==
  /\ Refuse(r)
  /\ drain' = [drain EXCEPT ![r] = "running"]
  /\ UNCHANGED <<channel, closed, writing, received, gone>>

\* OnStart is called by the run's own goroutine.
SendStart(r) ==
  /\ PartitionAndStart(r)
  /\ Send(r, StartEvent(total'[r]))

\* OnAlert is called by the goroutine of the alert, which holds its permit.
SendProgress(r, a) ==
  /\ Emit(r, a)
  /\ Send(r, ProgressEvent(number[r][a]))

\* What the run's own goroutine does without a callback.
Orchestrate(r) ==
  /\ \/ BeginFanOut(r) \/ EndFanOut(r) \/ MakeReport(r) \/ Return(r) \/ WriteRun(r)
     \/ \E a \in Alert :
          \/ Route(r, a) \/ RouteUnread(r, a) \/ Resume(r, a) \/ ResumeUnread(r, a)
          \/ Dispatch(r, a)
          \/ OpenCheckpoint(r, a) \/ WriteCheckpoint(r, a) \/ CheckpointFails(r, a)
          \/ Upsert(r, a) \/ UpsertFails(r, a)
  /\ UNCHANGED stream

\* Inside runPipeline, before it returns: the scan of the dependencies.
AttachedScanEnds(r) == ScaReturns(r) /\ UNCHANGED stream

\* What the goroutine of an alert does before and after its callback.
JudgeAlert(r, a) == Judge(r, a) /\ UNCHANGED stream
CollectAlert(r, a) == Collect(r, a) /\ UNCHANGED stream

\* runPipeline returned: the handler fills in done and closes the channel.
Close(r) ==
  /\ Over(r)
  /\ ~closed[r]
  /\ closed' = [closed EXCEPT ![r] = TRUE]
  /\ UNCHANGED <<vars, channel, drain, writing, received, gone>>

\* A seeded fault: the handler returns without waiting for drainDone.
MayReturnOnceClosed(r) == closed[r]

MayReturn(r) == closed[r] /\ drain[r] = "ended"

\* The channel and the response go with the handler, the drain only once it ended.
StreamRespond(r) ==
  /\ MayReturn(r)
  /\ Respond(r)
  /\ channel' = [channel EXCEPT ![r] = <<>>]
  /\ closed' = [closed EXCEPT ![r] = FALSE]
  /\ drain' = [drain EXCEPT ![r] = IF @ = "ended" THEN "none" ELSE @]
  /\ received' = [received EXCEPT ![r] = <<>>]
  /\ gone' = [gone EXCEPT ![r] = FALSE]
  /\ UNCHANGED writing

StreamCrash ==
  /\ Crash
  /\ channel' = [r \in Run |-> <<>>]
  /\ closed' = [r \in Run |-> FALSE]
  /\ drain' = [r \in Run |-> "none"]
  /\ writing' = [r \in Run |-> NoEvent]
  /\ received' = [r \in Run |-> <<>>]
  /\ gone' = [r \in Run |-> FALSE]

-----------------------------------------------------------------------------
(* The drain and the client.                                               *)

\* A seeded fault: the end of the channel is tested before its contents.
TakesDoneEarly(r) == closed[r]

TakesDone(r) == closed[r] /\ channel[r] = <<>>

\* for ev := range evCh; once closed and empty, the drain goes on to "done".
Take(r) ==
  /\ drain[r] = "running"
  /\ writing[r] = NoEvent
  /\ \/ /\ TakesDone(r)
        /\ writing' = [writing EXCEPT ![r] = DoneEvent]
        /\ UNCHANGED channel
     \/ /\ ~TakesDone(r)
        /\ channel[r] # <<>>
        /\ writing' = [writing EXCEPT ![r] = Head(channel[r])]
        /\ channel' = [channel EXCEPT ![r] = Tail(@)]
  /\ UNCHANGED <<vars, closed, drain, received, gone>>

\* sseWrite and Flush return: the client got the event, or it is gone and the
\* error is dropped.
Written(r) ==
  /\ writing[r] # NoEvent
  /\ received' = IF gone[r] THEN received
                 ELSE [received EXCEPT ![r] = Append(@, writing[r])]
  /\ drain' = [drain EXCEPT ![r] = IF writing[r] = DoneEvent THEN "ended" ELSE @]
  /\ writing' = [writing EXCEPT ![r] = NoEvent]
  /\ UNCHANGED <<vars, channel, closed, gone>>

\* The client leaves; while the scan runs that cancels its context.
Disconnect(r) ==
  /\ ~gone[r]
  /\ \/ Cancel(r)
     \/ Over(r) /\ UNCHANGED vars
  /\ gone' = [gone EXCEPT ![r] = TRUE]
  /\ UNCHANGED <<channel, closed, drain, writing, received>>

StreamNext ==
  \/ \E r \in Run :
       \/ StreamStart(r) \/ StreamRefuse(r) \/ SendStart(r) \/ Orchestrate(r)
       \/ AttachedScanEnds(r) \/ Close(r) \/ StreamRespond(r) \/ Take(r) \/ Written(r) \/ Disconnect(r)
       \/ \E a \in Alert :
            JudgeAlert(r, a) \/ SendProgress(r, a) \/ CollectAlert(r, a)
  \/ StreamCrash

StreamSpec == StreamInit /\ [][StreamNext]_streamVars

\* The Go scheduler runs every goroutine to its next blocking point.  A judge call
\* is not assumed to return: a provider may stall in the middle of a body.  Nor is
\* the attached SCA scan, which asks an advisory service without a time-out, nor a
\* write to the response, which has no deadline: a client may stay and not read.
\* Nobody need start a scan, leave it or crash the server.
StreamFairness ==
  \A r \in Run :
    /\ WF_streamVars(SendStart(r) \/ Orchestrate(r) \/ Close(r) \/ StreamRespond(r))
    /\ WF_streamVars(Take(r))
    /\ \A a \in Alert : WF_streamVars(SendProgress(r, a) \/ CollectAlert(r, a))

StreamFairSpec == StreamSpec /\ StreamFairness

-----------------------------------------------------------------------------
(* Properties.                                                             *)

\* What the client has received is a stream in the order the handler promises:
\* one start with the total, then progress events of different alerts and no more
\* of them than the total says, then done; and done only after the event of every
\* alert that was judged.  A run refused before it started is a done alone, the only
\* stream without a start.
StreamTells ==
  \A r \in Run :
    LET got == received[r]
        progress == {i \in DOMAIN got : got[i].kind = "progress"}
    IN  /\ got # <<>> => got[1] = IF phase[r] = "refused" THEN DoneEvent
                                  ELSE StartEvent(total[r])
        /\ \A i \in DOMAIN got \ {1} : got[i].kind # "start"
        /\ \A i \in DOMAIN got : got[i] = DoneEvent => i = Len(got)
        /\ \A i, j \in progress : i # j => got[i].n # got[j].n
        /\ Cardinality(progress) <= total[r]
        /\ got # <<>> /\ got[Len(got)] = DoneEvent =>
             {got[i].n : i \in progress} = {number[r][a] : a \in emitted[r]}

\* A worker never sends on a closed channel, which would panic outside every
\* recover and end the server, and the handler never returns while the drain may
\* still write to its response.
ChannelDiscipline ==
  \A r \in Run :
    /\ closed[r] => At(r, {"judging", "counted"}) = {} /\ Over(r)
    /\ phase[r] = "idle" => drain[r] = "none" /\ writing[r] = NoEvent

\* The handler returns whenever its judge calls, the attached SCA scan and its writes
\* all return, with workers blocked on the full channel, a cancellation, failing
\* writes or a run refused before it started.
JudgesReturn(r) == \A a \in Alert : []<>(stage[r][a] # "judging")
AttachedReturns(r) == []<>(phase[r] # "written")
WritesReturn(r) == []<>(writing[r] = NoEvent)

StreamEnds ==
  \A r \in Run :
    JudgesReturn(r) /\ AttachedReturns(r) /\ WritesReturn(r) =>
      (phase[r] \in {"routing", "refused"} ~> phase[r] = "idle")
=============================================================================
