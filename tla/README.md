# Verification of codescan-service

TLA+ models of the decision path of codescan-service: the scan that takes the
alerts of a static analyser, asks a language model about each of them, and lets
later scans inherit the answers; the evidence it shows the model and holds its
answers against; the taint engine that evidence can be asked of; and what goes
on around a scan: the event stream, the clones, the fetching of bugs, the
dispatch of findings as tickets, the component scans (SCA).
TLC checks every model on small instances; TLAPS proves the central invariants
and the refinements for all values of the constants.

## 1. The system

A scan (`POST /scan`, its SSE and upload variants, `cmd/audit`) runs
`pipeline.Run`.  The router inherits verdicts from the bughash store
(production mode only); hard exclusion drops test files and the like; the
checkpoint skips what an earlier scan concluded; the rest fans out over a
weighted semaphore to `judge.JudgeOne`.  After all goroutines ended, the report
is made, and the persist loop writes the checkpoint and the store, judgement by
judgement.  `JudgeOne` slices the alert, enriches the slice, lets the model
explore the repository, looks the prompt up in the verdict cache, asks the
model, runs five guards over the answer, may ask a second time, and passes the
judgement through two verifiers and a falsifier before caching it.

| Component | State | Operations | Shares with |
|---|---|---|---|
| Orchestrator, `internal/pipeline` | phase of the run, a stage per alert, permits, completion counter, judgements | route, exclude, resume, dispatch, judge, emit, collect, report, persist, return | store, checkpoint directory, HTTP handler (callbacks, context) |
| Bughash store, `internal/bughash` | one sqlite row per bughash | lookup in the router, upsert in the persist loop | all scans; each opens its own handle |
| Checkpoint, `internal/checkpoint` | `<bughash>.json` | `Save` (truncate, write), `CompletedIDs` | all scans; never cleaned |
| Event stream, `cmd/server/main.go` | a channel of 64 events, a drain goroutine | send from workers, drain to the response, close | orchestrator, client |
| Judge chain, `internal/judge` | slice and judgement of one call | cache lookup, ask, guards, second question, verifiers, falsifier, cache upsert | verdict cache, model |
| Verdict cache, `internal/vcache` | row per sha256 of prompt, model, version; TTL | get, upsert, delete expired | all judge calls |
| Exploration, `internal/agentic`, and providers, `internal/llm` | conversation and log of one call | rounds of tool calls, retries, forced convergence, repair, second question | judge chain, model |
| Slicer, `internal/slice` | index of the repository, the slice of one call | hops, callers, mapper statements, enrichment, degradation | judge chain |
| Deterministic verifier, `internal/verifier` | none | probe guards, find contradictions, demote | judge chain |
| Taint engine, `taint/engine` | a store of types, calls, taints of one repository | two passes over the sources, call resolution, propagation, queries | exploration's engine tools |
| HTTP server, `cmd/server` | scan requests, event stream | scan, disconnect, push, label, SCA | everything |
| Codescan client, `internal/codescan` | clone directories, three TTL caches | fetch pages and details, summarise, clone, clean up | server |
| Run directories, `internal/runs`, `runsread` | files of a run | write, list, read | server, CMDB push |
| CMDB push, `cmd/server/cmdb_push.go` | `cmdb_push.json` of a run | stage, POST, mark | run directories, an external receiver |
| SCA scans, `internal/sca` | four files per repository, in-flight map | start, save, re-evaluate | server, audit scans |
| Labels, `internal/labels` | one append-only file | append, read | server |

The remaining packages (adapters, filters, CWE registry, prompts, faces,
fact guard, discovery, rendering) are pure functions, static tables or I/O;
`PROJECT.json` lists each with its reason.

What is hard here, and what correctness means for it:

- Scans are concurrent and share two stores that have no transaction in common.
  A verdict inherited later must have been in some report; the checkpoint may
  skip only what some report concluded, whatever crashes in between.
- The fan-out mixes a semaphore, a context, panics and callbacks that block on
  a bounded channel.  Permits must balance, events must be numbered densely,
  the report must wait for every goroutine, nobody may send on a closed channel,
  and the handler must return when its judge calls and its writes do.
- The judge chain has six stages that rewrite a verdict after the model gave it
  and a cache that repeats it.  None of them may invent one, a conclusive verdict must
  rest on known facts, and doubt must never be cached.
- The exploring model may answer anything.  Every path out of the loop must
  leave a conversation a provider accepts, within the budgets, and end.
- A slice is grown by five producers under six caps and shrunk by one.  What it
  leaves out must be said or mild, and what a probe finds in it must not
  overturn a verdict for reasons that are not on the path.
- The taint engine goes through Go maps while it adds to them, stops at caps, and
  walks each method once.  A "safe" must mean that no chain of calls leads to a
  sink, whatever was cut and in whatever order it went.
- The push is check-then-act over one file that several handlers truncate and
  write, with a request in between whose answer may be lost.  The file may never
  claim more than the receiver has.
- Three kinds of activity rewrite the four files of an SCA scan and its row in
  the database, one after the other; only one kind takes the guard.  What a done
  scan shows must be of one scan, and the guard must never be kept.
- Clones are check-then-act over directories that other calls clone, reset and
  remove; the fetching of bugs is concurrent over a list that changes and caches
  that expire.  A scan of a commit must read that commit, and what is answered
  must be the list without exactly what failed.

## 2. Modules

| Module | What it is |
|---|---|
| `ScanPipeline` | `pipeline.Run` with store and checkpoint; several runs, crashes, failed writes |
| `VerdictLedger` | what the store promises: an inheritable verdict was in a report |
| `ScanStream` | `ScanPipeline` behind the SSE handler: channel, drain, client |
| `JudgeChain` | `judge.JudgeOne` with the verdict cache; several calls at once |
| `ModelVerdict` | what the chain promises: only the model makes a verdict |
| `Exploration` | the conversation of one judge call: loop, harness, repair, second question |
| `Lists` | entries of a list at some of its places, a walk along a list |
| `RepositoryIndex`, `Slicer`, `Verifier` | the index and its look-ups; slicing and enrichment; probes and contradictions |
| `Evidence` | one report through slicing, enrichment, answer, promotion, verification |
| `TypeStore`, `TaintCheck`, `BodyCollector`, `TaintScan` | the engine's two passes and its call resolution |
| `TaintReasons` | what those passes should leave, said without scopes or order |
| `TaintFacts` | the propagation: worklist, rounds, sync |
| `CallGraph`, `SinkReach`, `TaintQueries` | the call graph; the walk for sinks; the other queries |
| `CodescanFetch` | pages, details, summaries, caches of the codescan client |
| `RepoCache` | `CloneSource` and the clean-up of clones |
| `CmdbPush` | the push handlers of one run over `cmdb_push.json`, and the receiver |
| `ScaScan` | scans, audits and re-evaluations of one SCA directory, and its row |
| `MC...` | instances for TLC |
| `ScanProofs` (of `ScanPipeline` and `ScanStream`), `TaintProofs` (of `TaintFacts` and `SinkReach`), `JudgeChainProofs`, `ExplorationProofs`, `EvidenceProofs`, `RepoCacheProofs`, `CmdbPushProofs`, `ScaScanProofs` | theorems |

How they compose.  `ScanStream` extends `ScanPipeline` and implements it: the
channel only delays its steps.  `ScanPipeline` and `JudgeChain` meet at one
interface: in `ScanPipeline` a judge call is a choice of a judgement, and of
the alert whose bughash it carries (`Judged`: a judgement made for a twin is
conclusive and has no fail_reason); `BorrowedAreConclusive`, proved of
`JudgeChain`, is that assumption.  `JudgeChain` in turn leaves open what the
model says, what a slice says and what a probe finds: `Exploration` is the
first, `Evidence` (over `Slicer`, `Verifier` and `RepositoryIndex`) the other
two.  `TaintScan` builds the store that `TaintFacts` propagates over and the
call graph that `SinkReach` and `TaintQueries` walk; those three take any store
and any graph.

### ScanPipeline

One state per point where another goroutine, another scan or a crash can
intervene.  `phase[r]` is the run's own goroutine; `stage[r][a]` how far the run
is with an alert.

| Action | Code |
|---|---|
| `Start`, `Respond`, `Cancel` | the scan handlers of `cmd/server`; a disconnect cancels `r.Context()` |
| `Refuse` | `runPipeline` fails before `pipeline.Run`: no registry, a report that does not parse |
| `Route`, `PartitionAndStart` | `routerSplit`, `hardexclusion.Partition`, `OnStart` |
| `Resume`, `BeginFanOut` | `CompletedIDs`, one file read per step |
| `RouteUnread`, `ResumeUnread` | a row or a file that cannot be read: both look-ups answer as if it were not there |
| `Dispatch`, `EndFanOut` | `sem.Acquire` and `g.Go`; the break when `Acquire` fails |
| `Judge`, `Emit`, `Collect` | the goroutine: judgement and `idx.Add(1)`; `OnAlert`; append and deferred `Release` |
| `MakeReport` | after `g.Wait` |
| `OpenCheckpoint`, `WriteCheckpoint`, `CheckpointFails` | `os.WriteFile` truncates, then writes; either may fail |
| `Upsert`, `UpsertFails` | `BughashStore.Upsert`, whose error is dropped |
| `Return`, `WriteRun` | `Run` returns; the run directory is written, or not |
| `ScaReturns` | the scan of the repository's dependencies, which `runPipeline` waits for (on by default) |
| `Crash` | the process dies; store and checkpoint survive |

Abstractions.  The order of the alerts is arbitrary, so loops over alerts take
them in any order.  A bughash is a function of the alert (`HashOf`).  Filters
run before `Run` and decide its input, which is arbitrary here.  `attachFaces`,
`BackfillDevFields` and traces change no verdict.  A run without store or
checkpoint does fewer steps and is not a separate mode.  The scan of a client
that went away is still reported and written: `Run` returns no error for it.
`sem.Acquire` fails on a done context even when a permit is free (x/sync 0.22).

### ScanStream

`channel[r]` is the progress channel, `drain[r]` the goroutine that empties it,
`writing[r]` the event it is about to write, `received[r]` what the client has.
`OnStart` and `OnAlert` become two steps each: blocked in `Send` while the
channel is full, and the step of `ScanPipeline` (`SendStart`, `SendProgress`).
`Close` follows the return of `runPipeline`, so the attached SCA scan too
(`AttachedScanEnds`), and `StreamRefuse` is a run that never calls back;
`StreamRespond` waits for the drain;
`Take` and `Written` are the drain, `Disconnect` the client.  The done event is
sent by the drain once the closed channel is empty (`TakesDone`).

### JudgeChain

A step runs from one access to the cache or call of the model to the next; the
guards in between are functions from judgements to judgements
(`EnforceDecisiveFactKnown`, `EnforceNoBareFp`,
`EnforceParameterizedSqliTpContradiction`, `EnforceEvidenceOnTp`,
`EnforceGroundedDataFlow`).

| Action | Code |
|---|---|
| `Begin`, `EmptySlice` | `realJudgeAlert` slices; a slice without hops ends the call |
| `LookupHit`, `LookupMiss` | the cache lookup; an uncertain row is a miss |
| `Ask`, `AskFails` | exploration, the model, `BuildJudgeResult`, the five guards |
| `RejudgeResolved`, `RejudgeUnresolved`, `RejudgeBareFp`, `RejudgeFails` | `RejudgeContractRejection` |
| `Verify` | `VerifyVerdict`, then the matrix of `DynamicVerify` |
| `Falsify` | the adversary |
| `StoreRow`, `StoreFails` | the gate and the upsert; an error of the database is dropped |
| `Return`, `Expire` | back to `pipeline.Run`; a row's TTL |

Abstractions.  An answer of the model is what `BuildJudgeResult` makes of it:
verdict, confidence, claimed types, whether evidence and a payload are given.
A slice is its decisive facts.  There are two readings of `forward_reachable`, as in
the code: the token the guards read and the structure the second question
reads.  Whether a data flow is grounded, what a probe finds and what the
adversary says are free choices.  The switches that turn the second question,
the dynamic verifier and the falsifier off are covered, since each of the three
may leave the judgement alone.  An expired row reads as absent.  The style of
the sink is chosen per call, although calls with one prompt would agree on it:
more behaviours than the code has.  `said` is a history variable.

### Exploration

`pc` is where the call is: asking in the loop, in the forced convergence
(`NoFinish`), in the single turn, text or repair path, or in the second
question; `attempt` is the harness's count.  `Ask`, `Fails`, `Retry`, `Answers`
are one request; `CallsTools`, `CallsVerdict`, `AnswerItself`,
`AnswerFromCache`, `Execute`, `EndTurn` the handling of a turn, call by call in
the code's order; `LoopOver`, `SingleTurn`, `GiveUp`, `Given`, `Unusable` the ways
out; `RejectFact`, `RejectBareFp`, `Rebuilt`, `Settle` the guards' and the second
question's.  Four requests go out beside the conversation (`Aside`): the repair of
a verdict that is nothing but text (`deformed`), the summary of a function that
is read for the second question (`distil`), the adversary (`falsify`) and the
fields that are missing (`backfill`); whatever comes back, the call goes on
(`AsideOver`).  A conversation is its size in units, the calls without a result,
whether a result answers no call, and the queries whose results it shows, as it is
handed to the provider: what a provider's conversion does to it is number 6 of
section 6.  `requests` is a history variable.  The requests of the enrichment by
the model come before this call and are counted nowhere here.

### RepositoryIndex, Slicer, Verifier, Evidence

The first three are pure operators; `Evidence` is the sequence of steps that uses them:
`Slicing`, `CalleeTier`, `MutatorTier`, `GuardTier`, `AgenticTier`, `Answer`,
`Promote`, `Refuse`, `Contest`, `Rejudge`, `Verify`, each one function of
`judge.go`, `guard.go`, `rejudge.go`, `enrich.go` (both packages), `promote.go`
and `verify.go`.  A method is an identifier whose text
tells its calls, its parameters and what the pattern searches find; matching of
names with receivers, the choice among definitions, the order of every walk and
every cap are as in the code.  Left out: the prose of notes (kept as kinds), class
contexts, snippets of source, control-flow mutual exclusion, line numbers, the
witnesses of a bypass.  A hop's text has a size, and `MaxContextTokens` decides
degradation.  Of the judge's own guards, which are `JudgeChain`'s, what matters to
the slice is here: an answer that lacks a required fact is refused (`Refuse`, which
remembers in `asked` what it lacked), the model explores again and what it read is
promoted again, and then only the facts that are required are refreshed, in their
order and up to one that stays unknown (`Rejudge`).  The other guards doubt an
answer or have it given again (`Contest`).  `Required` and `SecondAnswers` are what
a class of weakness may require and what the model may say then.

What the code writes as a loop over a list with variables around it is a walk
(`Walked` of `Lists`): a function from what there is so far and the next entry to
what there is then.  `Dfs`, the search of `eagerResolveMapperXml`, is a recursive
function of the depth that is left, which the code's own limit bounds.  A hop's
`from` is the set of the origin the code writes into it: empty for a hop of the
path, otherwise one of its marks or the name of the hop it was expanded from.
`chosen` and `guarded` are history variables: the hops `SliceAlert` chose, and those
the guards went by.  A text says whether it has a "${" or a "#{" at all, which
`MapperXmlBlock` and the promotion look for, and which of its placeholders have a
name, which the probes look for; a mapper file says with which names its namespace
ends.
Overloads in one file share a `Key`, as in the code.  Names are not empty: a
declaration without one is indexed as "?", and a mapper statement has an id.

### The taint engine

`TaintScan` runs over a program given as trees: `TypeStore` is the first pass
(`extractor.go`) and the hierarchy look-ups, `TaintCheck` scopes, types and the
taint of an expression, `BodyCollector` the walk of a body, `TaintScan` the
declarations of the second pass, which walks every file twice, and the rules of
`callresolution.go`, applied in any order of the maps they range over.  `Picks`
says which of several sources, and of several methods of one name, the first of a
map is.  Types are remembered by the place of an expression for the whole scan, as
in the code, whatever scope they were found in (`KeptType`).  `TaintReasons`
states what should come out, without any of that machinery.

`TaintFacts` is `TaintEngine`: `Pop` takes the oldest fact and applies the nine
rules, `EndRound` begins again with all facts in any order, `Sync` writes back.
A list of the store is the set of its members where no rule looks at order or
duplicates.  `SinkReach` is the recursion of `CallerHasDangerousSink` as a stack of
frames with one visited set; `TaintQueries` are the queries that follow it,
operators over the graph, reported in one step.  The callers of a method are data of
their own (`callers`, `bare`, `unbound` of `CallStore`) and not its edges turned
round: the code records them for some kinds of calls under the definitions, for
some under the bare name, and for constructors, method references, lambdas and
inherited methods not at all.  A lambda is indexed under the name of the method it
is in.  Definitions of a symbol are found by its trigrams (`Similar`, given).

### CodescanFetch, RepoCache

`CodescanFetch`: `FetchAll` as a pool of workers over pages, then over details,
`SummarizeBugs` as a second kind of request, and the three caches.  The
platform's list may change between requests, a reply may be lost, be another
object, or not parse, and a cache entry may expire.  Pages carry the version of
the list for the properties only.

`RepoCache`: `CloneSource` step by step from the clean-up of stale directories
(`RemoveStale`) through clone or fetch, reset and checkout to the scan that
reads the directory.  git is external: a command works, fails, or is killed half
way (`CloneKilled`, `CheckoutKilled`); in a directory without its own `.git` it
goes up to the repository around the cache (`GoesUp`).

### CmdbPush

`file` is `cmdb_push.json`, `pc[h]` where a handler is, `event` and `late` the
receiver's side.  A step runs from one access to the file, or one event of the
connection, to the next.

| Action | Code |
|---|---|
| `Begin` | the idempotency check, reading the selection, `countSelected`, `filterEnvExemption`, rendering |
| `UploadFails` | `resolveReportURL` returns an error |
| `OpenPushing`, `WritePushing`, `PushingFails` | stage 1; without the file nothing is sent |
| `Post`, `Succeed`, `Reject`, `GiveUp` | `client.Do`; 2xx; another status or a broken connection; the time-out or a client that left |
| `OpenPushed`, `WritePushed`, `PushedFails` | stage 2, whose error is dropped |
| `OpenFailed`, `WriteFailed`, `FailedFails` | `writeFailedState`, whose error is dropped |
| `Receive`, `ArriveLate` | external: the receiver; a request nobody waits for any more |
| `Crash` | the process dies; the file and the requests on their way survive |

Abstractions.  The receiver is modelled from what the handler says of it: it
keeps one event per run and answers every later request with `already_pushed`.
`os.WriteFile` truncates and then writes at offset 0, so two writers may garble
the file; a file that is empty or garbled does not parse.  Requests that are
refused with a 4xx, or answered from a file that says pushed, change nothing and
are no steps.  Whether the application is public, and what the client forces, is
a choice of which exempt findings are left out.  Counts, the HTML and the PDF
are left out.  `overlap` is a history variable.

### ScaScan

`disk` is the directory `<scaRunsDir>/<scan_id>`, `db` the row of that
`scan_id`, `pc[w]` where an activity is: a request (it holds a key of
`scaInFlight`), a scan triggered by an audit, or a re-evaluation.

| Action | Code |
|---|---|
| `BeginRequest`, `BeginAudit`, `BeginReEvaluate` | `scaScanHandler` up to the queued meta; the end of `runPipeline`, also `cmd/audit`; `scaReEvaluateHandler` |
| `LoadPolicy`, `Scanned`, `RunFails` | `sca.Run`: policy, scanner, evaluation; its errors |
| `Open`, `Write`, `WriteFails` | `os.WriteFile` of each of the eight writes; `After` is their order |
| `SaveDb`, `MarkFailed`, `DbFails` | `dbstore`, whose errors are only logged |
| `LoadMeta`, `LoadRest`, `LoadFails` | `Load` and `LoadRaw` of a re-evaluation |
| `Crash`, `ChangePolicy` | external: the process dies; the policy file is edited |

Abstractions.  The results of the scanner are numbered, and so are the versions
of the policy; a file's contents are the numbers they are made from
(`ScanResult`, components and findings are functions of them), and for
`meta.json` its status.  `os.WriteFile` truncates, then writes at offset 0: a
file another activity wrote meanwhile may be left garbled, and a file that is
empty or garbled does not parse.  `Key` are the raw repository keys that one
`scan_id` stands for, since `NewScanID` maps several to one.  A server without a
database does without the three database steps.  The three reads of `LoadRest`
are one step.  `disturbed` is a history variable: activities that the guard does
not separate were under way at once, or a write failed whose failure no later
write makes up for.

## 3. Runs

| Run | Instance | Shows |
|---|---|---|
| `scan_concurrent` | 2 runs, 1 alert, 1 permit, 1 fault | `ResumeOnlyConcluded`, `OverturnedOnlyUnseen`, `LedgerSpec` under every interleaving of two scans |
| `scan_stream` | 1 run, up to 3 alerts and a hard-excluded one, 2 permits, a channel of 1, 1 fault | `ReportAccountsForInput`, `StreamTells`, `ChannelDiscipline`, and `StreamEnds` under fairness |
| `judge_chain` | 2 calls, 2 alerts with 1 prompt, 3 answers | `ConclusiveIsClean`, `DeclaredFactsKnown`, `OnlyConclusiveCached`, `ModelSpec` |
| `explore` | 3 rounds of up to 2 calls, 9 units of budget | `RequestsSound`, `LogCoversEvidence`, and `CallEnds` under fairness |
| `evidence` | 11 reports, 91 claims, of which 10 may be given again, 3 lists of files read, 3 of facts required | `NothingOmittedSilently`, `MapperNeverStarved`, `TaintEvidenceIsOnThePath`, `CitationsAreASet`, `StyleAgreesWithTheProbe`, `SevereFirst` |
| `taint_scan` | bodies of up to 3 of 14 statements, copiers of 1 and 2 hops, 7 programs with two methods of a name, 2 chains of calls in a lambda, 60 hierarchies, 18 wirings | `EveryTaintHasAReason`, `MethodOrderIsIrrelevant`, `CallGraphClosed` |
| `taint_facts` | stores of up to 4 statements, 3 facts a round, 3 rounds | `DrainedReachesAll`, `StoreTellsFacts` |
| `taint_queries` | 1152 repositories of 5 methods, every limit at 1 to 3 | `SafeMeansUnreachable`, `HitIsReal`, `NothingSeenIsLost`, `CallersComplete`, `AnswersExplained` |
| `codescan_fetch` | 3 bugs on pages of 2, 2 requests, 1 spoilt reply, 1 change, 1 expiry | `SelectionAccounted` |
| `repo_cache` | 2 repositories of one name, 3 calls, 2 at a time, 1 fault, a cache inside another repository | `CommitScanned`, `FailsForCause` |
| `push_overlap` | 2 handlers, 3 findings (plain, exempt, hard-excluded), 1 fault | `PushedIsDelivered`, `CreatedIsRecorded`, `PushedIsFinal` |
| `sca_overlap` | 2 activities, 1 key, 2 results, 2 policies, 1 fault | `OneScanPerKey`, `DoneIsWhole`, `QueuedIsServed`, `DbAgrees` |

Bounds.

- `MaxFaults` caps crashes, failed reads and writes and spoilt replies together;
  one is enough to separate any two writes of one operation, and the invariants
  proved by TLAPS hold for any number.
- Two runs suffice for the races of a scan, since a step touches one bughash and
  every property relates at most one writer and one reader of it.
- Three alerts on two permits and a channel of one event: a worker waits for a
  permit while another waits for the channel, and the drain is at a third.  How
  an alert is judged does not matter there, so every judge call fails open; the
  judgements and the two modes are in `scan_concurrent`.  A judgement filed under
  a twin's bughash is in the theorems only, which hold for every `Twins`.
- Two judge calls on one key give a hit, a miss, both at once, and an
  overwritten row; jobs and alerts are alike (symmetry).  The three answers take every guard's branch between them
  but the evidence guard's, whose bypass is number 2 of section 6.
- The exploring model has one query that reads and one that asks the engine; a
  second of either kind takes the same branches.  Three rounds give two repeated
  turns in a row, a bulk read that exceeds the budget, and a forced convergence.
- Each of the eleven reports of `evidence` takes one way of slicing; the caps are
  between two and five, below what the repository offers.  The facts required are
  one, or both in either order, since a fact that stays unknown ends the refresh.
- Three statements make a source, a copy and a sink or an overwriting between
  them; hops of one and two separate what a second walk repairs from what it
  does not.  Two methods of a name are in one class with as many parameters or not,
  or pass fields on in two classes, each another or only one; those are the cases in
  which the order may matter.  The sixty hierarchies combine interfaces that extend each other,
  one or two implementers, overridings and classes outside the repository.
- Four statements and a limit of three facts: a round that is cut off, and a
  next one that starts elsewhere.
- Five methods and limits of one to three: chains longer than each limit,
  circles, overloads, a lambda, a dynamic call and a native one, calls that record
  their caller under the definitions, under the bare name, and not at all.
- Two repositories of one name share a directory; three calls are a clone, a
  reuse and a third that meets what they left.
- Two push handlers overlap at every pair of points, and a third request may
  begin when one of them ended.  Two SCA activities of any kind, each of which
  may be followed by others, give every pair of writers; two results and two
  policies tell a stale file from a fresh one.

Where a run says `CHECK_DEADLOCK FALSE` the system may stop: once the file says
pushed every request is answered from it; `codescan_fetch` and `repo_cache` have
a bounded number of calls; `evidence`, `taint_scan`, `taint_facts` and
`taint_queries` are one pass over one input.

Fairness of `scan_stream`.  The run's own goroutine, the part of a worker that
does not wait for the judge, the sends and the drain are weakly fair: the Go
scheduler runs a runnable goroutine, a send proceeds once the channel has room,
and a file write returns.  A judge call is *not* assumed to return, because the
providers have no time-out on a body; nor is the SCA scan `runPipeline` waits for
after the run was written, because no time-out is passed to its scanner (number 33
of section 6); nor a write to the response, because the server sets no write
time-out.  `StreamEnds` says that the handler returns if its judge calls, that scan
and its writes do.  Starting, cancelling and crashing are
never fair.

Fairness of `explore`.  Only `Step` is weakly fair: the goroutine goes on to its
next request.  `Reply` is not; `CallEnds` says that a call whose requests are
all answered ends, whatever they are answered with.

## 4. Properties

Each property has a seeded fault in `PROJECT.json` (an operator defined just
before the definition it replaces) that breaks it.

Scan and stream:

- `ResumeOnlyConcluded`: a checkpoint that makes later scans skip a bughash
  exists only if some report judged it without a fail_reason.
- `LedgerSpec` (`VerdictLedger`): the store holds only verdicts a report
  contained, as a true positive or as an auto-suppressed false positive.  Two
  pieces of code decide the latter independently (`report.Report` and the
  persist loop); this relates them over any number of scans.
- `OverturnedOnlyUnseen`: a stored verdict changes only by an experiment run,
  by a run that routed the alert before the verdict was stored or whose read of the
  row failed (an error is a miss), or through the cache.
- `ReportAccountsForInput`: the report of a run nobody cancelled accounts for
  every alert, and every judged alert was announced first.
- `StreamTells`: the first thing the client gets is the start with the total, then
  come progress events of different alerts, then done; done only after the event
  of every alert that was judged.  A run that is refused, and only that, is a done
  alone.
- `ChannelDiscipline`: no worker can still send once the channel is closed, which
  would panic outside every recover; and the handler never returns while the
  drain may write to its response.
- `StreamEnds`: liveness of the handler.

Judge call:

- `ConclusiveIsClean`, `DeclaredFactsKnown`, `OnlyConclusiveCached`,
  `ModelSpec`: a conclusive verdict was said by the model for that prompt, by
  this call or through the cache, its declared facts are known, doubt is not
  cached, and the stages that follow the model only ever doubt.
- `RequestsSound` is three things of every request: in the messages handed to the
  provider each tool call has its result and no result answers a call that is not
  there (`MessagesPaired`), the size keeps within the budget and one turn's
  overshoot (`RequestsFit`), and their number is bounded (`RequestsBounded`): three
  attempts for each round, for each of the eight requests behind the loop (the five
  for a verdict, the repair, the adversary, the missing fields), and for the second
  question, each round of which may add a summary for every function it reads.
- `LogCoversEvidence`: the log the grounding guard and the trace are given names
  every query whose result the model had before it when it answered.
- `CallEnds`: liveness of the call.

Evidence:

- `NothingOmittedSilently`: after enrichment every method that a hop chosen by
  `SliceAlert` may call is shown, listed as unseen, or an accessor, unless the
  slice degraded.
- `MapperNeverStarved`: a mapper statement the first method calls is in the slice,
  however many other methods the walk met before it.  Not where two classes in
  one file declare a method of that name (`OneClass`): the walk marks the name
  and may have met the other one.
- `SevereFirst`: a cap never leaves out a callee of the path that changes more than
  one it adds.  Of overloads that share a key only the first one met is a
  candidate, whatever the others do (`OneRank`).
- `TaintEvidenceIsOnThePath`: the variables a strongly typed parameter is compared
  with are those of the path and of what was expanded from it; a parameter of a
  sibling call cannot veto.  This is said of reports with a complete path, in the
  classes no search for state changes runs for, and of slices that did not
  degrade: degradation may drop a hop beside the path and keep what was expanded
  from it, whose variable then counts.
- `CitationsAreASet`: neither the order of the guards an answer cites nor guards of
  an unknown kind make a difference to the verdict.
- `StyleAgreesWithTheProbe`: where the decisive fact says the statement binds its
  parameters, the probe finds no concatenation in the hops the guards of the judge
  went by, nor in those a conclusive verdict rests on.  The exception is what the
  code does (`StyleLeft`): a second exploration promotes a file for a class that
  does not require the fact, which is then not looked at again.

Taint engine:

- `EveryTaintHasAReason`: every taint the passes leave has a statement of the
  program that could have put it there (`TaintReasons`).
- `MethodOrderIsIrrelevant`: the order in which a class declares its methods makes
  no difference to the taints, unless one copier calls another (`Chained`), or a
  class has two methods of a name with as many parameters, or two methods of a name
  pass fields on (`Distinct`): there the first one declared is taken, or one at
  random.
- `CallGraphClosed`: a call on an interface reaches every implementer
  (`ImplementersCalled`); a method a direct call names lists its caller, and every
  caller listed does call (`EdgesMirrored`), in whatever order the rules' maps are
  gone through.  Edges of other kinds need not be listed by what they reach.
- `DrainedReachesAll`: a round that emptied its worklist reached every place a
  source flows to, the least set that has where it was met and is closed under the
  flows.  `StoreTellsFacts`: the sync writes exactly the facts.
- `SafeMeansUnreachable`: from a method answered safe no chain of calls the graph
  has leads to a sink.  `HitIsReal`: where a hit is answered some chain does.
  `NothingSeenIsLost`: whatever was cut, an answer without a hit never covers a
  sink of a method the walk entered.
- `CallersComplete`, of the callers that are recorded, which are not all there are:
  no trace, without being cut, means that no chain of them
  leads to a source (`NoTraceMeansNoSource`); a tree of callers that does not say it is
  cut is whole, and no entry point is dropped while another method is kept
  (`TreeHonest`); the callers of a symbol are those within its layers
  (`SymbolCallersExact`).
- `AnswersExplained`: a hit comes with the sinks that made it one (`SinksAgree`), an
  unresolved answer with the breakpoint to complete (`BreakpointsExplain`), and the
  flows listed are chains of the graph, each once, the shortest first
  (`FlowsAreChains`).

Around the scan:

- `SelectionAccounted`: what is answered from pages of one list is that list as
  asked for, in its order, without exactly what was not to be had
  (`AnswerAccounts`); and a summary counts what a fetch with its filter asks for
  (`SummaryAgrees`).
- `CommitScanned`: while the scan of a commit goes on, its directory holds that
  commit, whatever other requests do there, unless a clean-up removed it.
  `FailsForCause`: a call for a commit fails for a command of its own or another
  call under way in its directory, never for what calls that are over left.
- `PushedIsDelivered`, `CreatedIsRecorded`: the file against the receiver's
  event, whatever overlaps.  `CreatedIsRecorded` is conditional: a push that was
  answered `already_pushed` records what its client selected, which may differ
  from what the event holds.
- `PushedIsFinal`: pushed is never undone as long as requests do not overlap.  With
  overlap it is: of two requests the one that fails last writes `failed` over
  `pushed`.
- `OneScanPerKey`: `scaInFlight` is exactly the keys of the requests under way.
- `DoneIsWhole`: the four files of a done scan are of one result and one policy,
  after any sequence of requests, audits, re-evaluations and errors of `Run`.
  Its condition names what the code needs and does not ensure: audits and
  re-evaluations take no guard, and `Save` says done before it wrote the rest.
- `QueuedIsServed`, `DbAgrees`: on the same condition, nobody waits for a scan
  nobody runs, and the row tells of the scan `meta.json` tells of.  The row's
  findings need not be those of `findings.json`: a re-evaluation does not reach
  the database.

## 5. Proofs

`ScanProofs` proves, for any number of runs, alerts, hashes, permits and faults:

- `SemaphoreAccounted` and `TypeCorrect`.  The bound on `permits` is not
  inductive alone: it needs the accounting, and the accounting needs
  `StagesFitPhase` (alerts are in flight only between dispatch and wait).
  `Inv1` is the conjunction, with a type invariant without that bound.
- `CheckpointJustified`, from `ReportCovers`: in a phase after the report, what
  the persist loop is about to write is in `concluded` and `reported`.
- `ImplementsLedger` and `StoreSupported`: every step is `Publish`, `Record` or a
  stutter of `VerdictLedger`.
- `ReportAccounts`, from `Inv3`: which stages a phase allows, that `total` counts
  the survivors, who was heard of, and that an alert is left behind only when
  the run was cancelled.
- `IndicesAreDense`, from `Inv4`: numbers are handed out once, and as many as
  `idx` says.

- `OverturnedUnseenOnly`, an action property, from `Inv5`: a verdict once stored
  stays stored (`KnownStored`), so a production run has inherited every alert
  whose hash was known when it began and could be read (`KnownNotJudged`: a read
  that fails takes the hash out of what is known), and what it upserts it judged
  without knowing, or took from the cache.

For any capacity of the channel it goes on with the stream: `StreamSpec` implements
`Spec` of `ScanPipeline` (`StreamIsScan`), so that everything above holds behind
the channel too (`StreamAccounts`); then

- `ChannelKept`.  `StreamInv` adds to the stages `DrainFitsHandler`: the handler is
  idle exactly while there is no drain, only a running drain writes, and the
  channel is closed after `Run` returned.
- `StreamTellsTheScan`, from `ToldInv`.  The property speaks of what was received;
  inductive is what was received, the event the drain holds and the channel taken
  together (`GotWell`, `LineWell`): each index sent is in one of the three at most,
  and, while the client stays, in one (`AllComing`), behind the start
  (`StartComing`).  That done comes last needs `closed`: no worker can send any
  more.  `Inv3` and `Inv4` say that the indices sent are different and how many
  they are.

`JudgeChainProofs` proves, for any jobs, alerts, keys, types and answers:

- `Doubts(q, r)`: `q` is `r` or an uncertain judgement of the same owner.  Each guard and
  verifier returns a doubt about what it was given, and doubts compose
  (`GuardsDoubt`, `TwoGuards`, `VerifierDoubts`).
- `Inv`: types, `RowsClean` and `JobsSound`, where `Sound(p, a, s, r)` says what a
  job at `p` may hold.  The strengthening over the checked properties: at the
  second question the judgement is uncertain and the two readings of
  `forward_reachable` agree, without which the bare-false-positive path would not establish
  `DeclaredFactsKnown`; and a cached row that is conclusive is clean, without
  which a hit would not be.
- `ConclusiveClean`, `FactsKnown`, `BorrowedConclusive`, `CacheConclusive` follow
  from `Inv`; `ImplementsModelVerdict` maps each action to `Take`, `Answer`,
  `Doubt`, `Reuse`, `Share`, `Drop`, `Forget` or a stutter.

`ExplorationProofs` proves, for any number of rounds and calls, any budget and any
queries, `ExplorationTypes`, `RequestsLimited`, `RequestsAreSound` (of the messages
the provider is handed; the conversion for Anthropic loses the calls, number 6 of
section 6) and `EvidenceIsLogged`.  The invariant has a part for each:

- `Paired`: the conversation that is kept is complete, and the one under way owes
  a result to exactly the calls of the turn still to be executed.
- `Fitting`: inside a turn the calls still to come fit below the limit, since each
  adds a bounded result; a conversation that shows an engine's answer has no limit.
- `Budgeted`: what was asked and three times what may still be asked, `LeftAt` each
  point of the control flow, are bounded together, the requests aside included: a
  turn of the second question may ask for a summary per call it still has.  A bound
  that counts `MaxRounds` requests for the second question is false with one round or none, where
  the two requests after a bare false positive exceed it: hence `MaxSecond`.
- `Logs`: what a conversation shows is in the log of the loop under way, or in the
  one the guards get.

`RepoCacheProofs` proves, for any repositories, commits, requests and faults,
`RepoCacheTypes`, `CommitIsScanned` and the action property `FailsOnlyForCause`.
`Undisturbed` says what a request relies on at each of its points (`Relies`) as
long as no other request worked in its directory; `Stored` what holds of a
directory whoever left it: one that has a repository and is named after a commit
has the commit, and its files are whole once HEAD is there.  `Stored` is why a later
call can repair what an earlier one left, and so why it cannot fail for it.

`CmdbPushProofs` proves `PushedDelivered`, `CreatedRecorded`, `SentIsSeen` and
`PushedFinal` for any number of handlers, findings and faults.  `Inv` adds to the
properties what a handler knows at each of its points: `HeardRight` (an answer it
heard is true of the event, and only a handler that heard one records),
`KeptSelected` (it dispatches some of what was selected), `Staged` (a request is
preceded by stage 1) and `Sole` (without overlap there is one handler at most,
and none once the file says pushed).  `ProceedInv` and `LeaveInv` state once what
a handler that goes on or leaves may do to the file; each action is an instance.

`ScaScanProofs` proves all four properties of the run and the types of `ScaScan`
for any number of activities, keys, results, policies and faults.  `Inv1` (types,
the guard, `Held`: who holds a key at which point) is inductive on its own.  The
rest needs `Sole` and `Calm`: while nothing disturbs the directory there is one
activity at most, idle the files are `Settled`, and an activity finds them as
`Expect` says for its point: how far `Save` is, what a re-evaluation read and
which of its two writes it did.  `GoesOn` and `Ends` state once that a step of
the sole activity keeps this.

`TaintProofs` proves of `SinkReach` `SafeIsSafe`, `HitsAreReal` and `NothingLost` for any
methods, any call graph and any limit of depth.  `IInv`: types, `Phases`,
`FramesOK` (what a frame has looked at is kept in what it will answer), `Linked`
(a frame's method is called by the one below it, so that a hit is a chain from
the root) and `DoneOK` (a visited method that has no frame any more is finished,
and a sink it calls has raised an alarm that some frame or the answer carries).
The search with one visited set is sound because a method that was visited and
is not finished still has its frame.

Of `TaintFacts` it proves, for any store and limits: `FactsJustified`, the facts
are in every set that holds the seeds and is closed under the rules, so none is
invented; `DrainedIsFixpoint`, a round that emptied its worklist leaves such a
set, however earlier rounds were cut; `DrainedReaches` (`DrainedReachesAll`); and
`SyncIsExact`.  `TaintInv` says that the consequences of a fact that is not
queued are facts.  From there `FlowIsFollowed` goes through the flows one kind at
a time: the places that have a fact of a source are closed under them
(`FieldReadToReturn` passes over what the collection tainted itself, which the seeds
have), so they are among the sets whose least is `Reached`, and no induction is
needed.  It takes that the store agrees with itself, which is in `StoresConfig`: a
method with recorded parameters is listed under its name, a local that keeps
the result of a call is a local of its method.  Without either a flow of the graph
is one no rule follows.

`EvidenceProofs` proves all six properties of the run and the types of `Evidence`,
for any repository and report, any caps and budgets, and any answer of the model.

- Lists.  `PickIs`, `FirstsAre`, `FlattenIs` say what picking, first occurrences and
  joining return; `WalkedAlong` and `WalkedStays` are the induction every loop of
  the slicer needs, done once: what a step keeps, a walk keeps.
- The search for mapper statements.  `DfsEquation` shows that the levels of `Dfs`
  satisfy the recursive function's equation.  `Accounted`: the statements of every
  visited method were emitted, which holds because a method is asked for its
  statements before the budget is looked at.  `Reliable`: a level visits the method
  it is called for, keeps `Accounted` and takes nothing back.  The first method finds
  the budget unspent (`FirstRooted`), so that all its callees are visited;
  `StatementsAre` is the result.
- The tiers.  `ExpandedIs`, `MutatorTierIs`, `GuardTierIs`, `AgenticTierIs` say what each may
  add and that it drops nothing unless it degrades; `MildestLeftOut` that a cap on a
  list sorted by rank leaves out nothing above what it keeps.
- The verdict.  `VerdictBySet`: citations with equal sets of guards of a known kind
  have equal verdicts, since what the code keeps from its loops is whether one was
  found and never which came first.

`IInv` adds four parts to the properties.  `FirstSlice` ties a slice that was just
made to its report.  `ChosenKept`: enrichment keeps the hops that were chosen,
without which what the slice lists would not be of them.  `VariablesTraced` is the
reason for `TaintEvidenceIsOnThePath`: each hop with a variable is of the path,
was expanded from a hop of it, or hangs below a hop of the search for
statements, and the probe passes over the last kind as long as that hop is in the
slice, which `ChosenKept` ensures.  `VerdictGiven`: a verdict is of the claim and the slice it is
compared with, the fact the guards read is of the hops they went by, and after a second
exploration `StyleKept` holds: nothing conclusive was said, or the fact is of the hops,
or it was not asked for.  That a second answer counts only when every required fact is
known is what makes the refresh of a required one certain (`SettledIs`).

Assumptions are those of the modules (`ConstantsAssumption` of `ScanPipeline` and
of `Exploration`, `CapacityAssumption`, `ChainAssumption`, `RepoAssumption`, `PushAssumption`, `ScaAssumption`, `DepthAssumption`,
`RepositoryAssumption`, `GraphAssumption`, `TaintConfig`, `StoresConfig`,
`IndexAssumption`, `SlicerAssumption`, `EvidenceAssumption`): the
constants have their types, what is counted is finite, concurrency, capacity and
limits are numbers, positive where the code makes them so, what is asked of the
clones is of a known repository, the stores agree with themselves, and a method is
indexed under a name that is not empty.

Proved and not run, because the theorem says more than another run would: the
type invariants, `PermitsAccounted`, `ProgressIndicesDense`, `BorrowedAreConclusive`,
`NothingSentUnseen`.

Proof by cases over the steps needs no bound, and where a property counts (permits,
indices, requests) the lemmas on finite sets of the library are enough.

Only model-checked:

- liveness (`StreamEnds`, `CallEnds`), which is out of reach of the prover;
- the engine's two passes (`taint_scan`) and the queries after the walk for sinks
  (`CallersComplete`, `AnswersExplained`): these are recursive operators over syntax
  trees and over the graph, as the code is recursive, and the prover cannot
  handle them;
- `SelectionAccounted` of `CodescanFetch`: it compares sequences that were filtered and
  put together page by page, an induction over data.

What proving changed.  A proof that failed showed four places where a property
said more than the code does or the model less; TLC had no instance of them.

- A hop expanded from a hop without a name could not be told from a hop of the
  path, since both had an empty origin: `from` is a set now.
- `TaintEvidenceIsOnThePath` does not survive degradation, for the reason given
  there.
- `SevereFirst` and `MapperNeverStarved` do not hold of two methods that share a key
  and differ: the code looks at the first only.

## 6. Disagreements found

What the code does and a comment of it denies, or what it plainly does not mean
to do.  Each is quoted with its lines in `PROJECT.json`; the models do what the
code does.

Scan:

1. `PersistErrors` never contains a store failure.
2. The guards are said to hold of every confident true positive; the second answer
   passes none or two of them.
3. The second question treats "not applicable" as unresolved, the guard does not.
4. `OnAlert` is documented to fire exactly `total` times; skipped alerts are
   counted and never announced.
5. `Falsify` compares the dynamic outcome with a spelling no executor emits.

Exploration:

6. The conversion for Anthropic drops the tool calls of the loop.
7. The stream of the OpenAI provider yields the calls of a turn in random order.
8. `record_finding` promises to remove what was read; nothing is removed.
9. The log of a second question that ends without a verdict is lost.
10. The harness does not retry the errors it is said to retry.

Evidence:

11. A true positive without a payload may be overturned by a sanitizer.
12. An effective guard of another class keeps an unprovable false positive.
13. Eager hops and the callees of reverse callers do get a taint variable.
14. Every hop is expanded, not only those of the path.
15. A cap replaces the note about what is not shown.
16. Degradation need not keep the last hop.
17. What a second exploration promotes is not always followed by a refresh of the
    style of the sink.

Taint engine:

18. The fixpoint is cut off by two limits.
19. The rule for fields read never gives a fact.
20. The second walk repairs one hop only.
21. The listeners of an event's descendants are called instead of its ancestors'.
22. The list of sinks and the walk for sinks differ about queries of JPA.
23. The flows and the walk for sinks know different sinks.
24. Safe does not exclude an unresolved call of a callee.
25. A breadth limit does drop entry points when there are more of them.
26. A method without a recorded caller is called dead, also one that is used by
    reference, as a constructor or in a lambda.
27. Types are remembered by place whatever the scope, an unknown one too: a call on a
    local of a lambda may lose its edge.

Around the scan:

28. `reset --hard` may run in a directory without a `.git` of its own.
29. A page that carries only an error code is cached as an empty one.
30. A second scan of a branch reads the version of the first.
31. A push file that was truncated and not written reads as "unpushed".
32. `Run` is said to overwrite the queued status; a re-evaluation may restore it.
33. The scanner is said to have a time-out of ten minutes; none is passed.
34. Raw results are said never to change; the next scan overwrites them.
35. Done scans are said to be complete; `Save` writes done first.
36. The status `running` is never written.

## 7. Not modelled

- Parsing of Java, XML and of the model's prose: the models begin at methods,
  statements and answers.  Of the engine also nested classes, the block climber,
  the formatter, the mapper XML and the JSON of its store.
- Prompt texts, wording of notes and rendering of reports: nothing is decided by them.
- Adapters, filters, CWE registry, labels, faces, fact guard, diff discovery, the
  policy rules of SCA: one pass over a list or one look-up each, with nothing in
  between; their results are choices above.
- The files of a run directory other than the push file: nobody reads them to
  decide anything.  Two runs of one repository that end in one second share a
  directory and overwrite each other's files.
- Log-in, uploads and read-only handlers.
- What the search tools find in the sources, and coverage probes of the
  exploration, which only add to the prompt.

SQL and the file system are modelled by what the code relies on: an upsert is
atomic, a file write truncates first.
