------------------------------- MODULE ScaScan -------------------------------
(***************************************************************************)
(* The component scans (SCA) of one scan directory: requests guarded by    *)
(* scaInFlight, scans that an audit triggers without the guard, and        *)
(* re-evaluations of the stored result under the current policy file.  All *)
(* of them rewrite meta.json, sbom.json, findings.json and raw_osv.json,   *)
(* file after file, and a row of the database.                             *)
(*                                                                         *)
(* The results of the scanner are numbered; a file is known by the result, *)
(* and the policy, that its contents were made from.                       *)
(***************************************************************************)
EXTENDS Integers, FiniteSets

CONSTANTS
  Worker,       \* activities that may be under way at once
  Key,          \* the raw repo_keys that NewScanID maps to this directory
  MaxResults,   \* bound on results of the scanner
  MaxPolicies,  \* bound on versions of the policy file
  MaxFaults     \* bound on crashes and on failed writes, together

ASSUME ScaAssumption ==
  /\ MaxResults \in Nat
  /\ MaxPolicies \in Nat \ {0}
  /\ MaxFaults \in Nat

VARIABLES
  disk,      \* the four files
  db,        \* the row of the database
  inFlight,  \* scaInFlight
  policy,    \* version of the policy file
  results,   \* results of the scanner so far
  pc,        \* where an activity is
  holds,     \* its entry of scaInFlight, if it has one
  open,      \* it has truncated the file it is writing
  using,     \* the policy it loaded
  result,    \* the result it works on
  loaded,    \* the meta.json a re-evaluation read
  faults,    \* crashes and failed writes so far
  disturbed  \* history: see Unguarded and Uncovered

work == <<pc, holds, open, using, result, loaded>>
vars == <<disk, db, inFlight, policy, results, work, faults, disturbed>>

File == {"meta", "sbom", "findings", "raw"}

\* status and scan are of meta.json; raw and policy say what findings, or their
\* counts in meta.json, are made of.
Contents ==
  [state : {"absent", "empty", "garbled", "whole"},
   status : {"none", "queued", "done", "failed"},
   scan : 0..MaxResults, raw : 0..MaxResults, policy : 0..MaxPolicies]

Blank(state) ==
  [state |-> state, status |-> "none", scan |-> 0, raw |-> 0, policy |-> 0]

\* Stages in which a file is written, and the file.
Writing == {"queue", "meta", "sbom", "findings", "raw", "fail", "refind", "remeta"}

Stages == Writing \cup {"idle", "policy", "scan", "db", "dbfail", "load", "rest"}

Target(stage) ==
  CASE stage \in {"queue", "meta", "fail", "remeta"} -> "meta"
    [] stage = "sbom" -> "sbom"
    [] stage \in {"findings", "refind"} -> "findings"
    [] OTHER -> "raw"

\* A seeded fault: Save leaves raw_osv.json out.
AfterWithoutRaw(stage) ==
  CASE stage = "queue" -> "policy"
    [] stage = "meta" -> "sbom"
    [] stage = "sbom" -> "findings"
    [] stage = "findings" -> "db"
    [] stage = "raw" -> "db"
    [] stage = "fail" -> "dbfail"
    [] stage = "refind" -> "remeta"
    [] OTHER -> "idle"

\* What follows a write that succeeds; Save writes four files in this order.
After(stage) ==
  CASE stage = "queue" -> "policy"
    [] stage = "meta" -> "sbom"
    [] stage = "sbom" -> "findings"
    [] stage = "findings" -> "raw"
    [] stage = "raw" -> "db"
    [] stage = "fail" -> "dbfail"
    [] stage = "refind" -> "remeta"
    [] OTHER -> "idle"

Active == {w \in Worker : pc[w] # "idle"}

\* Another activity is under way that the guard would not keep out.
Unguarded(w, keys) ==
  \E v \in Worker \ {w} : pc[v] # "idle" /\ holds[v] \cap keys = {}

-----------------------------------------------------------------------------
Init ==
  /\ disk = [f \in File |-> Blank("absent")]
  /\ db = [status |-> "none", raw |-> 0]
  /\ inFlight = {}
  /\ policy = 1
  /\ results = 0
  /\ pc = [w \in Worker |-> "idle"]
  /\ holds = [w \in Worker |-> {}]
  /\ open = [w \in Worker |-> FALSE]
  /\ using = [w \in Worker |-> 0]
  /\ result = [w \in Worker |-> 0]
  /\ loaded = [w \in Worker |-> Blank("absent")]
  /\ faults = 0
  /\ disturbed = FALSE

\* An activity is over; the goroutine of a request gives its key back.
End(w) ==
  /\ pc' = [pc EXCEPT ![w] = "idle"]
  /\ holds' = [holds EXCEPT ![w] = {}]
  /\ inFlight' = inFlight \ holds[w]
  /\ open' = [open EXCEPT ![w] = FALSE]
  /\ using' = [using EXCEPT ![w] = 0]
  /\ result' = [result EXCEPT ![w] = 0]
  /\ loaded' = [loaded EXCEPT ![w] = Blank("absent")]

Goto(w, stage) ==
  /\ pc' = [pc EXCEPT ![w] = stage]
  /\ open' = [open EXCEPT ![w] = FALSE]

Begin(w, keys, stage) ==
  /\ pc[w] = "idle"
  /\ Goto(w, stage)
  /\ holds' = [holds EXCEPT ![w] = keys]
  /\ disturbed' = (disturbed \/ Unguarded(w, keys))

\* A seeded fault: the entry is stored without looking at it.
FreeAlways(k) == TRUE

\* LoadOrStore: a second request for the key is answered 409.
Free(k) == k \notin inFlight

BeginRequest(w) ==
  \E k \in Key :
    /\ Free(k)
    /\ Begin(w, {k}, "queue")
    /\ inFlight' = inFlight \cup {k}
    /\ UNCHANGED <<disk, db, policy, results, using, result, loaded, faults>>

\* runPipeline, after the audit was written.
BeginAudit(w) ==
  /\ Begin(w, {}, "policy")
  /\ UNCHANGED <<disk, db, inFlight, policy, results, using, result, loaded, faults>>

BeginReEvaluate(w) ==
  /\ Begin(w, {}, "load")
  /\ using' = [using EXCEPT ![w] = policy]
  /\ UNCHANGED <<disk, db, inFlight, policy, results, result, loaded, faults>>

-----------------------------------------------------------------------------
(* Run: policy, scanner, Save.                                             *)

LoadPolicy(w) ==
  /\ pc[w] = "policy"
  /\ Goto(w, "scan")
  /\ using' = [using EXCEPT ![w] = policy]
  /\ UNCHANGED <<disk, db, inFlight, policy, results, holds, result, loaded,
                 faults, disturbed>>

\* The scanner returns a result, which is evaluated under the loaded policy.
Scanned(w) ==
  /\ pc[w] = "scan"
  /\ results < MaxResults
  /\ results' = results + 1
  /\ result' = [result EXCEPT ![w] = results + 1]
  /\ Goto(w, "meta")
  /\ UNCHANGED <<disk, db, inFlight, policy, holds, using, loaded, faults, disturbed>>

\* A seeded fault: an error of Run leaves the queued meta.json as it is.
FailSilently(w) == End(w)

\* An error of Run: a request is marked as failed, an audit only logs it.
Fail(w) ==
  \/ /\ holds[w] # {}
     /\ Goto(w, "fail")
     /\ UNCHANGED <<inFlight, holds, using, result, loaded>>
  \/ /\ holds[w] = {}
     /\ End(w)

\* The policy file does not load or the scanner fails.
RunFails(w) ==
  /\ pc[w] \in {"policy", "scan"}
  /\ Fail(w)
  /\ UNCHANGED <<disk, db, policy, results, faults, disturbed>>

\* A seeded fault: the row of an earlier scan is left as it is.
MarkNothing == db

\* MarkFailed keeps the components and findings of an earlier scan.
MarkedFailed == [db EXCEPT !.status = "failed"]

MarkFailed(w) ==
  /\ pc[w] = "dbfail"
  /\ db' = MarkedFailed
  /\ End(w)
  /\ UNCHANGED <<disk, policy, results, faults, disturbed>>

\* dbstore.Save is one transaction: the scan, its components and its findings.
SaveDb(w) ==
  /\ pc[w] = "db"
  /\ db' = [status |-> "done", raw |-> result[w]]
  /\ End(w)
  /\ UNCHANGED <<disk, policy, results, faults, disturbed>>

\* An error of the database is only logged.
DbFails(w) ==
  /\ pc[w] \in {"db", "dbfail"}
  /\ faults < MaxFaults
  /\ faults' = faults + 1
  /\ disturbed' = TRUE
  /\ End(w)
  /\ UNCHANGED <<disk, db, policy, results>>

-----------------------------------------------------------------------------
(* Re-evaluation.                                                          *)

\* The counts of meta.json are about to be replaced.
LoadMeta(w) ==
  /\ pc[w] = "load"
  /\ disk["meta"].state = "whole"
  /\ loaded' = [loaded EXCEPT ![w] = [disk["meta"] EXCEPT !.raw = 0, !.policy = 0]]
  /\ Goto(w, "rest")
  /\ UNCHANGED <<disk, db, inFlight, policy, results, holds, using, result,
                 faults, disturbed>>

\* sbom.json and findings.json have to parse, raw_osv.json is evaluated.  The three
\* reads are one step: only the last one's contents are used.
LoadRest(w) ==
  /\ pc[w] = "rest"
  /\ \A f \in File \ {"meta"} : disk[f].state = "whole"
  /\ result' = [result EXCEPT ![w] = disk["raw"].raw]
  /\ Goto(w, "refind")
  /\ UNCHANGED <<disk, db, inFlight, policy, results, holds, using, loaded,
                 faults, disturbed>>

LoadFails(w) ==
  /\ \/ pc[w] = "load" /\ disk["meta"].state # "whole"
     \/ pc[w] = "rest" /\ \E f \in File \ {"meta"} : disk[f].state # "whole"
  /\ End(w)
  /\ UNCHANGED <<disk, db, policy, results, faults, disturbed>>

-----------------------------------------------------------------------------
(* Writing a file: opening truncates it, writing starts at offset 0.       *)

Data(w) ==
  CASE pc[w] = "queue" -> [Blank("whole") EXCEPT !.status = "queued"]
    [] pc[w] = "fail" -> [Blank("whole") EXCEPT !.status = "failed"]
    [] pc[w] = "meta" ->
         [state |-> "whole", status |-> "done", scan |-> result[w],
          raw |-> result[w], policy |-> using[w]]
    [] pc[w] \in {"findings", "refind"} ->
         [Blank("whole") EXCEPT !.raw = result[w], !.policy = using[w]]
    [] pc[w] = "remeta" -> [loaded[w] EXCEPT !.raw = result[w], !.policy = using[w]]
    [] OTHER -> [Blank("whole") EXCEPT !.raw = result[w]]

Open(w) ==
  /\ pc[w] \in Writing
  /\ ~open[w]
  /\ disk' = [disk EXCEPT ![Target(pc[w])] = Blank("empty")]
  /\ open' = [open EXCEPT ![w] = TRUE]
  /\ UNCHANGED <<db, inFlight, policy, results, pc, holds, using, result, loaded,
                 faults, disturbed>>

\* Over another writer's longer contents the end of those may remain.
Write(w) ==
  /\ open[w]
  /\ \/ disk' = [disk EXCEPT ![Target(pc[w])] = Data(w)]
     \/ /\ disk[Target(pc[w])].state # "empty"
        /\ disk' = [disk EXCEPT ![Target(pc[w])] = Blank("garbled")]
  /\ \/ /\ After(pc[w]) # "idle"
        /\ Goto(w, After(pc[w]))
        /\ UNCHANGED <<inFlight, holds, using, result, loaded>>
     \/ /\ After(pc[w]) = "idle"
        /\ End(w)
  /\ UNCHANGED <<db, policy, results, faults, disturbed>>

\* A write whose failure no later write of meta.json makes up for.
Uncovered(w) == holds[w] = {} \/ pc[w] = "fail"

\* Opening fails, or writing does, perhaps after some of the bytes.  An error of
\* Save ends Run; that of writing "failed" is dropped; the others end the request.
WriteFails(w) ==
  /\ pc[w] \in Writing
  /\ faults < MaxFaults
  /\ faults' = faults + 1
  /\ disturbed' = (disturbed \/ Uncovered(w))
  /\ \/ UNCHANGED disk
     \/ open[w] /\ disk' = [disk EXCEPT ![Target(pc[w])] = Blank("garbled")]
  /\ \/ /\ pc[w] \in {"meta", "sbom", "findings", "raw"}
        /\ Fail(w)
     \/ /\ pc[w] = "fail"
        /\ Goto(w, "dbfail")
        /\ UNCHANGED <<inFlight, holds, using, result, loaded>>
     \/ /\ pc[w] \in {"queue", "refind", "remeta"}
        /\ End(w)
  /\ UNCHANGED <<db, policy, results>>

-----------------------------------------------------------------------------
\* The server dies.  Nothing revisits the directory when it starts again.
Crash ==
  /\ Active # {}
  /\ faults < MaxFaults
  /\ faults' = faults + 1
  /\ disturbed' = TRUE
  /\ inFlight' = {}
  /\ pc' = [w \in Worker |-> "idle"]
  /\ holds' = [w \in Worker |-> {}]
  /\ open' = [w \in Worker |-> FALSE]
  /\ using' = [w \in Worker |-> 0]
  /\ result' = [w \in Worker |-> 0]
  /\ loaded' = [w \in Worker |-> Blank("absent")]
  /\ UNCHANGED <<disk, db, policy, results>>

\* The policy file is edited.
ChangePolicy ==
  /\ policy < MaxPolicies
  /\ policy' = policy + 1
  /\ UNCHANGED <<disk, db, inFlight, results, work, faults, disturbed>>

\* What an activity does without waiting for the scanner.
Proceed(w) ==
  \/ LoadPolicy(w) \/ MarkFailed(w) \/ SaveDb(w) \/ DbFails(w)
  \/ LoadMeta(w) \/ LoadRest(w) \/ LoadFails(w)
  \/ Open(w) \/ Write(w) \/ WriteFails(w)

Next ==
  \/ \E w \in Worker : \/ BeginRequest(w) \/ BeginAudit(w) \/ BeginReEvaluate(w)
                       \/ Proceed(w) \/ Scanned(w) \/ RunFails(w)
  \/ Crash
  \/ ChangePolicy

Spec == Init /\ [][Next]_vars

-----------------------------------------------------------------------------
(* Properties.                                                             *)

TypeOK ==
  /\ disk \in [File -> Contents]
  /\ db \in [status : {"none", "done", "failed"}, raw : 0..MaxResults]
  /\ inFlight \subseteq Key
  /\ policy \in 1..MaxPolicies
  /\ results \in 0..MaxResults
  /\ pc \in [Worker -> Stages]
  /\ holds \in [Worker -> SUBSET Key]
  /\ open \in [Worker -> BOOLEAN]
  /\ using \in [Worker -> 0..MaxPolicies]
  /\ result \in [Worker -> 0..MaxResults]
  /\ loaded \in [Worker -> Contents]
  /\ faults \in 0..MaxFaults
  /\ disturbed \in BOOLEAN

\* The guard: of all activities that hold a key, no two hold the same, and a key
\* is in scaInFlight exactly as long as a goroutine holds it; no error path keeps
\* it, which would answer 409 until the server restarts.
OneScanPerKey ==
  /\ inFlight = UNION {holds[w] : w \in Worker}
  /\ \A v, w \in Worker : v # w => holds[v] \cap holds[w] = {}

\* Unless activities that the guard does not separate overlapped, or a write
\* failed uncovered, a scan that is done has four files of one result under one
\* policy, however requests, audits, re-evaluations and errors of Run follow each
\* other.
DoneIsWhole ==
  Active = {} /\ ~disturbed /\ disk["meta"].status = "done" =>
    /\ \A f \in File : disk[f].state = "whole" /\ disk[f].raw = disk["meta"].scan
    /\ disk["findings"].policy = disk["meta"].policy

\* On the same condition a queued scan is being served.
QueuedIsServed ==
  ~disturbed /\ disk["meta"].status = "queued" => \E w \in Worker : holds[w] # {}

\* On the same condition the row of the database is that of meta.json.  Its
\* findings are those of the scan: a re-evaluation does not reach the database.
DbAgrees ==
  Active = {} /\ ~disturbed /\ disk["meta"].status \in {"done", "failed"} =>
    /\ db.status = disk["meta"].status
    /\ db.status = "done" => db.raw = disk["meta"].scan

=============================================================================
