---------------------------- MODULE ScaScanProofs ----------------------------
(***************************************************************************)
(* Theorems of ScaScan: the guard, and what the four files and the row of  *)
(* the database say of each other, for any number of activities, keys,     *)
(* results, policies and faults.                                           *)
(***************************************************************************)
EXTENDS ScaScan, TLAPS

(* The part of the invariant that holds whatever overlaps or fails.        *)

\* Requests hold their key until they end, the other activities hold none.
Held ==
  \A w \in Worker :
    /\ pc[w] \in {"queue", "fail", "dbfail"} => holds[w] # {}
    /\ pc[w] \in {"idle", "load", "rest", "refind", "remeta"} => holds[w] = {}
    /\ open[w] => pc[w] \in Writing

Inv1 ==
  /\ TypeOK
  /\ OneScanPerKey
  /\ Held

LEMMA BlankFacts ==
  \A st \in {"absent", "empty", "garbled", "whole"} :
    /\ Blank(st) \in Contents
    /\ Blank(st).state = st
    /\ Blank(st).status = "none"
BY ScaAssumption DEF Blank, Contents

LEMMA TargetIsFile == \A s : Target(s) \in File
BY DEF Target, File

LEMMA DataType == ASSUME TypeOK, NEW w \in Worker PROVE Data(w) \in Contents
<1>1. /\ result[w] \in 0..MaxResults /\ using[w] \in 0..MaxPolicies
      /\ loaded[w] \in Contents
      /\ 0 \in 0..MaxResults /\ 0 \in 0..MaxPolicies
  BY ScaAssumption DEF TypeOK
<1>2. QED  BY <1>1 DEF Data, Blank, Contents

\* What End and Goto do to the variables of Inv1.
LEMMA EndInv1 ==
  ASSUME Inv1, NEW w \in Worker, End(w),
         disk' \in [File -> Contents],
         db' \in [status : {"none", "done", "failed"}, raw : 0..MaxResults],
         UNCHANGED <<policy, results>>,
         faults' \in 0..MaxFaults, disturbed' \in BOOLEAN
  PROVE  Inv1'
<1>1. TypeOK'
  <2>1. Blank("absent") \in Contents /\ 0 \in 0..MaxResults /\ 0 \in 0..MaxPolicies
    BY BlankFacts, ScaAssumption
  <2>2. /\ pc' \in [Worker -> Stages] /\ holds' \in [Worker -> SUBSET Key]
        /\ inFlight' \subseteq Key
    BY DEF Inv1, TypeOK, End, Stages
  <2>3. open' \in [Worker -> BOOLEAN]
    BY DEF Inv1, TypeOK, End
  <2>4. /\ using' \in [Worker -> 0..MaxPolicies]
        /\ result' \in [Worker -> 0..MaxResults]
        /\ loaded' \in [Worker -> Contents]
    BY <2>1 DEF Inv1, TypeOK, End
  <2>5. QED  BY <2>2, <2>3, <2>4 DEF Inv1, TypeOK
<1>2. OneScanPerKey'
  <2>1. \A v \in Worker : holds'[v] = IF v = w THEN {} ELSE holds[v]
    BY DEF Inv1, TypeOK, End
  <2>2. inFlight' = UNION {holds'[v] : v \in Worker}
    BY <2>1 DEF Inv1, OneScanPerKey, End
  <2>3. QED  BY <2>1, <2>2 DEF Inv1, OneScanPerKey
<1>3. Held'
  <2>1. \A v \in Worker \ {w} : /\ pc'[v] = pc[v] /\ holds'[v] = holds[v]
                                /\ open'[v] = open[v]
    BY DEF Inv1, TypeOK, End
  <2>2. pc'[w] = "idle" /\ holds'[w] = {} /\ ~open'[w]
    BY DEF Inv1, TypeOK, End
  <2>3. QED  BY <2>1, <2>2 DEF Inv1, Held
<1>4. QED  BY <1>1, <1>2, <1>3 DEF Inv1

LEMMA GotoInv1 ==
  ASSUME Inv1, NEW w \in Worker, NEW s \in Stages, Goto(w, s),
         UNCHANGED <<inFlight, holds, policy>>,
         s \in {"fail", "dbfail"} => holds[w] # {},
         s \in {"rest", "refind", "remeta"} => holds[w] = {},
         s \notin {"idle", "queue", "load"},
         disk' \in [File -> Contents], UNCHANGED db, results' \in 0..MaxResults,
         using' \in [Worker -> 0..MaxPolicies],
         result' \in [Worker -> 0..MaxResults],
         loaded' \in [Worker -> Contents],
         faults' \in 0..MaxFaults, disturbed' \in BOOLEAN
  PROVE  Inv1'
<1>1. TypeOK'
  <2>1. pc' \in [Worker -> Stages]
    BY DEF Inv1, TypeOK, Goto
  <2>2. open' \in [Worker -> BOOLEAN]
    BY DEF Inv1, TypeOK, Goto
  <2>3. QED  BY <2>1, <2>2 DEF Inv1, TypeOK
<1>2. OneScanPerKey'
  BY DEF Inv1, OneScanPerKey
<1>3. Held'
  <2>1. \A v \in Worker \ {w} : pc'[v] = pc[v] /\ open'[v] = open[v]
    BY DEF Inv1, TypeOK, Goto
  <2>2. pc'[w] = s /\ ~open'[w]
    BY DEF Inv1, TypeOK, Goto
  <2>3. QED  BY <2>1, <2>2 DEF Inv1, Held
<1>4. QED  BY <1>1, <1>2, <1>3 DEF Inv1

LEMMA InitInv1 == Init => Inv1
<1> SUFFICES ASSUME Init PROVE Inv1
  OBVIOUS
<1>1. TypeOK
  <2>1. /\ Blank("absent") \in Contents /\ 0 \in 0..MaxResults
        /\ 0 \in 0..MaxPolicies /\ 1 \in 1..MaxPolicies /\ 0 \in 0..MaxFaults
    BY BlankFacts, ScaAssumption
  <2>2. db \in [status : {"none", "done", "failed"}, raw : 0..MaxResults]
    BY <2>1 DEF Init
  <2>3. disturbed \in BOOLEAN /\ open \in [Worker -> BOOLEAN]
    BY DEF Init
  <2>4. QED  BY <2>1, <2>2, <2>3 DEF Init, TypeOK, Stages
<1>2. OneScanPerKey /\ Held
  BY DEF Init, OneScanPerKey, Held
<1>3. QED  BY <1>1, <1>2 DEF Inv1

LEMMA BeginInv1 ==
  ASSUME Inv1, NEW w \in Worker,
         BeginRequest(w) \/ BeginAudit(w) \/ BeginReEvaluate(w)
  PROVE  Inv1'
<1>1. PICK keys \in SUBSET Key, s \in {"queue", "policy", "load"} :
        /\ Begin(w, keys, s)
        /\ inFlight' = inFlight \cup keys /\ keys \cap inFlight = {}
        /\ s = "queue" => keys # {}
        /\ s = "load" => keys = {}
  <2>1. CASE BeginRequest(w)
    <3>1. PICK k \in Key : /\ k \notin inFlight /\ Begin(w, {k}, "queue")
                           /\ inFlight' = inFlight \cup {k}
      BY <2>1 DEF BeginRequest, Free
    <3>2. QED  BY <3>1
  <2>2. CASE BeginAudit(w)
    BY <2>2 DEF BeginAudit
  <2>3. CASE BeginReEvaluate(w)
    BY <2>3 DEF BeginReEvaluate
  <2>4. QED  BY <2>1, <2>2, <2>3
<1>2. /\ UNCHANGED <<disk, db, policy, results, result, loaded, faults>>
      /\ using' \in [Worker -> 0..MaxPolicies]
  <2>1. policy \in 0..MaxPolicies /\ using \in [Worker -> 0..MaxPolicies]
    BY DEF Inv1, TypeOK
  <2>2. using' = using \/ using' = [using EXCEPT ![w] = policy]
    BY DEF BeginRequest, BeginAudit, BeginReEvaluate
  <2>3. UNCHANGED <<disk, db, policy, results, result, loaded, faults>>
    BY DEF BeginRequest, BeginAudit, BeginReEvaluate
  <2>4. QED  BY <2>1, <2>2, <2>3
<1>3. \A v \in Worker : /\ holds'[v] = IF v = w THEN keys ELSE holds[v]
                        /\ pc'[v] = IF v = w THEN s ELSE pc[v]
  BY <1>1 DEF Begin, Goto, Inv1, TypeOK
<1>4. \A v \in Worker : open'[v] = IF v = w THEN FALSE ELSE open[v]
  BY <1>1 DEF Begin, Goto, Inv1, TypeOK
<1>5. TypeOK'
  <2>1. pc' \in [Worker -> Stages] /\ holds' \in [Worker -> SUBSET Key]
    BY <1>1 DEF Begin, Goto, Inv1, TypeOK, Stages, Writing
  <2>2. open' \in [Worker -> BOOLEAN]
    BY <1>1 DEF Begin, Goto, Inv1, TypeOK
  <2>3. disturbed' \in BOOLEAN
    BY <1>1 DEF Begin, Unguarded, Inv1, TypeOK
  <2>4. QED  BY <1>1, <1>2, <2>1, <2>2, <2>3 DEF Inv1, TypeOK
<1>6. OneScanPerKey'
  <2>1. \A v \in Worker : holds[v] \subseteq inFlight
    BY DEF Inv1, OneScanPerKey
  <2>2. holds[w] = {}
    BY <1>1 DEF Begin, Inv1, Held
  <2>3. QED  BY <1>1, <1>3, <2>1, <2>2 DEF Inv1, OneScanPerKey
<1>7. Held'
  BY <1>1, <1>3, <1>4 DEF Inv1, Held
<1>8. QED  BY <1>5, <1>6, <1>7 DEF Inv1

LEMMA FailInv1 ==
  ASSUME Inv1, NEW w \in Worker, Fail(w), disk' \in [File -> Contents],
         UNCHANGED <<db, policy, results>>,
         faults' \in 0..MaxFaults, disturbed' \in BOOLEAN
  PROVE  Inv1'
<1>1. CASE End(w)
  BY <1>1, EndInv1 DEF Inv1, TypeOK
<1>2. CASE holds[w] # {} /\ Goto(w, "fail") /\ UNCHANGED <<inFlight, holds, using, result, loaded>>
  BY <1>2, GotoInv1 DEF Inv1, TypeOK, Stages, Writing
<1>3. QED  BY <1>1, <1>2 DEF Fail

LEMMA RunInv1 ==
  ASSUME Inv1, NEW w \in Worker, LoadPolicy(w) \/ Scanned(w) \/ RunFails(w)
  PROVE  Inv1'
<1>1. CASE LoadPolicy(w)
  <2>1. using' \in [Worker -> 0..MaxPolicies]
    BY <1>1 DEF LoadPolicy, Inv1, TypeOK
  <2>2. QED  BY <1>1, <2>1, GotoInv1 DEF LoadPolicy, Inv1, TypeOK, Stages
<1>2. CASE Scanned(w)
  <2>1. results + 1 \in 0..MaxResults
    BY <1>2, ScaAssumption DEF Scanned, Inv1, TypeOK
  <2>2. result' \in [Worker -> 0..MaxResults]
    BY <1>2, <2>1 DEF Scanned, Inv1, TypeOK
  <2>3. QED
    BY <1>2, <2>1, <2>2, GotoInv1 DEF Scanned, Inv1, TypeOK, Stages, Writing
<1>3. CASE RunFails(w)
  BY <1>3, FailInv1 DEF RunFails, Inv1, TypeOK
<1>4. QED  BY <1>1, <1>2, <1>3

LEMMA DbInv1 ==
  ASSUME Inv1, NEW w \in Worker, MarkFailed(w) \/ SaveDb(w) \/ DbFails(w)
  PROVE  Inv1'
<1>1. /\ End(w) /\ UNCHANGED <<disk, policy, results>>
      /\ faults' \in 0..MaxFaults
  BY ScaAssumption DEF MarkFailed, SaveDb, DbFails, Inv1, TypeOK
<1>2. disturbed' \in BOOLEAN
  BY DEF MarkFailed, SaveDb, DbFails, Inv1, TypeOK
<1>3. db' \in [status : {"none", "done", "failed"}, raw : 0..MaxResults]
  BY DEF MarkFailed, MarkedFailed, SaveDb, DbFails, Inv1, TypeOK
<1>4. QED  BY <1>1, <1>2, <1>3, EndInv1 DEF Inv1, TypeOK

LEMMA LoadInv1 ==
  ASSUME Inv1, NEW w \in Worker, LoadMeta(w) \/ LoadRest(w) \/ LoadFails(w)
  PROVE  Inv1'
<1>1. CASE LoadMeta(w)
  <2>1. [disk["meta"] EXCEPT !.raw = 0, !.policy = 0] \in Contents
    <3>1. disk["meta"] \in Contents
      BY DEF Inv1, TypeOK, File
    <3>2. 0 \in 0..MaxResults /\ 0 \in 0..MaxPolicies
      BY ScaAssumption
    <3>3. QED  BY <3>1, <3>2 DEF Contents
  <2>2. loaded' \in [Worker -> Contents]
    BY <1>1, <2>1 DEF LoadMeta, Inv1, TypeOK
  <2>3. holds[w] = {}
    BY <1>1 DEF LoadMeta, Inv1, Held
  <2>4. QED  BY <1>1, <2>2, <2>3, GotoInv1 DEF LoadMeta, Inv1, TypeOK, Stages
<1>2. CASE LoadRest(w)
  <2>1. disk["raw"].raw \in 0..MaxResults
    BY DEF Inv1, TypeOK, File, Contents
  <2>2. result' \in [Worker -> 0..MaxResults]
    BY <1>2, <2>1 DEF LoadRest, Inv1, TypeOK
  <2>3. holds[w] = {}
    BY <1>2 DEF LoadRest, Inv1, Held
  <2>4. QED
    BY <1>2, <2>2, <2>3, GotoInv1 DEF LoadRest, Inv1, TypeOK, Stages, Writing
<1>3. CASE LoadFails(w)
  BY <1>3, EndInv1 DEF LoadFails, Inv1, TypeOK
<1>4. QED  BY <1>1, <1>2, <1>3

LEMMA OpenInv1 == ASSUME Inv1, NEW w \in Worker, Open(w) PROVE Inv1'
<1>1. disk' \in [File -> Contents]
  BY BlankFacts, TargetIsFile DEF Open, Inv1, TypeOK
<1>2. open' \in [Worker -> BOOLEAN]
  BY DEF Open, Inv1, TypeOK
<1>3. TypeOK' /\ OneScanPerKey'
  BY <1>1, <1>2 DEF Open, Inv1, TypeOK, OneScanPerKey
<1>4. \A v \in Worker : open'[v] => v = w \/ open[v]
  BY DEF Open, Inv1, TypeOK
<1>5. Held'
  BY <1>4 DEF Open, Inv1, Held
<1>6. QED  BY <1>3, <1>5 DEF Inv1

LEMMA AfterFacts ==
  /\ \A s : After(s) \in Stages \ {"queue", "load", "rest", "refind", "fail"}
  /\ \A s : After(s) = "dbfail" => s = "fail"
  /\ \A s : After(s) = "remeta" => s = "refind"
BY DEF After, Stages, Writing

LEMMA WriteInv1 == ASSUME Inv1, NEW w \in Worker, Write(w) PROVE Inv1'
<1>1. disk' \in [File -> Contents]
  BY BlankFacts, TargetIsFile, DataType DEF Write, Inv1, TypeOK
<1>2. UNCHANGED <<db, policy, results, faults, disturbed>>
  BY DEF Write
<1>3. CASE End(w)
  BY <1>1, <1>2, <1>3, EndInv1 DEF Inv1, TypeOK
<1>4. CASE /\ After(pc[w]) # "idle" /\ Goto(w, After(pc[w]))
           /\ UNCHANGED <<inFlight, holds, using, result, loaded>>
  <2>1. /\ After(pc[w]) \in Stages \ {"idle", "queue", "load", "rest", "refind", "fail"}
        /\ After(pc[w]) = "dbfail" => holds[w] # {}
        /\ After(pc[w]) = "remeta" => holds[w] = {}
    BY <1>4, AfterFacts DEF Inv1, Held
  <2>2. QED  BY <1>1, <1>2, <1>4, <2>1, GotoInv1 DEF Inv1, TypeOK
<1>5. QED  BY <1>3, <1>4 DEF Write

LEMMA WriteFailsInv1 == ASSUME Inv1, NEW w \in Worker, WriteFails(w) PROVE Inv1'
<1>1. disk' \in [File -> Contents]
  BY BlankFacts, TargetIsFile DEF WriteFails, Inv1, TypeOK
<1>2. UNCHANGED <<db, policy, results>> /\ faults' \in 0..MaxFaults
  BY ScaAssumption DEF WriteFails, Inv1, TypeOK
<1>3. disturbed' \in BOOLEAN
  BY DEF WriteFails, Uncovered, Inv1, TypeOK
<1>4. CASE Fail(w)
  BY <1>1, <1>2, <1>3, <1>4, FailInv1
<1>5. CASE End(w)
  BY <1>1, <1>2, <1>3, <1>5, EndInv1 DEF Inv1, TypeOK
<1>6. CASE /\ pc[w] = "fail" /\ Goto(w, "dbfail")
           /\ UNCHANGED <<inFlight, holds, using, result, loaded>>
  <2>1. holds[w] # {}
    BY <1>6 DEF Inv1, Held
  <2>2. QED
    BY <1>1, <1>2, <1>3, <1>6, <2>1, GotoInv1 DEF Inv1, TypeOK, Stages
<1>7. QED  BY <1>4, <1>5, <1>6 DEF WriteFails

LEMMA CrashInv1 == ASSUME Inv1, Crash PROVE Inv1'
<1>1. /\ Blank("absent") \in Contents /\ 0 \in 0..MaxResults /\ 0 \in 0..MaxPolicies
      /\ faults' \in 0..MaxFaults
  BY BlankFacts, ScaAssumption DEF Crash, Inv1, TypeOK
<1>2. /\ open' \in [Worker -> BOOLEAN] /\ disturbed' \in BOOLEAN
      /\ \A v \in Worker : ~open'[v]
  BY DEF Crash
<1>3. TypeOK'
  BY <1>1, <1>2 DEF Crash, Inv1, TypeOK, Stages
<1>4. OneScanPerKey' /\ Held'
  BY <1>2 DEF Crash, OneScanPerKey, Held
<1>5. QED  BY <1>3, <1>4 DEF Inv1

LEMMA NextInv1 == Inv1 /\ [Next]_vars => Inv1'
<1> SUFFICES ASSUME Inv1, [Next]_vars PROVE Inv1'
  OBVIOUS
<1>1. ASSUME NEW w \in Worker,
             \/ BeginRequest(w) \/ BeginAudit(w) \/ BeginReEvaluate(w)
             \/ Proceed(w) \/ Scanned(w) \/ RunFails(w)
      PROVE  Inv1'
  BY <1>1, BeginInv1, RunInv1, DbInv1, LoadInv1, OpenInv1, WriteInv1,
     WriteFailsInv1 DEF Proceed
<1>2. CASE ChangePolicy
  <2>1. policy + 1 \in 1..MaxPolicies
    BY <1>2, ScaAssumption DEF ChangePolicy, Inv1, TypeOK
  <2>2. QED
    BY <1>2, <2>1 DEF ChangePolicy, work, Inv1, TypeOK, OneScanPerKey, Held
<1>3. CASE UNCHANGED vars
  BY <1>3 DEF vars, work, Inv1, TypeOK, OneScanPerKey, Held
<1>4. QED  BY <1>1, <1>2, <1>3, CrashInv1 DEF Next

-----------------------------------------------------------------------------
(* The part that holds while nothing disturbs the directory.               *)

\* Then there is one activity at most.
Sole ==
  ~disturbed =>
    \A v, w \in Worker : pc[v] # "idle" /\ pc[w] # "idle" => v = w

\* What a record of meta.json and the row say of each other.
RowMatches(m) ==
  m.status \in {"done", "failed"} =>
    /\ db.status = m.status
    /\ m.status = "done" => db.raw = m.scan

Settled ==
  /\ disk["meta"].status # "queued"
  /\ disk["meta"].status = "done" =>
       /\ \A f \in File : disk[f].state = "whole" /\ disk[f].raw = disk["meta"].scan
       /\ disk["findings"].policy = disk["meta"].policy
  /\ RowMatches(disk["meta"])

\* A file that the activity truncated is empty until it writes it.
Truncated(w) == open[w] => disk[Target(pc[w])] = Blank("empty")

\* Before Save a request has written "queued", an audit nothing.
Before(w) ==
  /\ pc[w] = "queue" /\ ~open[w] => Settled
  /\ pc[w] \in {"policy", "scan", "meta"} /\ ~open[w] =>
       IF holds[w] = {} THEN Settled ELSE disk["meta"].status = "queued"
  /\ pc[w] = "dbfail" => disk["meta"].status = "failed"

\* How far Save is.
Saved(w) ==
  /\ pc[w] \in {"sbom", "findings", "raw", "db"} =>
       disk["meta"] = [state |-> "whole", status |-> "done", scan |-> result[w],
                       raw |-> result[w], policy |-> using[w]]
  /\ pc[w] \in {"findings", "raw", "db"} =>
       disk["sbom"].state = "whole" /\ disk["sbom"].raw = result[w]
  /\ pc[w] \in {"raw", "db"} =>
       /\ disk["findings"].state = "whole" /\ disk["findings"].raw = result[w]
       /\ disk["findings"].policy = using[w]
  /\ pc[w] = "db" =>
       disk["raw"].state = "whole" /\ disk["raw"].raw = result[w]

\* What a re-evaluation read, and how far it is.
ReEvaluated(w) ==
  /\ pc[w] \in {"load", "rest", "refind"} /\ ~open[w] => Settled
  /\ pc[w] \in {"rest", "refind", "remeta"} /\ ~(open[w] /\ pc[w] = "remeta") =>
       loaded[w].status = disk["meta"].status /\ loaded[w].scan = disk["meta"].scan
  /\ pc[w] \in {"rest", "refind", "remeta"} =>
       loaded[w].state = "whole" /\ loaded[w].status # "queued" /\ RowMatches(loaded[w])
  /\ pc[w] \in {"refind", "remeta"} =>
       /\ disk["sbom"].state = "whole"
       /\ disk["raw"].state = "whole" /\ disk["raw"].raw = result[w]
       /\ loaded[w].status = "done" =>
            disk["sbom"].raw = loaded[w].scan /\ result[w] = loaded[w].scan
  /\ pc[w] = "remeta" =>
       /\ disk["findings"].state = "whole" /\ disk["findings"].raw = result[w]
       /\ disk["findings"].policy = using[w]

Expect(w) == Truncated(w) /\ Before(w) /\ Saved(w) /\ ReEvaluated(w)

Calm ==
  ~disturbed => /\ (\A w \in Worker : pc[w] = "idle") => Settled
                /\ \A w \in Worker : pc[w] # "idle" => Expect(w)

Inv ==
  /\ Inv1
  /\ Sole
  /\ Calm

LEMMA InitInv == Init => Inv
<1> SUFFICES ASSUME Init PROVE Inv
  OBVIOUS
<1>1. disk["meta"] = Blank("absent") /\ Blank("absent").status = "none"
  BY DEF Init, File, Blank
<1>2. Settled
  BY <1>1 DEF Settled, RowMatches
<1>3. Sole /\ Calm
  BY <1>2 DEF Init, Sole, Calm
<1>4. QED  BY <1>3, InitInv1 DEF Inv

\* The two ways a step of the sole activity ends: it goes on, or it is over.
LEMMA GoesOn ==
  ASSUME Inv, NEW w \in Worker, NEW s, pc' = [pc EXCEPT ![w] = s],
         pc[w] # "idle", s # "idle", ~disturbed' => ~disturbed,
         ~disturbed' => Expect(w)'
  PROVE  Sole' /\ Calm'
<1> SUFFICES ASSUME ~disturbed' PROVE Sole' /\ Calm'
  BY DEF Sole, Calm
<1>1. \A v \in Worker : v # w => pc'[v] = "idle"
  BY DEF Inv, Inv1, TypeOK, Sole
<1>2. pc'[w] = s
  BY DEF Inv, Inv1, TypeOK
<1>3. QED  BY <1>1, <1>2 DEF Sole, Calm

LEMMA Ends ==
  ASSUME Inv, NEW w \in Worker, End(w), pc[w] # "idle",
         ~disturbed' => ~disturbed, ~disturbed' => Settled'
  PROVE  Sole' /\ Calm'
<1> SUFFICES ASSUME ~disturbed' PROVE Sole' /\ Calm'
  BY DEF Sole, Calm
<1>1. \A v \in Worker : v # w => pc'[v] = "idle"
  BY DEF Inv, Inv1, TypeOK, Sole, End
<1>2. pc'[w] = "idle"
  BY DEF Inv, Inv1, TypeOK, End
<1>3. QED  BY <1>1, <1>2 DEF Sole, Calm

\* What the sole activity may rely on.
LEMMA Expected ==
  ASSUME Inv, NEW w \in Worker, pc[w] # "idle", ~disturbed
  PROVE  Truncated(w) /\ Before(w) /\ Saved(w) /\ ReEvaluated(w)
BY DEF Inv, Calm, Expect

\* After Goto the file being written is not open.
LEMMA GotoFacts ==
  ASSUME Inv1, NEW w \in Worker, NEW s, Goto(w, s)
  PROVE  pc'[w] = s /\ ~open'[w] /\ pc' = [pc EXCEPT ![w] = s]
BY DEF Goto, Inv1, TypeOK

LEMMA BeginCalm ==
  ASSUME Inv, NEW w \in Worker,
         BeginRequest(w) \/ BeginAudit(w) \/ BeginReEvaluate(w)
  PROVE  Sole' /\ Calm'
<1> SUFFICES ASSUME ~disturbed' PROVE Sole' /\ Calm'
  BY DEF Sole, Calm
<1>1. PICK keys \in SUBSET Key, s \in {"queue", "policy", "load"} :
        /\ Begin(w, keys, s) /\ keys \cap inFlight = {}
        /\ s = "policy" => keys = {}
  <2>1. CASE BeginRequest(w)
    <3>1. PICK k \in Key : k \notin inFlight /\ Begin(w, {k}, "queue")
      BY <2>1 DEF BeginRequest, Free
    <3>2. QED  BY <3>1
  <2>2. QED  BY <2>1 DEF BeginAudit, BeginReEvaluate
<1>2. ~disturbed /\ ~Unguarded(w, keys) /\ pc[w] = "idle"
  BY <1>1 DEF Begin
<1>3. \A v \in Worker : pc[v] = "idle"
  <2>1. \A v \in Worker : holds[v] \cap keys = {}
    BY <1>1 DEF Inv, Inv1, OneScanPerKey
  <2>2. QED  BY <1>2, <2>1 DEF Unguarded
<1>4. Settled /\ UNCHANGED <<disk, db>>
  BY <1>2, <1>3 DEF Inv, Calm, BeginRequest, BeginAudit, BeginReEvaluate
<1>5. Settled'
  BY <1>4 DEF Settled, RowMatches
<1>6. pc'[w] = s /\ ~open'[w] /\ holds'[w] = keys
  BY <1>1, GotoFacts DEF Begin, Inv, Inv1, TypeOK
<1>7. \A v \in Worker \ {w} : pc'[v] = "idle"
  BY <1>1, <1>3 DEF Begin, Goto, Inv, Inv1, TypeOK
<1>8. Truncated(w)' /\ Saved(w)' /\ ReEvaluated(w)'
  BY <1>5, <1>6 DEF Truncated, Saved, ReEvaluated
<1>9. Before(w)'
  BY <1>1, <1>5, <1>6 DEF Before
<1>10. QED  BY <1>6, <1>7, <1>8, <1>9 DEF Sole, Calm, Expect

\* A failing Run leaves an audit with what it found, if it wrote nothing yet.
LEMMA FailCalm ==
  ASSUME Inv, NEW w \in Worker, Fail(w), pc[w] # "idle",
         ~disturbed' => ~disturbed,
         ~disturbed' /\ holds[w] = {} => Settled'
  PROVE  Sole' /\ Calm'
<1>1. CASE holds[w] = {} /\ End(w)
  BY <1>1, Ends
<1>2. CASE holds[w] # {} /\ Goto(w, "fail")
  <2>1. pc'[w] = "fail" /\ ~open'[w] /\ pc' = [pc EXCEPT ![w] = "fail"]
    BY <1>2, GotoFacts DEF Inv
  <2>2. Expect(w)'
    BY <2>1 DEF Expect, Truncated, Before, Saved, ReEvaluated
  <2>3. QED  BY <2>1, <2>2, GoesOn
<1>3. QED  BY <1>1, <1>2 DEF Fail

LEMMA RunCalm ==
  ASSUME Inv, NEW w \in Worker, LoadPolicy(w) \/ Scanned(w) \/ RunFails(w)
  PROVE  Sole' /\ Calm'
<1>1. /\ UNCHANGED <<disk, db, disturbed>> /\ pc[w] \in {"policy", "scan"}
      /\ ~open[w]
  BY DEF LoadPolicy, Scanned, RunFails, Inv, Inv1, Held, Writing
<1>2. ~disturbed =>
        IF holds[w] = {} THEN Settled ELSE disk["meta"].status = "queued"
  BY <1>1, Expected DEF Before
<1>3. Settled => Settled'
  BY <1>1 DEF Settled, RowMatches
<1>4. CASE RunFails(w)
  BY <1>1, <1>2, <1>3, <1>4, FailCalm DEF RunFails
<1>5. CASE LoadPolicy(w) \/ Scanned(w)
  <2>1. PICK s \in {"scan", "meta"} : Goto(w, s)
    BY <1>5 DEF LoadPolicy, Scanned
  <2>2. pc'[w] = s /\ ~open'[w] /\ pc' = [pc EXCEPT ![w] = s] /\ holds' = holds
    BY <1>5, <2>1, GotoFacts DEF LoadPolicy, Scanned, Inv
  <2>3. ~disturbed => Before(w)'
    BY <1>1, <1>2, <1>3, <2>2 DEF Before
  <2>4. Truncated(w)' /\ Saved(w)' /\ ReEvaluated(w)'
    BY <2>2 DEF Truncated, Saved, ReEvaluated
  <2>5. QED  BY <1>1, <2>2, <2>3, <2>4, GoesOn DEF Expect
<1>6. QED  BY <1>4, <1>5

LEMMA DbCalm ==
  ASSUME Inv, NEW w \in Worker, MarkFailed(w) \/ SaveDb(w) \/ DbFails(w)
  PROVE  Sole' /\ Calm'
<1>1. End(w) /\ pc[w] # "idle" /\ UNCHANGED disk /\ (~disturbed' => ~disturbed)
  BY DEF MarkFailed, SaveDb, DbFails
<1>2. CASE MarkFailed(w)
  <2>1. ~disturbed => disk["meta"].status = "failed"
    BY <1>1, <1>2, Expected DEF MarkFailed, Before
  <2>2. db'.status = "failed"
    BY <1>2 DEF MarkFailed, MarkedFailed, Inv, Inv1, TypeOK
  <2>3. ~disturbed => Settled'
    BY <1>1, <2>1, <2>2 DEF Settled, RowMatches
  <2>4. QED  BY <1>1, <2>3, Ends
<1>3. CASE SaveDb(w)
  <2>1. ~disturbed => Saved(w)
    BY <1>1, Expected
  <2>2. db'.status = "done" /\ db'.raw = result[w] /\ pc[w] = "db"
    BY <1>3 DEF SaveDb
  <2>3. ~disturbed => Settled'
    BY <1>1, <2>1, <2>2 DEF Saved, Settled, RowMatches, File
  <2>4. QED  BY <1>1, <2>3, Ends
<1>4. CASE DbFails(w)
  BY <1>1, <1>4, Ends DEF DbFails
<1>5. QED  BY <1>2, <1>3, <1>4

LEMMA LoadCalm ==
  ASSUME Inv, NEW w \in Worker, LoadMeta(w) \/ LoadRest(w) \/ LoadFails(w)
  PROVE  Sole' /\ Calm'
<1>1. /\ UNCHANGED <<disk, db, disturbed>> /\ pc[w] \in {"load", "rest"}
      /\ ~open[w]
  BY DEF LoadMeta, LoadRest, LoadFails, Inv, Inv1, Held, Writing
<1>2. ~disturbed => Settled /\ ReEvaluated(w)
  BY <1>1, Expected DEF ReEvaluated
<1>3. Settled => Settled'
  BY <1>1 DEF Settled, RowMatches
<1>4. CASE LoadFails(w)
  BY <1>1, <1>2, <1>3, <1>4, Ends DEF LoadFails
<1>5. CASE LoadMeta(w)
  <2>1. pc'[w] = "rest" /\ ~open'[w] /\ pc' = [pc EXCEPT ![w] = "rest"]
    BY <1>5, GotoFacts DEF LoadMeta, Inv
  <2>2. /\ loaded'[w].state = "whole"
        /\ loaded'[w].status = disk["meta"].status
        /\ loaded'[w].scan = disk["meta"].scan
    <3>1. disk["meta"] \in Contents
      BY DEF Inv, Inv1, TypeOK, File
    <3>2. loaded'[w] = [disk["meta"] EXCEPT !.raw = 0, !.policy = 0]
      BY <1>5 DEF LoadMeta, Inv, Inv1, TypeOK
    <3>3. disk["meta"].state = "whole"
      BY <1>5 DEF LoadMeta
    <3>4. QED  BY <3>1, <3>2, <3>3 DEF Contents
  <2>3. ~disturbed => ReEvaluated(w)'
    BY <1>1, <1>2, <1>3, <2>1, <2>2 DEF ReEvaluated, Settled, RowMatches
  <2>4. Truncated(w)' /\ Saved(w)' /\ Before(w)'
    BY <2>1 DEF Truncated, Saved, Before
  <2>5. QED  BY <1>1, <2>1, <2>3, <2>4, GoesOn DEF Expect
<1>6. CASE LoadRest(w)
  <2>1. pc'[w] = "refind" /\ ~open'[w] /\ pc' = [pc EXCEPT ![w] = "refind"]
    BY <1>6, GotoFacts DEF LoadRest, Inv
  <2>2. /\ result'[w] = disk["raw"].raw /\ UNCHANGED loaded
        /\ disk["sbom"].state = "whole" /\ disk["raw"].state = "whole"
    BY <1>6 DEF LoadRest, Inv, Inv1, TypeOK, File
  <2>3. ~disturbed /\ disk["meta"].status = "done" =>
          /\ disk["sbom"].raw = disk["meta"].scan
          /\ disk["raw"].raw = disk["meta"].scan
    BY <1>2 DEF Settled, File
  <2>4. ~disturbed => ReEvaluated(w)'
    <3>1. ~disturbed =>
            /\ loaded[w].status = disk["meta"].status
            /\ loaded[w].scan = disk["meta"].scan
            /\ loaded[w].state = "whole" /\ loaded[w].status # "queued"
            /\ RowMatches(loaded[w])
      BY <1>1, <1>2, <1>6 DEF ReEvaluated, LoadRest
    <3>2. QED
      BY <1>1, <1>2, <1>3, <2>1, <2>2, <2>3, <3>1 DEF ReEvaluated, RowMatches
  <2>5. Truncated(w)' /\ Saved(w)' /\ Before(w)'
    BY <2>1 DEF Truncated, Saved, Before
  <2>6. QED  BY <1>1, <2>1, <2>4, <2>5, GoesOn DEF Expect
<1>7. QED  BY <1>4, <1>5, <1>6

LEMMA OpenCalm == ASSUME Inv, NEW w \in Worker, Open(w) PROVE Sole' /\ Calm'
<1>1. /\ UNCHANGED <<db, pc, holds, using, result, loaded, disturbed>>
      /\ pc[w] \in Writing /\ ~open[w] /\ open'[w]
      /\ disk' = [disk EXCEPT ![Target(pc[w])] = Blank("empty")]
  BY DEF Open, Inv, Inv1, TypeOK
<1>2. /\ disk'[Target(pc[w])] = Blank("empty")
      /\ \A f \in File : f # Target(pc[w]) => disk'[f] = disk[f]
  BY <1>1, TargetIsFile DEF Inv, Inv1, TypeOK
<1>3. pc' = [pc EXCEPT ![w] = pc[w]] /\ pc[w] # "idle"
  BY <1>1 DEF Inv, Inv1, TypeOK, Writing
<1>4. Truncated(w)'
  BY <1>1, <1>2 DEF Truncated
<1>5. ~disturbed => Before(w)'
  BY <1>1, Expected DEF Before, Writing
<1>6. ~disturbed => Saved(w)'
  <2> SUFFICES ASSUME ~disturbed PROVE Saved(w)'
    OBVIOUS
  <2>1. Saved(w)
    BY <1>3, Expected
  <2>2. /\ pc[w] = "sbom" => Target(pc[w]) = "sbom"
        /\ pc[w] = "findings" => Target(pc[w]) = "findings"
        /\ pc[w] = "raw" => Target(pc[w]) = "raw"
    BY DEF Target
  <2>3. QED  BY <1>1, <1>2, <2>1, <2>2 DEF Saved, File, Writing
<1>7. ~disturbed => ReEvaluated(w)'
  <2> SUFFICES ASSUME ~disturbed PROVE ReEvaluated(w)'
    OBVIOUS
  <2>1. ReEvaluated(w)
    BY <1>3, Expected
  <2>2. /\ pc[w] = "refind" => Target(pc[w]) = "findings"
        /\ pc[w] = "remeta" => Target(pc[w]) = "meta"
    BY DEF Target
  <2>3. RowMatches(loaded[w]) => RowMatches(loaded[w])'
    BY <1>1 DEF RowMatches
  <2>4. QED  BY <1>1, <1>2, <2>1, <2>2, <2>3 DEF ReEvaluated, File, Writing
<1>8. QED  BY <1>1, <1>3, <1>4, <1>5, <1>6, <1>7, GoesOn DEF Expect

\* Alone, a writer finds the file as it truncated it, and writes it whole.
LEMMA WritesWhole ==
  ASSUME Inv, NEW w \in Worker, Write(w), ~disturbed
  PROVE  /\ pc[w] \in Writing
         /\ disk'[Target(pc[w])] = Data(w)
         /\ \A f \in File : f # Target(pc[w]) => disk'[f] = disk[f]
<1>1. open[w] /\ pc[w] \in Writing
  BY DEF Write, Inv, Inv1, Held
<1>2. disk[Target(pc[w])] = Blank("empty")
  BY <1>1, Expected DEF Truncated, Writing
<1>3. disk' = [disk EXCEPT ![Target(pc[w])] = Data(w)]
  BY <1>2, BlankFacts DEF Write
<1>4. QED  BY <1>1, <1>3, TargetIsFile DEF Inv, Inv1, TypeOK

LEMMA DataFacts ==
  ASSUME Inv1, NEW w \in Worker
  PROVE  /\ pc[w] = "queue" => Data(w).status = "queued"
         /\ pc[w] = "fail" => Data(w).status = "failed"
         /\ pc[w] = "meta" =>
              Data(w) = [state |-> "whole", status |-> "done", scan |-> result[w],
                         raw |-> result[w], policy |-> using[w]]
         /\ pc[w] \in {"sbom", "raw"} =>
              Data(w).state = "whole" /\ Data(w).raw = result[w]
         /\ pc[w] \in {"findings", "refind"} =>
              /\ Data(w).state = "whole" /\ Data(w).raw = result[w]
              /\ Data(w).policy = using[w]
         /\ pc[w] = "remeta" =>
              /\ Data(w).state = loaded[w].state
              /\ Data(w).status = loaded[w].status
              /\ Data(w).scan = loaded[w].scan
              /\ Data(w).raw = result[w] /\ Data(w).policy = using[w]
<1>1. loaded[w] \in Contents
  BY DEF Inv1, TypeOK
<1>2. CASE pc[w] \in {"queue", "fail", "meta", "sbom", "raw"}
  BY <1>2 DEF Data, Blank
<1>3. CASE pc[w] \in {"findings", "refind"}
  BY <1>3 DEF Data, Blank
<1>4. CASE pc[w] = "remeta"
  BY <1>1, <1>4 DEF Data, Contents
<1>5. QED  BY <1>2, <1>3, <1>4

LEMMA WriteCalm == ASSUME Inv, NEW w \in Worker, Write(w) PROVE Sole' /\ Calm'
<1>1. UNCHANGED <<db, disturbed>> /\ pc[w] \in Writing /\ pc[w] # "idle"
  BY DEF Write, Inv, Inv1, Held, Writing
<1>2. CASE pc[w] = "remeta"
  <2>1. End(w)
    BY <1>2 DEF Write, After
  <2>2. ASSUME ~disturbed PROVE Settled'
    <3>1. /\ disk'["meta"] = Data(w)
          /\ \A f \in File : f # "meta" => disk'[f] = disk[f]
      BY <1>2, <2>2, WritesWhole DEF Target
    <3>2. ReEvaluated(w)
      BY <1>1, <2>2, Expected
    <3>3. RowMatches(loaded[w]) => RowMatches(disk["meta"])'
      BY <1>1, <1>2, <3>1, DataFacts DEF RowMatches, Inv
    <3>4. QED
      BY <1>2, <3>1, <3>2, <3>3, DataFacts DEF Settled, ReEvaluated, File, Inv
  <2>3. QED  BY <1>1, <2>1, <2>2, Ends
<1>3. CASE pc[w] # "remeta"
  <2>1. /\ After(pc[w]) # "idle" /\ Goto(w, After(pc[w]))
        /\ UNCHANGED <<holds, using, result, loaded>>
    BY <1>1, <1>3 DEF Write, After, Writing
  <2>2. /\ pc'[w] = After(pc[w]) /\ ~open'[w]
        /\ pc' = [pc EXCEPT ![w] = After(pc[w])]
    BY <2>1, GotoFacts DEF Inv
  <2>3. Truncated(w)'
    BY <2>2 DEF Truncated
  <2>4. ASSUME ~disturbed PROVE Before(w)' /\ Saved(w)' /\ ReEvaluated(w)'
    <3>1. /\ disk'[Target(pc[w])] = Data(w)
          /\ \A f \in File : f # Target(pc[w]) => disk'[f] = disk[f]
      BY <2>4, WritesWhole
    <3>2. Saved(w) /\ ReEvaluated(w)
      BY <1>1, <2>4, Expected
    <3>3. CASE pc[w] = "queue"
      <4>1. pc'[w] = "policy" /\ disk'["meta"].status = "queued"
        BY <2>2, <3>1, <3>3, DataFacts DEF After, Target, Inv
      <4>2. holds'[w] # {}
        BY <2>1, <3>3 DEF Inv, Inv1, Held
      <4>3. QED  BY <4>1, <4>2 DEF Before, Saved, ReEvaluated
    <3>4. CASE pc[w] = "fail"
      <4>1. pc'[w] = "dbfail" /\ disk'["meta"].status = "failed"
        BY <2>2, <3>1, <3>4, DataFacts DEF After, Target, Inv
      <4>2. QED  BY <4>1 DEF Before, Saved, ReEvaluated
    <3>5. CASE pc[w] = "meta"
      <4>1. pc'[w] = "sbom" /\ disk'["meta"] = Data(w)
        BY <2>2, <3>1, <3>5 DEF After, Target
      <4>2. QED
        BY <2>1, <3>5, <4>1, DataFacts DEF Before, Saved, ReEvaluated, Inv
    <3>6. CASE pc[w] = "sbom"
      <4>1. /\ pc'[w] = "findings" /\ disk'["sbom"] = Data(w)
            /\ disk'["meta"] = disk["meta"]
        BY <2>2, <3>1, <3>6 DEF After, Target, File
      <4>2. QED
        BY <2>1, <3>2, <3>6, <4>1, DataFacts DEF Before, Saved, ReEvaluated, Inv
    <3>7. CASE pc[w] = "findings"
      <4>1. /\ pc'[w] = "raw" /\ disk'["findings"] = Data(w)
            /\ disk'["meta"] = disk["meta"] /\ disk'["sbom"] = disk["sbom"]
        BY <2>2, <3>1, <3>7 DEF After, Target, File
      <4>2. QED
        BY <2>1, <3>2, <3>7, <4>1, DataFacts DEF Before, Saved, ReEvaluated, Inv
    <3>8. CASE pc[w] = "raw"
      <4>1. /\ pc'[w] = "db" /\ disk'["raw"] = Data(w)
            /\ disk'["meta"] = disk["meta"] /\ disk'["sbom"] = disk["sbom"]
            /\ disk'["findings"] = disk["findings"]
        BY <2>2, <3>1, <3>8 DEF After, Target, File
      <4>2. QED
        BY <2>1, <3>2, <3>8, <4>1, DataFacts DEF Before, Saved, ReEvaluated, Inv
    <3>9. CASE pc[w] = "refind"
      <4>1. /\ pc'[w] = "remeta" /\ disk'["findings"] = Data(w)
            /\ disk'["raw"] = disk["raw"] /\ disk'["sbom"] = disk["sbom"]
            /\ disk'["meta"] = disk["meta"]
        BY <2>2, <3>1, <3>9 DEF After, Target, File
      <4>2. RowMatches(loaded[w]) => RowMatches(loaded[w])'
        BY <1>1, <2>1 DEF RowMatches
      <4>3. QED
        BY <2>1, <3>2, <3>9, <4>1, <4>2, DataFacts DEF Before, Saved, ReEvaluated, Inv
    <3>10. QED
      BY <1>1, <1>3, <3>3, <3>4, <3>5, <3>6, <3>7, <3>8, <3>9 DEF Writing
  <2>5. QED  BY <1>1, <2>1, <2>2, <2>3, <2>4, GoesOn DEF Expect
<1>4. QED  BY <1>2, <1>3

LEMMA WriteFailsCalm ==
  ASSUME Inv, NEW w \in Worker, WriteFails(w)
  PROVE  Sole' /\ Calm'
<1>1. /\ UNCHANGED db /\ pc[w] \in Writing /\ pc[w] # "idle"
      /\ disturbed' = (disturbed \/ Uncovered(w))
  BY DEF WriteFails, Writing
<1>2. ~disturbed' => ~disturbed
  BY <1>1 DEF Inv, Inv1, TypeOK
<1>3. ~disturbed' => holds[w] # {} /\ pc[w] # "fail"
  BY <1>1 DEF Uncovered
<1>4. CASE Fail(w)
  BY <1>1, <1>2, <1>3, <1>4, FailCalm
<1>5. CASE pc[w] = "fail" /\ Goto(w, "dbfail")
  <2>1. pc' = [pc EXCEPT ![w] = "dbfail"]
    BY <1>5 DEF Goto
  <2>2. QED  BY <1>1, <1>2, <1>3, <1>5, <2>1, GoesOn
<1>6. CASE pc[w] \in {"queue", "refind", "remeta"} /\ End(w)
  <2>1. ASSUME ~disturbed' PROVE Settled'
    <3>1. pc[w] = "queue"
      BY <1>3, <1>6, <2>1 DEF Inv, Inv1, Held
    <3>2. Truncated(w) /\ Before(w)
      BY <1>1, <1>2, <2>1, Expected
    <3>3. CASE ~open[w]
      <4>1. UNCHANGED disk
        BY <3>3 DEF WriteFails
      <4>2. QED
        BY <1>1, <3>1, <3>2, <3>3, <4>1 DEF Before, Settled, RowMatches
    <3>4. CASE open[w]
      <4>1. disk["meta"] = Blank("empty")
        BY <3>1, <3>2, <3>4 DEF Truncated, Target
      <4>2. \/ UNCHANGED disk
            \/ disk' = [disk EXCEPT !["meta"] = Blank("garbled")]
        BY <3>1 DEF WriteFails, Target
      <4>3. disk'["meta"].status = "none"
        BY <4>1, <4>2, BlankFacts DEF Inv, Inv1, TypeOK, File
      <4>4. QED  BY <4>3 DEF Settled, RowMatches
    <3>5. QED  BY <3>3, <3>4 DEF Inv, Inv1, TypeOK
  <2>2. QED  BY <1>1, <1>2, <1>6, <2>1, Ends
<1>7. QED  BY <1>4, <1>5, <1>6 DEF WriteFails

LEMMA NextInv == Inv /\ [Next]_vars => Inv'
<1> SUFFICES ASSUME Inv, [Next]_vars PROVE Inv'
  OBVIOUS
<1>1. Inv1'
  BY NextInv1 DEF Inv
<1>2. Sole' /\ Calm'
  <2>1. ASSUME NEW w \in Worker,
               \/ BeginRequest(w) \/ BeginAudit(w) \/ BeginReEvaluate(w)
               \/ Proceed(w) \/ Scanned(w) \/ RunFails(w)
        PROVE  Sole' /\ Calm'
    BY <2>1, BeginCalm, RunCalm, DbCalm, LoadCalm, OpenCalm, WriteCalm,
       WriteFailsCalm DEF Proceed
  <2>2. CASE Crash
    BY <2>2 DEF Crash, Sole, Calm
  <2>3. CASE UNCHANGED <<disk, db, work, disturbed>>
    BY <2>3 DEF work, Inv, Sole, Calm, Settled, RowMatches, Expect, Truncated,
       Before, Saved, ReEvaluated
  <2>4. QED  BY <2>1, <2>2, <2>3 DEF Next, ChangePolicy, vars
<1>3. QED  BY <1>1, <1>2 DEF Inv

LEMMA InvHolds == Spec => []Inv
BY InitInv, NextInv, PTL DEF Spec

-----------------------------------------------------------------------------
(* The theorems.                                                           *)

\* Every variable keeps its type, whatever number of activities, results,
\* policies and faults there is.
THEOREM ScaTyped == Spec => []TypeOK
BY InvHolds, PTL DEF Inv, Inv1

\* scaInFlight separates the requests of one key, and every path through a
\* request gives its key back.
THEOREM GuardSeparates == Spec => []OneScanPerKey
BY InvHolds, PTL DEF Inv, Inv1

\* Undisturbed, a scan that is done has four files of one result.
THEOREM DoneWhole == Spec => []DoneIsWhole
<1>1. Inv => DoneIsWhole
  <2> SUFFICES ASSUME Inv, Active = {}, ~disturbed, disk["meta"].status = "done"
               PROVE  /\ \A f \in File : /\ disk[f].state = "whole"
                                         /\ disk[f].raw = disk["meta"].scan
                      /\ disk["findings"].policy = disk["meta"].policy
    BY DEF DoneIsWhole
  <2>1. Settled
    BY DEF Inv, Calm, Active
  <2>2. QED  BY <2>1 DEF Settled
<1>2. QED  BY <1>1, InvHolds, PTL

\* Undisturbed, a queued scan is being served by a request.
THEOREM QueuedServed == Spec => []QueuedIsServed
<1>1. Inv => QueuedIsServed
  <2> SUFFICES ASSUME Inv, ~disturbed, disk["meta"].status = "queued",
                      \A w \in Worker : holds[w] = {}
               PROVE  FALSE
    BY DEF QueuedIsServed
  <2>1. PICK w \in Worker : pc[w] # "idle"
    BY DEF Inv, Calm, Settled
  <2>2. Truncated(w) /\ Before(w) /\ Saved(w) /\ ReEvaluated(w)
    BY <2>1, Expected
  <2>3. ~Settled
    BY DEF Settled
  <2>4. pc[w] \in Stages \ {"idle", "queue", "fail", "dbfail"}
    BY <2>1 DEF Inv, Inv1, TypeOK, Held
  <2>5. CASE open[w]
    <3>1. /\ disk[Target(pc[w])] = Blank("empty")
          /\ pc[w] \in {"meta", "sbom", "findings", "raw", "refind", "remeta"}
      BY <2>2, <2>4, <2>5 DEF Truncated, Inv, Inv1, Held, Writing
    <3>2. CASE pc[w] \in {"meta", "remeta"}
      BY <3>1, <3>2, BlankFacts DEF Target
    <3>3. CASE pc[w] \in {"sbom", "findings", "raw"}
      BY <2>2, <3>3 DEF Saved
    <3>4. CASE pc[w] = "refind"
      BY <2>2, <3>4 DEF ReEvaluated
    <3>5. QED  BY <3>1, <3>2, <3>3, <3>4
  <2>6. CASE ~open[w]
    <3>1. CASE pc[w] \in {"policy", "scan", "meta"}
      BY <2>1, <2>2, <2>3, <2>6, <3>1 DEF Before
    <3>2. CASE pc[w] \in {"sbom", "findings", "raw", "db"}
      BY <2>2, <3>2 DEF Saved
    <3>3. CASE pc[w] = "load"
      BY <2>2, <2>3, <2>6, <3>3 DEF ReEvaluated
    <3>4. CASE pc[w] \in {"rest", "refind", "remeta"}
      BY <2>2, <2>6, <3>4 DEF ReEvaluated
    <3>5. QED  BY <2>4, <3>1, <3>2, <3>3, <3>4 DEF Stages, Writing
  <2>7. QED  BY <2>5, <2>6
<1>2. QED  BY <1>1, InvHolds, PTL

\* Undisturbed, the row of the database is that of meta.json.
THEOREM DbFollows == Spec => []DbAgrees
<1>1. Inv => DbAgrees
  BY DEF Inv, Calm, Active, Settled, RowMatches, DbAgrees
<1>2. QED  BY <1>1, InvHolds, PTL
=============================================================================
