----------------------------- MODULE TaintFacts -----------------------------
(***************************************************************************)
(* The worklist of src/taint/engine/taint.go and the rounds Scan runs it   *)
(* in (src/taint/engine/analyzer.go).                                      *)
(*                                                                         *)
(* The store the bodies were collected into is a record of relations: a    *)
(* Go map from a key to a list is the set of its pairs, because no rule    *)
(* looks at the order of a list or at a duplicate in it.  The one list     *)
(* whose order is read, the methods of one name, is a sequence.            *)
(*                                                                         *)
(* A method is <<class, name, signature>>, a field <<class, field>>.  A    *)
(* fact is its identity, the six fields of TaintFactKey: the provenance    *)
(* and the path are not part of it.                                        *)
(***************************************************************************)
EXTENDS Naturals, Sequences, FiniteSets

CONSTANTS MaxTaintIterations,  \* facts one call of Propagate takes (50)
          MaxTaintRounds,      \* calls of Propagate in a scan (3)
          Stores               \* the stores a scan may have collected

ASSUME TaintConfig == MaxTaintIterations \in Nat /\ MaxTaintRounds \in Nat

(* A store is a record.  A method with recorded parameters is listed under *)
(* its name (RegisterMethodIndex, called wherever they are recorded), and  *)
(* a local that keeps the result of a call is a local of its method        *)
(* (src/taint/engine/bodycollector.go writes both).                        *)
ASSUME StoresConfig ==
  \A s \in Stores :
    /\ {"fieldTaints", "returnTaints", "paramTaints"} \subseteq DOMAIN s
    /\ \A o \in s.paramOrder :
         /\ <<o[1][1], o[1][2]>> \in DOMAIN s.named
         /\ \E i \in DOMAIN s.named[<<o[1][1], o[1][2]>>] :
              s.named[<<o[1][1], o[1][2]>>][i] = o[1]
    /\ \A x \in s.returnToLocal : <<x[2], x[3]>> \in s.locals

VARIABLES store,      \* the collected relations
          facts,      \* TaintEngine.facts
          worklist,   \* batches of facts still to be taken, oldest first
          iteration,  \* facts taken in this round
          round,      \* rounds begun
          grew,       \* this round found a fact: newCount > 0
          phase       \* "seed", "round", "popping", "synced"

taint == <<store, facts, worklist, iteration, round, grew, phase>>

Fact(at, key, name, type, source, via) ==
  [at |-> at, key |-> key, name |-> name, type |-> type, source |-> source, via |-> via]

NoVia == << >>

NoMethod == <<"", "", "">>

Pattern(m) == <<m[1], m[2]>>

MethodsNamed(s, pattern) == IF pattern \in DOMAIN s.named THEN s.named[pattern] ELSE << >>

-----------------------------------------------------------------------------
(* The nine rules: what one fact gives rise to.                            *)

ParamToField(s, f) ==
  {Fact("field", r[3], "", f.type, f.source, NoVia) :
     r \in {x \in s.paramToField : f.at = "param" /\ x[1] = f.key /\ x[2] = f.name}}

ParamToReturn(s, f) ==
  {Fact("return", r[1], "", f.type, f.source, NoVia) :
     r \in {x \in s.paramToReturn : f.at = "param" /\ x[1] = f.key /\ x[2] = f.name}}

(* The locals a tainted call result is kept in; one that already carries   *)
(* the source is passed over.                                              *)
Receivers(s, f) ==
  {x \in s.returnToLocal : /\ f.at = "return" /\ x[1] = f.key
                           /\ <<x[2], x[3]>> \in s.locals
                           /\ <<x[2], x[3], f.source>> \notin s.localSources}

ReturnToCaller(s, f) ==
  UNION {
    {Fact("return", x[2], "", f.type, f.source, NoVia) :
       y \in {z \in s.localReturn : z = <<x[2], x[3]>>}}
    \cup
    {Fact("field", y[3], "", "FIELD_PROPAGATION", f.source, <<"return", f.key>>) :
       y \in {z \in s.localToField : z[1] = x[2] /\ z[2] = x[3]}}
    : x \in Receivers(s, f)}

(* A field assigned from a call: of the method itself, or, when the callee *)
(* was not resolved, of any method of that name and number of arguments.   *)
ReturnToFieldViaCallSite(s, f) ==
  {Fact("field", c.field, "", "FIELD_PROPAGATION", f.source, <<"return", f.key>>) :
     c \in {x \in s.callSites :
              /\ f.at = "return"
              /\ \/ x.callee = f.key
                 \/ /\ x.callee = NoMethod /\ x.pattern = Pattern(f.key)
                    /\ <<f.key, x.args>> \in s.paramCounts
              /\ <<x.field, x.caller, x.line>> \in s.assignments}}

FieldToField(s, f) ==
  {Fact("field", r[2], "", "FIELD_PROPAGATION", f.source, f.key) :
     r \in {x \in s.fieldEdges : f.at = "field" /\ x[1] = f.key}}

FieldReadToReturn(s, f) ==
  {Fact("return", r[2], "", f.type, f.source, f.key) :
     r \in {x \in s.fieldReturns : /\ f.at = "field" /\ x[1] = f.key
                                   /\ <<x[2], f.source>> \notin s.returnTaints}}

InterproceduralParam(s, f) ==
  UNION {
    {Fact("param", p[1], p[2], f.type, f.source, f.via) :
       p \in {x \in s.paramOrder : /\ x[3] = r[4]
                                   /\ \E i \in DOMAIN MethodsNamed(s, r[3]) :
                                        MethodsNamed(s, r[3])[i] = x[1]}}
    : r \in {x \in s.paramToCallParam : f.at = "param" /\ x[1] = f.key /\ x[2] = f.name}}

FieldReadToParam(s, f) ==
  {Fact("param", r[2], r[3], f.type, f.source, f.key) :
     r \in {x \in s.fieldReadLocals : f.at = "field" /\ x[1] = f.key}}

(* An element taken out of a collection field is tainted like the field,   *)
(* except through a method named like an access method.                    *)
CollectionElement(s, f) ==
  {Fact("return", r[2], "", f.type, f.source, f.key) :
     r \in {x \in s.fieldReturns : /\ f.at = "field" /\ x[1] = f.key
                                   /\ f.key \in s.collectionFields
                                   /\ x[2][2] \notin s.accessNames}}

Consequences(s, f) ==
  UNION {ParamToField(s, f), ParamToReturn(s, f), ReturnToCaller(s, f),
         ReturnToFieldViaCallSite(s, f), FieldToField(s, f), FieldReadToReturn(s, f),
         InterproceduralParam(s, f), FieldReadToParam(s, f), CollectionElement(s, f)}

-----------------------------------------------------------------------------
(* SeedFromStore: what the collection of the bodies found by itself.       *)

(* The method a tainted argument is taken to go to: the first of that name *)
(* with enough parameters, or else the first of that name.                 *)
ArgumentCallee(s, pattern, index) ==
  LET found == MethodsNamed(s, pattern)
      roomy == {i \in DOMAIN found : \E c \in s.paramCounts : c[1] = found[i] /\ c[2] > index}
  IN  IF found = << >> THEN {}
      ELSE IF roomy = {} THEN {found[1]}
      ELSE {found[CHOOSE i \in roomy : \A j \in roomy : i <= j]}

SeedFacts(s) ==
  {Fact("field", t[1], "", t[2], t[3], t[4]) : t \in s.fieldTaints}
  \cup {Fact("param", t[1], t[2], "USER_INPUT", t[3], NoVia) : t \in s.paramTaints}
  \cup {Fact("return", t[1], "", "USER_INPUT", t[2], NoVia) : t \in s.returnTaints}
  \cup UNION {{Fact("param", p[1], p[2], "USER_INPUT", t[3], NoVia) :
                 p \in {x \in s.paramOrder : /\ x[1] \in ArgumentCallee(s, t[1], t[2])
                                             /\ x[3] = t[2]}}
              : t \in s.callParamTaints}

(* SyncToStore: of the field facts that differ only in the field they came *)
(* from, the one the map gives first is kept.                              *)
StoredAnySource(s, f) == \E t \in s.fieldTaints : t[1] = f.key /\ t[2] = f.type

StoredAlready(s, f) == \E t \in s.fieldTaints : t[1] = f.key /\ t[2] = f.type /\ t[3] = f.source

SyncedStores(s, fs) ==
  LET fresh == {f \in fs : f.at = "field" /\ ~StoredAlready(s, f)}
      kept == {k \in SUBSET fresh :
                 \A f \in fresh : Cardinality({x \in k : /\ x.key = f.key /\ x.type = f.type
                                                         /\ x.source = f.source}) = 1}
  IN  {[s EXCEPT !.fieldTaints = @ \cup {<<f.key, f.type, f.source, f.via>> : f \in k},
                 !.returnTaints = @ \cup {<<f.key, f.source>> : f \in {x \in fs : x.at = "return"}},
                 !.paramTaints = @ \cup {<<f.key, f.name, f.source>> :
                                           f \in {x \in fs : x.at = "param"}}] : k \in kept}

-----------------------------------------------------------------------------

TaintInit ==
  /\ store \in Stores
  /\ facts = {} /\ worklist = << >>
  /\ iteration = 0 /\ round = 0 /\ grew = FALSE
  /\ phase = "seed"

SeedFromStore ==
  /\ phase = "seed"
  /\ facts' = SeedFacts(store)
  /\ phase' = "round"
  /\ UNCHANGED <<store, worklist, iteration, round, grew>>

(* Propagate begins with every fact known so far, in the order of a map.   *)
StartRound ==
  /\ phase = "round" /\ round < MaxTaintRounds
  /\ round' = round + 1
  /\ worklist' = IF facts = {} THEN << >> ELSE <<facts>>
  /\ iteration' = 0 /\ grew' = FALSE
  /\ phase' = "popping"
  /\ UNCHANGED <<store, facts>>

ForgottenInQueue(rest, new) == rest

(* addFact: a fact is queued when it is new, behind everything queued.     *)
Enqueued(rest, new) == IF new = {} THEN rest ELSE Append(rest, new)

Without(queue, f) ==
  IF Head(queue) = {f} THEN Tail(queue) ELSE <<Head(queue) \ {f}>> \o Tail(queue)

Pop ==
  /\ phase = "popping"
  /\ worklist # << >> /\ iteration < MaxTaintIterations
  /\ \E f \in Head(worklist) :
       LET new == Consequences(store, f) \ facts
       IN  /\ facts' = facts \cup new
           /\ worklist' = Enqueued(Without(worklist, f), new)
           /\ grew' = (grew \/ new # {})
  /\ iteration' = iteration + 1
  /\ UNCHANGED <<store, round, phase>>

RoundOver == worklist = << >> \/ iteration >= MaxTaintIterations

(* A round that found something is followed by another.                    *)
EndRound ==
  /\ phase = "popping" /\ RoundOver /\ grew
  /\ phase' = "round"
  /\ UNCHANGED <<store, facts, worklist, iteration, round, grew>>

SyncToStore ==
  /\ \/ phase = "popping" /\ RoundOver /\ ~grew
     \/ phase = "round" /\ round >= MaxTaintRounds
  /\ store' \in SyncedStores(store, facts)
  /\ phase' = "synced"
  /\ UNCHANGED <<facts, worklist, iteration, round, grew>>

TaintNext == SeedFromStore \/ StartRound \/ Pop \/ EndRound \/ SyncToStore

TaintSpec == TaintInit /\ [][TaintNext]_taint

-----------------------------------------------------------------------------
(* What the facts should be: the places a source reaches when the code's   *)
(* flows are read as a graph, without facts, queues or rounds.             *)

Place(f) == [at |-> f.at, key |-> f.key, name |-> f.name]
ParamPlace(m, p) == [at |-> "param", key |-> m, name |-> p]
FieldPlace(k) == [at |-> "field", key |-> k, name |-> ""]
ReturnPlace(m) == [at |-> "return", key |-> m, name |-> ""]

Flows(s, source) ==
  UNION {
    {<<ParamPlace(r[1], r[2]), FieldPlace(r[3])>> : r \in s.paramToField},
    {<<ParamPlace(r[1], r[2]), ReturnPlace(r[1])>> : r \in s.paramToReturn},
    UNION {{<<ParamPlace(r[1], r[2]), ParamPlace(o[1], o[2])>> :
              o \in {x \in s.paramOrder : Pattern(x[1]) = r[3] /\ x[3] = r[4]}}
           : r \in s.paramToCallParam},
    UNION {{<<ReturnPlace(x[1]), ReturnPlace(x[2])>> :
              y \in {z \in s.localReturn : z = <<x[2], x[3]>>}}
           \cup {<<ReturnPlace(x[1]), FieldPlace(y[3])>> :
                   y \in {z \in s.localToField : z[1] = x[2] /\ z[2] = x[3]}}
           : x \in {r \in s.returnToLocal : <<r[2], r[3], source>> \notin s.localSources}},
    UNION {{<<ReturnPlace(m), FieldPlace(c.field)>> :
              m \in IF c.callee # NoMethod THEN {c.callee}
                    ELSE {n \in {x[1] : x \in s.paramCounts} :
                            Pattern(n) = c.pattern /\ <<n, c.args>> \in s.paramCounts}}
           : c \in {x \in s.callSites : <<x.field, x.caller, x.line>> \in s.assignments}},
    {<<FieldPlace(r[1]), FieldPlace(r[2])>> : r \in s.fieldEdges},
    {<<FieldPlace(r[1]), ReturnPlace(r[2])>> : r \in s.fieldReturns}}

(* Where the collection itself met the source; a tainted argument goes to  *)
(* one overload of the method called.                                      *)
Met(s, source) ==
  {FieldPlace(t[1]) : t \in {x \in s.fieldTaints : x[3] = source}}
  \cup {ParamPlace(t[1], t[2]) : t \in {x \in s.paramTaints : x[3] = source}}
  \cup {ReturnPlace(t[1]) : t \in {x \in s.returnTaints : x[2] = source}}
  \cup {ParamPlace(o[1], o[2]) :
          o \in {x \in s.paramOrder : \E t \in s.callParamTaints :
                   /\ t[3] = source /\ t[2] = x[3]
                   /\ x[1] \in ArgumentCallee(s, t[1], t[2])}}

(* The least set of places that holds those and is closed under the flows. *)
Reached(s, source) ==
  LET flows == Flows(s, source)
      places == Met(s, source) \cup {e[2] : e \in flows}
      closed == {c \in SUBSET places :
                   /\ Met(s, source) \subseteq c
                   /\ \A e \in flows : e[1] \in c => e[2] \in c}
  IN  {p \in places : \A c \in closed : p \in c}

Sources(s) ==
  {t[3] : t \in s.fieldTaints \cup s.paramTaints \cup s.callParamTaints}
  \cup {t[2] : t \in s.returnTaints}

(* When the last round emptied its worklist every place a source flows to  *)
(* has a fact, although earlier rounds were cut off and began again in     *)
(* another order (taint.go addFact, Propagate; analyzer.go Scan).          *)
DrainedReachesAll ==
  phase = "popping" /\ worklist = << >> =>
    \A source \in Sources(store) : \A p \in Reached(store, source) :
      \E f \in facts : Place(f) = p /\ f.source = source

(* What every fact says is read back from the store after the sync, and    *)
(* the store says nothing no fact and no collection said (SyncToStore).    *)
StoreTellsFacts ==
  phase = "synced" =>
    /\ \A f \in facts :
         CASE f.at = "field" -> \E t \in store.fieldTaints :
                                  t[1] = f.key /\ t[2] = f.type /\ t[3] = f.source
           [] f.at = "return" -> <<f.key, f.source>> \in store.returnTaints
           [] f.at = "param" -> <<f.key, f.name, f.source>> \in store.paramTaints
    /\ \A t \in store.fieldTaints :
         \E f \in facts : f = Fact("field", t[1], "", t[2], t[3], t[4])

=============================================================================
