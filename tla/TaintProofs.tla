---------------------------- MODULE TaintProofs ----------------------------
(***************************************************************************)
(* Theorems about the taint engine: about the worklist of TaintFacts, for  *)
(* every store, every cap on the iterations and every number of rounds,    *)
(* and about the query of SinkReach, for every repository and every depth  *)
(* limit.                                                                  *)
(***************************************************************************)
EXTENDS TaintFacts, SinkReach, FiniteSetTheorems, TLAPS

-----------------------------------------------------------------------------
(* The worklist.                                                           *)

Closed(s, fs) == \A f \in fs : Consequences(s, f) \subseteq fs

(* What follows from the seeds by the rules and nothing else.              *)
Justified(s, fs) ==
  \A C : SeedFacts(s) \subseteq C /\ Closed(s, C) => fs \subseteq C

Queued(queue) == UNION {queue[i] : i \in 1 .. Len(queue)}

RoundPhases == {"seed", "round", "popping", "synced"}

TaintInv ==
  /\ phase \in RoundPhases
  /\ worklist \in Seq(SUBSET facts)
  /\ phase = "seed" => facts = {} /\ worklist = << >>
  /\ phase \in {"round", "popping"} => /\ SeedFacts(store) \subseteq facts
                                       /\ Justified(store, facts)
  /\ phase = "popping" => \A f \in facts : f \in Queued(worklist)
                                           \/ Consequences(store, f) \subseteq facts

LEMMA PutBack ==
  ASSUME NEW T, NEW x \in T, NEW rest \in Seq(T)
  PROVE  /\ <<x>> \o rest \in Seq(T)
         /\ Len(<<x>> \o rest) = Len(rest) + 1
         /\ (<<x>> \o rest)[1] = x
         /\ \A i \in 1 .. Len(rest) : (<<x>> \o rest)[i + 1] = rest[i]
OBVIOUS

LEMMA WithoutQueue ==
  ASSUME NEW S, NEW queue \in Seq(SUBSET S), queue # << >>, NEW f \in Head(queue)
  PROVE  /\ Without(queue, f) \in Seq(SUBSET S)
         /\ \A h \in Queued(queue) : h # f => h \in Queued(Without(queue, f))
<1> DEFINE n == Len(queue)
<1>1. n \in Nat /\ n > 0 /\ Head(queue) = queue[1] /\ queue[1] \in SUBSET S
  OBVIOUS
<1>2. Tail(queue) \in Seq(SUBSET S) /\ Len(Tail(queue)) = n - 1
  OBVIOUS
<1>3. \A i \in 1 .. (n - 1) : Tail(queue)[i] = queue[i + 1]
  OBVIOUS
<1>4. \A h \in Queued(queue) : h # f => h \in Head(queue) \ {f} \/ h \in Queued(Tail(queue))
  <2> TAKE h \in Queued(queue)
  <2> HAVE h # f
  <2>1. PICK i \in 1 .. n : h \in queue[i]
    BY DEF Queued
  <2>2. CASE i = 1
    BY <1>1, <2>1, <2>2
  <2>3. CASE i # 1
    <3>1. i - 1 \in 1 .. (n - 1) /\ (i - 1) + 1 = i
      BY <1>1, <2>3
    <3>2. h \in Tail(queue)[i - 1]
      BY <1>3, <2>1, <3>1
    <3> QED BY <1>2, <3>1, <3>2 DEF Queued
  <2> QED BY <2>2, <2>3
<1>5. CASE Head(queue) = {f}
  BY <1>2, <1>4, <1>5 DEF Without
<1>6. CASE Head(queue) # {f}
  <2> DEFINE w == <<Head(queue) \ {f}>> \o Tail(queue)
  <2>1. Without(queue, f) = w
    BY <1>6 DEF Without
  <2>2. Head(queue) \ {f} \in SUBSET S
    BY <1>1
  <2>3. w \in Seq(SUBSET S) /\ Len(w) = n
    BY <1>1, <1>2, <2>2, PutBack
  <2>4. w[1] = Head(queue) \ {f}
    BY <1>2, <2>2, PutBack
  <2>5. \A i \in 1 .. (n - 1) : w[i + 1] = Tail(queue)[i]
    BY <1>2, <2>2, PutBack
  <2> HIDE DEF w
  <2>6. ASSUME NEW h \in Queued(queue), h # f
        PROVE  h \in Queued(w)
    <3>1. CASE h \in Head(queue) \ {f}
      <4>1. 1 \in 1 .. Len(w)
        BY <1>1, <2>3
      <4> QED BY <2>4, <3>1, <4>1 DEF Queued
    <3>2. CASE h \in Queued(Tail(queue))
      <4>1. PICK i \in 1 .. (n - 1) : h \in Tail(queue)[i]
        BY <1>2, <3>2 DEF Queued
      <4>2. i + 1 \in 1 .. Len(w)
        BY <1>1, <2>3
      <4> QED BY <2>5, <4>1, <4>2 DEF Queued
    <3> QED BY <1>4, <2>6, <3>1, <3>2
  <2> QED BY <2>1, <2>3, <2>6
<1> QED BY <1>5, <1>6

LEMMA EnqueuedQueue ==
  ASSUME NEW S, NEW queue \in Seq(SUBSET S), NEW new \in SUBSET S
  PROVE  /\ Enqueued(queue, new) \in Seq(SUBSET S)
         /\ Queued(queue) \subseteq Queued(Enqueued(queue, new))
         /\ new \subseteq Queued(Enqueued(queue, new))
<1>1. CASE new = {}
  BY <1>1 DEF Enqueued
<1>2. CASE new # {}
  <2> DEFINE q == Append(queue, new)
  <2>1. q \in Seq(SUBSET S) /\ Len(q) = Len(queue) + 1 /\ Len(queue) \in Nat
    OBVIOUS
  <2>2. \A i \in 1 .. Len(queue) : q[i] = queue[i]
    OBVIOUS
  <2>3. q[Len(queue) + 1] = new
    OBVIOUS
  <2>4. Enqueued(queue, new) = q
    BY <1>2 DEF Enqueued
  <2> HIDE DEF q
  <2>5. Len(queue) + 1 \in 1 .. Len(q) /\ \A i \in 1 .. Len(queue) : i \in 1 .. Len(q)
    BY <2>1
  <2> QED BY <2>1, <2>2, <2>3, <2>4, <2>5 DEF Queued
<1> QED BY <1>1, <1>2

LEMMA InitTaintInv == TaintInit => TaintInv
<1> SUFFICES ASSUME TaintInit PROVE TaintInv
  OBVIOUS
<1>1. << >> \in Seq(SUBSET facts)
  OBVIOUS
<1> QED BY <1>1 DEF TaintInit, TaintInv, RoundPhases

LEMMA StepTaintInv == TaintInv /\ [TaintNext]_taint => TaintInv'
<1> SUFFICES ASSUME TaintInv, [TaintNext]_taint PROVE TaintInv'
  OBVIOUS
<1>1. CASE UNCHANGED taint
  BY <1>1 DEF taint, TaintInv, RoundPhases, Justified, Closed
<1>2. CASE SeedFromStore
  <2>1. worklist = << >> /\ worklist' = << >> /\ store' = store /\ phase' = "round"
    BY <1>2 DEF SeedFromStore, TaintInv
  <2>2. worklist' \in Seq(SUBSET facts')
    BY <2>1
  <2>3. SeedFacts(store') \subseteq facts' /\ Justified(store', facts')
    BY <1>2, <2>1 DEF SeedFromStore, Justified
  <2> QED BY <2>1, <2>2, <2>3 DEF TaintInv, RoundPhases
<1>3. CASE StartRound
  <2>1. store' = store /\ facts' = facts /\ phase' = "popping" /\ phase = "round"
    BY <1>3 DEF StartRound
  <2>2. worklist' = IF facts = {} THEN << >> ELSE <<facts>>
    BY <1>3 DEF StartRound
  <2>3. worklist' \in Seq(SUBSET facts')
    <3>1. << >> \in Seq(SUBSET facts) /\ <<facts>> \in Seq(SUBSET facts)
      OBVIOUS
    <3> QED BY <2>1, <2>2, <3>1
  <2>4. \A f \in facts' : f \in Queued(worklist')
    <3>1. Len(<<facts>>) = 1 /\ <<facts>>[1] = facts
      OBVIOUS
    <3>2. Queued(<<facts>>) = facts
      BY <3>1 DEF Queued
    <3> QED BY <2>1, <2>2, <3>2
  <2>5. SeedFacts(store') \subseteq facts' /\ Justified(store', facts')
    BY <2>1 DEF TaintInv
  <2> QED BY <2>1, <2>3, <2>4, <2>5 DEF TaintInv, RoundPhases
<1>4. CASE Pop
  <2>1. /\ phase = "popping" /\ worklist # << >>
        /\ store' = store /\ phase' = "popping"
    BY <1>4 DEF Pop
  <2>2. PICK f \in Head(worklist) :
          /\ facts' = facts \cup (Consequences(store, f) \ facts)
          /\ worklist' = Enqueued(Without(worklist, f), Consequences(store, f) \ facts)
    BY <1>4 DEF Pop
  <2> DEFINE new == Consequences(store, f) \ facts
  <2>3. worklist \in Seq(SUBSET facts)
    BY DEF TaintInv
  <2>4. worklist \in Seq(SUBSET facts')
    <3>1. SUBSET facts \subseteq SUBSET facts'
      BY <2>2
    <3> QED BY <2>3, <3>1
  <2>5. /\ Without(worklist, f) \in Seq(SUBSET facts')
        /\ \A h \in Queued(worklist) : h # f => h \in Queued(Without(worklist, f))
    BY <2>1, <2>4, WithoutQueue
  <2>6. new \in SUBSET facts'
    BY <2>2
  <2>7. /\ worklist' \in Seq(SUBSET facts')
        /\ Queued(Without(worklist, f)) \subseteq Queued(worklist')
        /\ new \subseteq Queued(worklist')
    BY <2>2, <2>5, <2>6, EnqueuedQueue
  <2>8. f \in facts
    <3>1. Head(worklist) \in SUBSET facts
      BY <2>1, <2>3
    <3> QED BY <3>1
  <2>9. \A h \in facts' : h \in Queued(worklist') \/ Consequences(store', h) \subseteq facts'
    <3> TAKE h \in facts'
    <3>1. CASE h = f
      BY <2>1, <2>2, <3>1
    <3>2. CASE h # f /\ h \in facts
      <4>1. h \in Queued(worklist) \/ Consequences(store, h) \subseteq facts
        BY <2>1, <3>2 DEF TaintInv
      <4> QED BY <2>1, <2>2, <2>5, <2>7, <3>2, <4>1
    <3>3. CASE h \notin facts
      BY <2>2, <2>7, <3>3
    <3> QED BY <3>1, <3>2, <3>3
  <2>10. Justified(store', facts')
    <3> SUFFICES ASSUME NEW C, SeedFacts(store) \subseteq C, Closed(store, C)
                 PROVE  facts' \subseteq C
      BY <2>1 DEF Justified
    <3>1. facts \subseteq C
      BY <2>1 DEF TaintInv, Justified
    <3>2. Consequences(store, f) \subseteq C
      BY <2>8, <3>1 DEF Closed
    <3> QED BY <2>2, <3>1, <3>2
  <2>11. SeedFacts(store') \subseteq facts'
    BY <2>1, <2>2 DEF TaintInv
  <2> QED BY <2>1, <2>7, <2>9, <2>10, <2>11 DEF TaintInv, RoundPhases
<1>5. CASE EndRound
  BY <1>5 DEF EndRound, TaintInv, RoundPhases
<1>6. CASE SyncToStore
  <2>1. phase' = "synced" /\ facts' = facts /\ worklist' = worklist
    BY <1>6 DEF SyncToStore
  <2> QED BY <2>1 DEF TaintInv, RoundPhases
<1> QED BY <1>1, <1>2, <1>3, <1>4, <1>5, <1>6 DEF TaintNext

LEMMA TaintInvHolds == TaintSpec => []TaintInv
<1> QED BY InitTaintInv, StepTaintInv, PTL DEF TaintSpec

(* Every fact lies in every set that holds the seeds and is closed under   *)
(* the nine rules: whatever the order of the map, the caps and the rounds, *)
(* taint.go's Propagate derives nothing else.                              *)
THEOREM FactsJustified ==
  TaintSpec => [](phase \in {"round", "popping"} => Justified(store, facts))
<1>1. TaintInv => (phase \in {"round", "popping"} => Justified(store, facts))
  BY DEF TaintInv
<1> QED BY <1>1, TaintInvHolds, PTL

(* A round that empties its worklist leaves the facts closed under the     *)
(* rules, and they hold the seeds: it is the fixpoint taint.go speaks of.  *)
THEOREM DrainedIsFixpoint ==
  TaintSpec => [](phase = "popping" /\ worklist = << >> =>
                    SeedFacts(store) \subseteq facts /\ Closed(store, facts))
<1>1. TaintInv => (phase = "popping" /\ worklist = << >> =>
                     SeedFacts(store) \subseteq facts /\ Closed(store, facts))
  <2> SUFFICES ASSUME TaintInv, phase = "popping", worklist = << >>
               PROVE  SeedFacts(store) \subseteq facts /\ Closed(store, facts)
    OBVIOUS
  <2>1. Queued(worklist) = {}
    <3>1. Len(<< >>) = 0
      OBVIOUS
    <3>2. 1 .. 0 = {}
      OBVIOUS
    <3> QED BY <3>1, <3>2 DEF Queued
  <2> QED BY <2>1 DEF TaintInv, Closed
<1> QED BY <1>1, TaintInvHolds, PTL
-----------------------------------------------------------------------------
(* What the sync writes, from what the facts look like.                    *)

Shape(f) ==
  /\ f = Fact(f.at, f.key, f.name, f.type, f.source, f.via)
  /\ f.at \in {"field", "return", "param"}
  /\ f.at = "field" => f.name = ""

Shaped(fs) == \A f \in fs : Shape(f)

Told(s, fs) ==
  /\ \A f \in fs :
       CASE f.at = "field" -> \E t \in s.fieldTaints :
                                t[1] = f.key /\ t[2] = f.type /\ t[3] = f.source
         [] f.at = "return" -> <<f.key, f.source>> \in s.returnTaints
         [] f.at = "param" -> <<f.key, f.name, f.source>> \in s.paramTaints
  /\ \A t \in s.fieldTaints : \E f \in fs : f = Fact("field", t[1], "", t[2], t[3], t[4])

SyncInv ==
  /\ phase # "synced" => store \in Stores
  /\ Shaped(facts)
  /\ phase = "synced" => Told(store, facts)

LEMMA ShapeOfFacts ==
  ASSUME NEW h,
         \/ \E k, t, o, v : h = Fact("field", k, "", t, o, v)
         \/ \E k, t, o, v : h = Fact("return", k, "", t, o, v)
         \/ \E k, n, t, o, v : h = Fact("param", k, n, t, o, v)
  PROVE  Shape(h)
<1>1. ASSUME NEW at \in {"field", "return", "param"}, NEW k, NEW n, NEW t, NEW o, NEW v,
             at = "field" => n = "", h = Fact(at, k, n, t, o, v)
      PROVE  Shape(h)
  <2>1. /\ h.at = at /\ h.key = k /\ h.name = n
        /\ h.type = t /\ h.source = o /\ h.via = v
    BY <1>1 DEF Fact
  <2> QED BY <1>1, <2>1 DEF Shape
<1> QED BY <1>1

LEMMA SeedsShaped == ASSUME NEW s PROVE Shaped(SeedFacts(s))
<1> SUFFICES ASSUME NEW h \in SeedFacts(s) PROVE Shape(h)
  BY DEF Shaped
<1>1. CASE \E t \in s.fieldTaints : h = Fact("field", t[1], "", t[2], t[3], t[4])
  BY <1>1, ShapeOfFacts
<1>2. CASE \E t \in s.paramTaints : h = Fact("param", t[1], t[2], "USER_INPUT", t[3], NoVia)
  BY <1>2, ShapeOfFacts
<1>3. CASE \E t \in s.returnTaints : h = Fact("return", t[1], "", "USER_INPUT", t[2], NoVia)
  BY <1>3, ShapeOfFacts
<1>4. CASE \E t \in s.callParamTaints, p \in s.paramOrder :
             h = Fact("param", p[1], p[2], "USER_INPUT", t[3], NoVia)
  BY <1>4, ShapeOfFacts
<1> QED BY <1>1, <1>2, <1>3, <1>4 DEF SeedFacts

LEMMA ConsequencesShaped == ASSUME NEW s, NEW f PROVE Shaped(Consequences(s, f))
<1> SUFFICES ASSUME NEW h \in Consequences(s, f) PROVE Shape(h)
  BY DEF Shaped
<1>1. CASE h \in ParamToField(s, f)
  <2>1. \E k, t, o, v : h = Fact("field", k, "", t, o, v)
    BY <1>1 DEF ParamToField
  <2> QED BY <2>1, ShapeOfFacts
<1>2. CASE h \in ParamToReturn(s, f)
  <2>1. \E k, t, o, v : h = Fact("return", k, "", t, o, v)
    BY <1>2 DEF ParamToReturn
  <2> QED BY <2>1, ShapeOfFacts
<1>3. CASE h \in ReturnToCaller(s, f)
  <2>1. PICK x \in Receivers(s, f) :
          \/ h = Fact("return", x[2], "", f.type, f.source, NoVia)
          \/ \E y \in s.localToField :
               h = Fact("field", y[3], "", "FIELD_PROPAGATION", f.source, <<"return", f.key>>)
    BY <1>3 DEF ReturnToCaller
  <2> QED BY <2>1, ShapeOfFacts
<1>4. CASE h \in ReturnToFieldViaCallSite(s, f)
  <2>1. \E k, t, o, v : h = Fact("field", k, "", t, o, v)
    BY <1>4 DEF ReturnToFieldViaCallSite
  <2> QED BY <2>1, ShapeOfFacts
<1>5. CASE h \in FieldToField(s, f)
  <2>1. \E k, t, o, v : h = Fact("field", k, "", t, o, v)
    BY <1>5 DEF FieldToField
  <2> QED BY <2>1, ShapeOfFacts
<1>6. CASE h \in FieldReadToReturn(s, f)
  <2>1. \E k, t, o, v : h = Fact("return", k, "", t, o, v)
    BY <1>6 DEF FieldReadToReturn
  <2> QED BY <2>1, ShapeOfFacts
<1>7. CASE h \in InterproceduralParam(s, f)
  <2>1. \E k, n, t, o, v : h = Fact("param", k, n, t, o, v)
    BY <1>7 DEF InterproceduralParam
  <2> QED BY <2>1, ShapeOfFacts
<1>8. CASE h \in FieldReadToParam(s, f)
  <2>1. \E k, n, t, o, v : h = Fact("param", k, n, t, o, v)
    BY <1>8 DEF FieldReadToParam
  <2> QED BY <2>1, ShapeOfFacts
<1>9. CASE h \in CollectionElement(s, f)
  <2>1. \E k, t, o, v : h = Fact("return", k, "", t, o, v)
    BY <1>9 DEF CollectionElement
  <2> QED BY <2>1, ShapeOfFacts
<1> QED BY <1>1, <1>2, <1>3, <1>4, <1>5, <1>6, <1>7, <1>8, <1>9 DEF Consequences

LEMMA SyncTells ==
  ASSUME NEW s \in Stores, NEW fs, Shaped(fs), SeedFacts(s) \subseteq fs,
         NEW new \in SyncedStores(s, fs)
  PROVE  Told(new, fs)
<1> DEFINE fresh == {f \in fs : f.at = "field" /\ ~StoredAlready(s, f)}
           like(k, f) == {x \in k : x.key = f.key /\ x.type = f.type /\ x.source = f.source}
<1>1. PICK k \in SUBSET fresh :
        /\ \A f \in fresh : Cardinality(like(k, f)) = 1
        /\ new = [s EXCEPT
             !.fieldTaints = @ \cup {<<f.key, f.type, f.source, f.via>> : f \in k},
             !.returnTaints = @ \cup {<<f.key, f.source>> : f \in {x \in fs : x.at = "return"}},
             !.paramTaints = @ \cup {<<f.key, f.name, f.source>> :
                                       f \in {x \in fs : x.at = "param"}}]
  BY DEF SyncedStores
<1>2. /\ new.fieldTaints = s.fieldTaints \cup {<<f.key, f.type, f.source, f.via>> : f \in k}
      /\ new.returnTaints = s.returnTaints
           \cup {<<f.key, f.source>> : f \in {x \in fs : x.at = "return"}}
      /\ new.paramTaints = s.paramTaints
           \cup {<<f.key, f.name, f.source>> : f \in {x \in fs : x.at = "param"}}
  BY <1>1, StoresConfig
<1>3. ASSUME NEW f \in fs, f.at = "field"
      PROVE  \E t \in new.fieldTaints : t[1] = f.key /\ t[2] = f.type /\ t[3] = f.source
  <2>1. CASE StoredAlready(s, f)
    BY <1>2, <2>1 DEF StoredAlready
  <2>2. CASE ~StoredAlready(s, f)
    <3>1. Cardinality(like(k, f)) = 1
      BY <1>1, <1>3, <2>2
    <3>2. like(k, f) # {}
      <4>1. Cardinality({}) = 0
        BY FS_EmptySet
      <4>2. like(k, f) = {} => Cardinality(like(k, f)) = 0
        BY <4>1
      <4> HIDE DEF like
      <4> QED BY <3>1, <4>2
    <3>3. PICK x \in k : x.key = f.key /\ x.type = f.type /\ x.source = f.source
      BY <3>2
    <3>4. <<x.key, x.type, x.source, x.via>> \in new.fieldTaints
      BY <1>2
    <3> QED BY <3>3, <3>4
  <2> QED BY <2>1, <2>2
<1>4. ASSUME NEW t \in new.fieldTaints
      PROVE  \E f \in fs : f = Fact("field", t[1], "", t[2], t[3], t[4])
  <2>1. CASE t \in s.fieldTaints
    <3>1. Fact("field", t[1], "", t[2], t[3], t[4]) \in SeedFacts(s)
      BY <2>1 DEF SeedFacts
    <3> QED BY <3>1
  <2>2. CASE t \notin s.fieldTaints
    <3>1. PICK f \in k : t = <<f.key, f.type, f.source, f.via>>
      BY <1>2, <2>2
    <3>2. f \in fs /\ f.at = "field"
      BY <1>1
    <3>3. f = Fact("field", f.key, "", f.type, f.source, f.via)
      BY <3>2 DEF Shaped, Shape
    <3> QED BY <3>1, <3>2, <3>3
  <2> QED BY <2>1, <2>2
<1>5. ASSUME NEW f \in fs
      PROVE  /\ f.at \in {"field", "return", "param"}
             /\ f.at = "return" => <<f.key, f.source>> \in new.returnTaints
             /\ f.at = "param" => <<f.key, f.name, f.source>> \in new.paramTaints
  BY <1>2 DEF Shaped, Shape
<1> QED BY <1>3, <1>4, <1>5 DEF Told

LEMMA StepSyncInv == TaintInv /\ SyncInv /\ [TaintNext]_taint => SyncInv'
<1> SUFFICES ASSUME TaintInv, SyncInv, [TaintNext]_taint PROVE SyncInv'
  OBVIOUS
<1>1. CASE UNCHANGED taint
  BY <1>1 DEF taint, SyncInv, Told
<1>2. CASE SeedFromStore
  BY <1>2, SeedsShaped DEF SeedFromStore, SyncInv
<1>3. CASE StartRound
  BY <1>3 DEF StartRound, SyncInv
<1>4. CASE Pop
  <2>1. PICK f : facts' = facts \cup (Consequences(store, f) \ facts)
    BY <1>4 DEF Pop
  <2>2. Shaped(Consequences(store, f))
    BY ConsequencesShaped
  <2>3. Shaped(facts')
    BY <2>1, <2>2 DEF SyncInv, Shaped
  <2> QED BY <1>4, <2>3 DEF Pop, SyncInv
<1>5. CASE EndRound
  BY <1>5 DEF EndRound, SyncInv
<1>6. CASE SyncToStore
  <2>1. facts' = facts /\ phase' = "synced" /\ phase \in {"round", "popping"}
    BY <1>6 DEF SyncToStore
  <2>2. store' \in SyncedStores(store, facts)
    BY <1>6 DEF SyncToStore
  <2>3. store \in Stores /\ Shaped(facts) /\ SeedFacts(store) \subseteq facts
    BY <2>1 DEF SyncInv, TaintInv
  <2>4. Told(store', facts)
    BY <2>2, <2>3, SyncTells
  <2> QED BY <2>1, <2>3, <2>4 DEF SyncInv
<1> QED BY <1>1, <1>2, <1>3, <1>4, <1>5, <1>6 DEF TaintNext

(* After the sync the store says what every fact says, and its field       *)
(* taints say nothing that is not a fact, whichever of the facts that      *)
(* differ only in their origin the map gave first (taint.go SyncToStore).  *)
THEOREM SyncIsExact == TaintSpec => []StoreTellsFacts
<1>1. TaintInit => SyncInv
  BY DEF TaintInit, SyncInv, Shaped
<1>2. TaintSpec => []SyncInv
  BY <1>1, StepSyncInv, TaintInvHolds, PTL DEF TaintSpec
<1>3. SyncInv => StoreTellsFacts
  BY DEF SyncInv, Told, StoreTellsFacts
<1> QED BY <1>2, <1>3, PTL
-----------------------------------------------------------------------------
(* A drained round against the flows read as a graph.                      *)

(* The places that have a fact of the source.                              *)
Held(fs, source) == {Place(f) : f \in {x \in fs : x.source = source}}

LEMMA FactIsHeld ==
  ASSUME NEW fs, NEW at, NEW k, NEW n, NEW t, NEW o, NEW v, Fact(at, k, n, t, o, v) \in fs
  PROVE  [at |-> at, key |-> k, name |-> n] \in Held(fs, o)
<1> DEFINE f == Fact(at, k, n, t, o, v)
<1>1. f.at = at /\ f.key = k /\ f.name = n /\ f.source = o
  BY DEF Fact
<1>2. Place(f) = [at |-> at, key |-> k, name |-> n]
  BY <1>1 DEF Place
<1> QED BY <1>1, <1>2 DEF Held

LEMMA PlaceOfFact ==
  ASSUME NEW f, NEW at, NEW k, NEW n, Place(f) = [at |-> at, key |-> k, name |-> n]
  PROVE  f.at = at /\ f.key = k /\ f.name = n
<1>1. Place(f).at = f.at /\ Place(f).key = f.key /\ Place(f).name = f.name
  BY DEF Place
<1> QED BY <1>1

LEMMA NamelessPlace ==
  ASSUME NEW f, NEW k
  PROVE  /\ Place(f) = FieldPlace(k) => f.at = "field" /\ f.key = k
         /\ Place(f) = ReturnPlace(k) => f.at = "return" /\ f.key = k
<1>1. Place(f).at = f.at /\ Place(f).key = f.key
  BY DEF Place
<1>2. FieldPlace(k).at = "field" /\ FieldPlace(k).key = k
  BY DEF FieldPlace
<1>3. ReturnPlace(k).at = "return" /\ ReturnPlace(k).key = k
  BY DEF ReturnPlace
<1> QED BY <1>1, <1>2, <1>3

(* What the collection met has a fact from the start.                      *)
LEMMA MetIsHeld ==
  ASSUME NEW s, NEW fs, SeedFacts(s) \subseteq fs, NEW source
  PROVE  Met(s, source) \subseteq Held(fs, source)
<1> SUFFICES ASSUME NEW p \in Met(s, source) PROVE p \in Held(fs, source)
  OBVIOUS
<1>1. CASE \E t \in s.fieldTaints : t[3] = source /\ p = FieldPlace(t[1])
  <2>1. PICK t \in s.fieldTaints : t[3] = source /\ p = FieldPlace(t[1])
    BY <1>1
  <2>2. Fact("field", t[1], "", t[2], t[3], t[4]) \in fs
    BY DEF SeedFacts
  <2> QED BY <2>1, <2>2, FactIsHeld DEF FieldPlace
<1>2. CASE \E t \in s.paramTaints : t[3] = source /\ p = ParamPlace(t[1], t[2])
  <2>1. PICK t \in s.paramTaints : t[3] = source /\ p = ParamPlace(t[1], t[2])
    BY <1>2
  <2>2. Fact("param", t[1], t[2], "USER_INPUT", t[3], NoVia) \in fs
    BY DEF SeedFacts
  <2> QED BY <2>1, <2>2, FactIsHeld DEF ParamPlace
<1>3. CASE \E t \in s.returnTaints : t[2] = source /\ p = ReturnPlace(t[1])
  <2>1. PICK t \in s.returnTaints : t[2] = source /\ p = ReturnPlace(t[1])
    BY <1>3
  <2>2. Fact("return", t[1], "", "USER_INPUT", t[2], NoVia) \in fs
    BY DEF SeedFacts
  <2> QED BY <2>1, <2>2, FactIsHeld DEF ReturnPlace
<1>4. CASE \E o \in s.paramOrder, t \in s.callParamTaints :
             /\ t[3] = source /\ t[2] = o[3] /\ o[1] \in ArgumentCallee(s, t[1], t[2])
             /\ p = ParamPlace(o[1], o[2])
  <2>1. PICK o \in s.paramOrder, t \in s.callParamTaints :
               /\ t[3] = source /\ t[2] = o[3] /\ o[1] \in ArgumentCallee(s, t[1], t[2])
               /\ p = ParamPlace(o[1], o[2])
    BY <1>4
  <2>2. Fact("param", o[1], o[2], "USER_INPUT", t[3], NoVia) \in fs
    <3> DEFINE h == Fact("param", o[1], o[2], "USER_INPUT", t[3], NoVia)
               told(u) == {Fact("param", q[1], q[2], "USER_INPUT", u[3], NoVia) :
                             q \in {x \in s.paramOrder : /\ x[1] \in ArgumentCallee(s, u[1], u[2])
                                                         /\ x[3] = u[2]}}
    <3>1. h \in told(t)
      BY <2>1
    <3>2. UNION {told(u) : u \in s.callParamTaints} \subseteq SeedFacts(s)
      BY DEF SeedFacts
    <3> HIDE DEF h, told
    <3>3. h \in fs
      BY <3>1, <3>2
    <3> QED BY <3>3 DEF h
  <2> QED BY <2>1, <2>2, FactIsHeld DEF ParamPlace
<1> QED BY <1>1, <1>2, <1>3, <1>4 DEF Met

(* Facts that are closed under the nine rules are closed under the flows.  *)
LEMMA FlowIsFollowed ==
  ASSUME NEW s \in Stores, NEW fs, SeedFacts(s) \subseteq fs, Closed(s, fs), NEW source,
         NEW e \in Flows(s, source), e[1] \in Held(fs, source)
  PROVE  e[2] \in Held(fs, source)
<1>1. PICK f \in fs : f.source = source /\ Place(f) = e[1]
  BY DEF Held
<1>2. Consequences(s, f) \subseteq fs
  BY DEF Closed
<1>3. ASSUME NEW at, NEW k, NEW n, NEW t, NEW v,
             Fact(at, k, n, t, f.source, v) \in Consequences(s, f),
             e[2] = [at |-> at, key |-> k, name |-> n]
      PROVE  e[2] \in Held(fs, source)
  BY <1>1, <1>2, <1>3, FactIsHeld
<1>4. CASE \E r \in s.paramToField : e = <<ParamPlace(r[1], r[2]), FieldPlace(r[3])>>
  <2>1. PICK r \in s.paramToField : e = <<ParamPlace(r[1], r[2]), FieldPlace(r[3])>>
    BY <1>4
  <2>2. f.at = "param" /\ f.key = r[1] /\ f.name = r[2]
    BY <1>1, <2>1, PlaceOfFact DEF ParamPlace
  <2>3. Fact("field", r[3], "", f.type, f.source, NoVia) \in ParamToField(s, f)
    BY <2>2 DEF ParamToField
  <2>4. Fact("field", r[3], "", f.type, f.source, NoVia) \in Consequences(s, f)
    BY <2>3 DEF Consequences
  <2> QED BY <1>3, <2>1, <2>4 DEF FieldPlace
<1>5. CASE \E r \in s.paramToReturn : e = <<ParamPlace(r[1], r[2]), ReturnPlace(r[1])>>
  <2>1. PICK r \in s.paramToReturn : e = <<ParamPlace(r[1], r[2]), ReturnPlace(r[1])>>
    BY <1>5
  <2>2. f.at = "param" /\ f.key = r[1] /\ f.name = r[2]
    BY <1>1, <2>1, PlaceOfFact DEF ParamPlace
  <2>3. Fact("return", r[1], "", f.type, f.source, NoVia) \in ParamToReturn(s, f)
    BY <2>2 DEF ParamToReturn
  <2>4. Fact("return", r[1], "", f.type, f.source, NoVia) \in Consequences(s, f)
    BY <2>3 DEF Consequences
  <2> QED BY <1>3, <2>1, <2>4 DEF ReturnPlace
<1>6. CASE \E r \in s.paramToCallParam, o \in s.paramOrder :
             /\ Pattern(o[1]) = r[3] /\ o[3] = r[4]
             /\ e = <<ParamPlace(r[1], r[2]), ParamPlace(o[1], o[2])>>
  <2>1. PICK r \in s.paramToCallParam, o \in s.paramOrder :
               /\ Pattern(o[1]) = r[3] /\ o[3] = r[4]
               /\ e = <<ParamPlace(r[1], r[2]), ParamPlace(o[1], o[2])>>
    BY <1>6
  <2>2. f.at = "param" /\ f.key = r[1] /\ f.name = r[2]
    BY <1>1, <2>1, PlaceOfFact DEF ParamPlace
  <2>3. \E i \in DOMAIN MethodsNamed(s, r[3]) : MethodsNamed(s, r[3])[i] = o[1]
    <3>1. /\ <<o[1][1], o[1][2]>> \in DOMAIN s.named
          /\ \E i \in DOMAIN s.named[<<o[1][1], o[1][2]>>] :
               s.named[<<o[1][1], o[1][2]>>][i] = o[1]
      BY StoresConfig
    <3>2. r[3] = <<o[1][1], o[1][2]>>
      BY <2>1 DEF Pattern
    <3>3. MethodsNamed(s, r[3]) = s.named[r[3]]
      BY <3>1, <3>2 DEF MethodsNamed
    <3> QED BY <3>1, <3>2, <3>3
  <2>4. Fact("param", o[1], o[2], f.type, f.source, f.via) \in InterproceduralParam(s, f)
    BY <2>1, <2>2, <2>3 DEF InterproceduralParam
  <2>5. Fact("param", o[1], o[2], f.type, f.source, f.via) \in Consequences(s, f)
    BY <2>4 DEF Consequences
  <2> QED BY <1>3, <2>1, <2>5 DEF ParamPlace
<1>7. CASE \E x \in s.returnToLocal :
             /\ <<x[2], x[3], source>> \notin s.localSources
             /\ \/ \E y \in s.localReturn : /\ y = <<x[2], x[3]>>
                                            /\ e = <<ReturnPlace(x[1]), ReturnPlace(x[2])>>
                \/ \E y \in s.localToField : /\ y[1] = x[2] /\ y[2] = x[3]
                                             /\ e = <<ReturnPlace(x[1]), FieldPlace(y[3])>>
  <2>1. PICK x \in s.returnToLocal :
             /\ <<x[2], x[3], source>> \notin s.localSources
             /\ \/ \E y \in s.localReturn : /\ y = <<x[2], x[3]>>
                                            /\ e = <<ReturnPlace(x[1]), ReturnPlace(x[2])>>
                \/ \E y \in s.localToField : /\ y[1] = x[2] /\ y[2] = x[3]
                                             /\ e = <<ReturnPlace(x[1]), FieldPlace(y[3])>>
    BY <1>7
  <2>2. f.at = "return" /\ f.key = x[1]
    <3>1. e[1] = ReturnPlace(x[1])
      BY <2>1
    <3> QED BY <1>1, <3>1, NamelessPlace
  <2>3. x \in Receivers(s, f)
    BY <1>1, <2>1, <2>2, StoresConfig DEF Receivers
  <2> DEFINE kept(r) ==
               {Fact("return", r[2], "", f.type, f.source, NoVia) :
                  y \in {z \in s.localReturn : z = <<r[2], r[3]>>}}
               \cup
               {Fact("field", y[3], "", "FIELD_PROPAGATION", f.source, <<"return", f.key>>) :
                  y \in {z \in s.localToField : z[1] = r[2] /\ z[2] = r[3]}}
  <2>4. kept(x) \subseteq ReturnToCaller(s, f)
    <3>1. ReturnToCaller(s, f) = UNION {kept(r) : r \in Receivers(s, f)}
      BY DEF ReturnToCaller
    <3> HIDE DEF kept
    <3> QED BY <2>3, <3>1
  <2>5. CASE \E y \in s.localReturn : /\ y = <<x[2], x[3]>>
                                      /\ e = <<ReturnPlace(x[1]), ReturnPlace(x[2])>>
    <3> DEFINE h == Fact("return", x[2], "", f.type, f.source, NoVia)
    <3>1. h \in ReturnToCaller(s, f)
      <4>1. h \in {Fact("return", x[2], "", f.type, f.source, NoVia) :
                     y \in {z \in s.localReturn : z = <<x[2], x[3]>>}}
        BY <2>5
      <4> QED BY <2>4, <4>1
    <3>2. h \in Consequences(s, f)
      BY <3>1 DEF Consequences
    <3>3. e[2] = ReturnPlace(x[2])
      BY <2>5
    <3> QED BY <1>3, <3>2, <3>3 DEF ReturnPlace
  <2>6. CASE \E y \in s.localToField : /\ y[1] = x[2] /\ y[2] = x[3]
                                       /\ e = <<ReturnPlace(x[1]), FieldPlace(y[3])>>
    <3>1. PICK y \in s.localToField : /\ y[1] = x[2] /\ y[2] = x[3]
                                      /\ e = <<ReturnPlace(x[1]), FieldPlace(y[3])>>
      BY <2>6
    <3> DEFINE h == Fact("field", y[3], "", "FIELD_PROPAGATION", f.source, <<"return", f.key>>)
    <3>2. h \in ReturnToCaller(s, f)
      <4>1. h \in {Fact("field", z[3], "", "FIELD_PROPAGATION", f.source, <<"return", f.key>>) :
                     z \in {w \in s.localToField : w[1] = x[2] /\ w[2] = x[3]}}
        BY <3>1
      <4> QED BY <2>4, <4>1
    <3>3. h \in Consequences(s, f)
      BY <3>2 DEF Consequences
    <3> QED BY <1>3, <3>1, <3>3 DEF FieldPlace
  <2> QED BY <2>1, <2>5, <2>6
<1>8. CASE \E c \in s.callSites : \E m :
             /\ <<c.field, c.caller, c.line>> \in s.assignments
             /\ IF c.callee # NoMethod THEN m = c.callee
                ELSE Pattern(m) = c.pattern /\ <<m, c.args>> \in s.paramCounts
             /\ e = <<ReturnPlace(m), FieldPlace(c.field)>>
  <2>0. PICK c \in s.callSites : \E m :
               /\ <<c.field, c.caller, c.line>> \in s.assignments
               /\ IF c.callee # NoMethod THEN m = c.callee
                  ELSE Pattern(m) = c.pattern /\ <<m, c.args>> \in s.paramCounts
               /\ e = <<ReturnPlace(m), FieldPlace(c.field)>>
    BY <1>8
  <2>1. PICK m :
               /\ <<c.field, c.caller, c.line>> \in s.assignments
               /\ IF c.callee # NoMethod THEN m = c.callee
                  ELSE Pattern(m) = c.pattern /\ <<m, c.args>> \in s.paramCounts
               /\ e = <<ReturnPlace(m), FieldPlace(c.field)>>
    BY <2>0
  <2>2. f.at = "return" /\ f.key = m
    BY <1>1, <2>1, NamelessPlace
  <2> DEFINE h == Fact("field", c.field, "", "FIELD_PROPAGATION", f.source, <<"return", f.key>>)
  <2>3. h \in ReturnToFieldViaCallSite(s, f)
    BY <2>1, <2>2 DEF ReturnToFieldViaCallSite
  <2>4. h \in Consequences(s, f)
    BY <2>3 DEF Consequences
  <2> QED BY <1>3, <2>1, <2>4 DEF FieldPlace
<1>9. CASE \E r \in s.fieldEdges : e = <<FieldPlace(r[1]), FieldPlace(r[2])>>
  <2>1. PICK r \in s.fieldEdges : e = <<FieldPlace(r[1]), FieldPlace(r[2])>>
    BY <1>9
  <2>2. f.at = "field" /\ f.key = r[1]
    BY <1>1, <2>1, NamelessPlace
  <2>3. Fact("field", r[2], "", "FIELD_PROPAGATION", f.source, f.key) \in FieldToField(s, f)
    BY <2>2 DEF FieldToField
  <2>4. Fact("field", r[2], "", "FIELD_PROPAGATION", f.source, f.key) \in Consequences(s, f)
    BY <2>3 DEF Consequences
  <2> QED BY <1>3, <2>1, <2>4 DEF FieldPlace
<1>10. CASE \E r \in s.fieldReturns : e = <<FieldPlace(r[1]), ReturnPlace(r[2])>>
  <2>1. PICK r \in s.fieldReturns : e = <<FieldPlace(r[1]), ReturnPlace(r[2])>>
    BY <1>10
  <2>2. f.at = "field" /\ f.key = r[1]
    BY <1>1, <2>1, NamelessPlace
  <2>3. CASE <<r[2], source>> \in s.returnTaints
    <3>1. ReturnPlace(r[2]) \in Met(s, source)
      <4> DEFINE t == <<r[2], source>>
      <4>1. t \in {x \in s.returnTaints : x[2] = source} /\ t[1] = r[2]
        BY <2>3
      <4> HIDE DEF t
      <4> QED BY <4>1 DEF Met
    <3>2. e[2] = ReturnPlace(r[2])
      BY <2>1
    <3> QED BY <3>1, <3>2, MetIsHeld
  <2>4. CASE <<r[2], source>> \notin s.returnTaints
    <3>1. Fact("return", r[2], "", f.type, f.source, f.key) \in FieldReadToReturn(s, f)
      BY <1>1, <2>2, <2>4 DEF FieldReadToReturn
    <3>2. Fact("return", r[2], "", f.type, f.source, f.key) \in Consequences(s, f)
      BY <3>1 DEF Consequences
    <3> QED BY <1>3, <2>1, <3>2 DEF ReturnPlace
  <2> QED BY <2>3, <2>4
<1> DEFINE passed == UNION {{<<ParamPlace(r[1], r[2]), ParamPlace(o[1], o[2])>> :
                               o \in {x \in s.paramOrder : Pattern(x[1]) = r[3] /\ x[3] = r[4]}}
                              : r \in s.paramToCallParam}
           kept == UNION {{<<ReturnPlace(x[1]), ReturnPlace(x[2])>> :
                             y \in {z \in s.localReturn : z = <<x[2], x[3]>>}}
                          \cup {<<ReturnPlace(x[1]), FieldPlace(y[3])>> :
                                  y \in {z \in s.localToField : z[1] = x[2] /\ z[2] = x[3]}}
                          : x \in {r \in s.returnToLocal :
                                    <<r[2], r[3], source>> \notin s.localSources}}
           called == UNION {{<<ReturnPlace(m), FieldPlace(c.field)>> :
                               m \in IF c.callee # NoMethod THEN {c.callee}
                                     ELSE {n \in {x[1] : x \in s.paramCounts} :
                                             /\ Pattern(n) = c.pattern
                                             /\ <<n, c.args>> \in s.paramCounts}}
                            : c \in {x \in s.callSites :
                                      <<x.field, x.caller, x.line>> \in s.assignments}}
<1>11. e \in passed => e[2] \in Held(fs, source)
  BY <1>6
<1>12. e \in kept => e[2] \in Held(fs, source)
  BY <1>7
<1>13. e \in called => e[2] \in Held(fs, source)
  <2> DEFINE targets(c) == IF c.callee # NoMethod THEN {c.callee}
                           ELSE {n \in {x[1] : x \in s.paramCounts} :
                                   /\ Pattern(n) = c.pattern
                                   /\ <<n, c.args>> \in s.paramCounts}
  <2>1. SUFFICES ASSUME e \in called PROVE e[2] \in Held(fs, source)
    OBVIOUS
  <2>2. PICK c \in s.callSites : /\ <<c.field, c.caller, c.line>> \in s.assignments
                                 /\ e \in {<<ReturnPlace(m), FieldPlace(c.field)>> : m \in targets(c)}
    BY <2>1
  <2>3. PICK m \in targets(c) : e = <<ReturnPlace(m), FieldPlace(c.field)>>
    BY <2>2
  <2>4. QED
    BY <1>8, <2>2, <2>3
<1> DEFINE stored == {<<ParamPlace(r[1], r[2]), FieldPlace(r[3])>> : r \in s.paramToField}
           returned == {<<ParamPlace(r[1], r[2]), ReturnPlace(r[1])>> : r \in s.paramToReturn}
           copied == {<<FieldPlace(r[1]), FieldPlace(r[2])>> : r \in s.fieldEdges}
           fetched == {<<FieldPlace(r[1]), ReturnPlace(r[2])>> : r \in s.fieldReturns}
<1>14. e \in stored \cup returned \cup passed \cup kept \cup called \cup copied \cup fetched
  <2>1. Flows(s, source) = UNION {stored, returned, passed, kept, called, copied, fetched}
    BY DEF Flows
  <2> HIDE DEF stored, returned, passed, kept, called, copied, fetched
  <2> QED BY <2>1
<1>15. /\ e \in stored => \E r \in s.paramToField : e = <<ParamPlace(r[1], r[2]), FieldPlace(r[3])>>
       /\ e \in returned => \E r \in s.paramToReturn : e = <<ParamPlace(r[1], r[2]), ReturnPlace(r[1])>>
       /\ e \in copied => \E r \in s.fieldEdges : e = <<FieldPlace(r[1]), FieldPlace(r[2])>>
       /\ e \in fetched => \E r \in s.fieldReturns : e = <<FieldPlace(r[1]), ReturnPlace(r[2])>>
  OBVIOUS
<1> HIDE DEF stored, returned, passed, kept, called, copied, fetched
<1> QED BY <1>4, <1>5, <1>9, <1>10, <1>11, <1>12, <1>13, <1>14, <1>15

LEMMA ReachedIsHeld ==
  ASSUME NEW s \in Stores, NEW fs, SeedFacts(s) \subseteq fs, Closed(s, fs), NEW source
  PROVE  Reached(s, source) \subseteq Held(fs, source)
<1> DEFINE flows == Flows(s, source)
           places == Met(s, source) \cup {e[2] : e \in flows}
           held == Held(fs, source) \cap places
<1>1. Met(s, source) \subseteq held
  BY MetIsHeld
<1>2. \A e \in flows : e[1] \in held => e[2] \in held
  BY FlowIsFollowed
<1>3. held \in SUBSET places
  OBVIOUS
<1>4. Reached(s, source) =
        {p \in places : \A c \in {d \in SUBSET places :
                                   /\ Met(s, source) \subseteq d
                                   /\ \A e \in flows : e[1] \in d => e[2] \in d} : p \in c}
  BY DEF Reached
<1> HIDE DEF held, places, flows
<1>5. Reached(s, source) \subseteq held
  BY <1>1, <1>2, <1>3, <1>4
<1> QED BY <1>5 DEF held

(* When a round has emptied its worklist, every place a source flows to    *)
(* has a fact of that source, whatever the statements collected, wherever  *)
(* earlier rounds were cut off and in whatever order they took their facts *)
(* (taint.go SeedFromStore, addFact and Propagate; analyzer.go Scan).      *)
THEOREM DrainedReaches == TaintSpec => []DrainedReachesAll
<1>1. TaintSpec => []SyncInv
  <2>1. TaintInit => SyncInv
    BY DEF TaintInit, SyncInv, Shaped
  <2> QED BY <2>1, StepSyncInv, TaintInvHolds, PTL DEF TaintSpec
<1>2. SyncInv /\ (phase = "popping" /\ worklist = << >> =>
                    SeedFacts(store) \subseteq facts /\ Closed(store, facts))
        => DrainedReachesAll
  <2> SUFFICES ASSUME SyncInv, phase = "popping",
                      SeedFacts(store) \subseteq facts, Closed(store, facts),
                      NEW source \in Sources(store), NEW p \in Reached(store, source)
               PROVE  \E f \in facts : Place(f) = p /\ f.source = source
    BY DEF DrainedReachesAll
  <2>1. store \in Stores
    BY DEF SyncInv
  <2>2. p \in Held(facts, source)
    BY <2>1, ReachedIsHeld
  <2> QED BY <2>2 DEF Held
<1> QED BY <1>1, <1>2, DrainedIsFixpoint, PTL

-----------------------------------------------------------------------------
(* CallerHasDangerousSink.                                                 *)
(*                                                                         *)
(* The invariant says what each frame has done: the edges before next hit  *)
(* no sink that is not noted in the frame, and lead to methods that were   *)
(* visited, are still to be entered, or were cut off at the limit.  A      *)
(* method visited that is not on the stack has done so with all its edges. *)
(* A note once taken stays on the stack until it is the answer (Alarm),    *)
(* and is true of the method it is taken for (Doomed).  The operators take *)
(* the store s, the visited methods vis and the flag cut as arguments, so  *)
(* that facts about them hold in the next state as they stand.             *)

Alarm == answer \in Hits \/ \E i \in DOMAIN frames : Danger(frames[i])

(* Every set closed under calls that holds m has a sink in it. *)
Doomed(s, m) ==
  \A S \in SUBSET Methods :
    m \in S /\ (\A x \in S : Successors(s, x) \subseteq S) =>
      \E x \in S : SinkSelf(x) \/ CallsSink(s, x)

(* What was looked at of the first n - 1 edges of m. *)
Looked(s, m, n, reached, cut) ==
  \A j \in DOMAIN EdgesOf(s, m) :
    j < n /\ GoesOn(EdgesOf(s, m)[j]) =>
      cut \/ CalleeKeys(s, EdgesOf(s, m)[j].to) \subseteq reached

Noted(s, m, n, b) ==
  \A j \in DOMAIN EdgesOf(s, m) : j < n /\ HitsSink(s, m, EdgesOf(s, m)[j]) => b

FrameOK(s, f, vis, cut) ==
  /\ f.mk \in vis
  /\ Looked(s, f.mk, f.next, vis \cup f.keys, cut)
  /\ Noted(s, f.mk, f.next, f.direct)
  /\ f.keys \subseteq Successors(s, f.mk)
  /\ Danger(f) => Doomed(s, f.mk)

FramesOK == \A i \in DOMAIN frames : FrameOK(g, frames[i], visited, truncated)

Linked ==
  /\ frames # << >> => frames[1].mk = root
  /\ \A i \in DOMAIN frames :
       i > 1 => frames[i].mk \in Successors(g, frames[i - 1].mk)

OnStack(m) == \E i \in DOMAIN frames : frames[i].mk = m

(* All the edges of m were looked at. *)
Finished(s, m, vis, cut) ==
  \A j \in DOMAIN EdgesOf(s, m) :
    GoesOn(EdgesOf(s, m)[j]) =>
      cut \/ CalleeKeys(s, EdgesOf(s, m)[j].to) \subseteq vis

DoneOK ==
  \A m \in visited :
    /\ SinkSelf(m) => Alarm
    /\ ~SinkSelf(m) /\ ~OnStack(m) =>
         Finished(g, m, visited, truncated) /\ (CallsSink(g, m) => Alarm)

Phases ==
  /\ frames # << >> => answer = "none" /\ root \in visited
  /\ answer # "none" => root \in visited /\ frames = << >>
  /\ visited = {} => frames = << >> /\ answer = "none" /\ ~truncated
  /\ answer = "VERIFIED_SAFE" => ~truncated
  /\ answer \in Hits => Doomed(g, root)

IInv == TypeOK /\ Phases /\ FramesOK /\ Linked /\ DoneOK

-----------------------------------------------------------------------------
(* Facts about the graph. *)

LEMMA EdgesOfType ==
  ASSUME NEW s \in CallStore, NEW m \in Methods
  PROVE  /\ EdgesOf(s, m) \in Seq(Edge)
         /\ \A j \in DOMAIN EdgesOf(s, m) : EdgesOf(s, m)[j] \in Edge
<1>1. s.edges[m] \in Seq(Edge)
  BY DEF CallStore
<1> QED BY <1>1 DEF EdgesOf

LEMMA CalleeKeysType ==
  ASSUME NEW s \in CallStore, NEW n
  PROVE  CalleeKeys(s, n) \subseteq Methods
<1>1. s.listed \subseteq Methods /\ s.defined \subseteq Methods
  BY DEF CallStore
<1> QED BY <1>1 DEF CalleeKeys

(* What follows a method in the calls is doomed with it. *)
LEMMA DoomedBySuccessor ==
  ASSUME NEW s, NEW m \in Methods, NEW k \in Successors(s, m), Doomed(s, k)
  PROVE  Doomed(s, m)
BY DEF Doomed

LEMMA DoomedBySink ==
  ASSUME NEW s, NEW m \in Methods, SinkSelf(m) \/ CallsSink(s, m)
  PROVE  Doomed(s, m)
BY DEF Doomed

(* Visiting more and cutting more disturbs no frame and no finished method *)
LEMMA FrameKept ==
  ASSUME NEW s, NEW f, NEW vis, NEW cut \in BOOLEAN, NEW vis2, NEW cut2 \in BOOLEAN,
         FrameOK(s, f, vis, cut), vis \subseteq vis2, cut => cut2
  PROVE  FrameOK(s, f, vis2, cut2)
BY DEF FrameOK, Looked

LEMMA FinishedKept ==
  ASSUME NEW s, NEW m, NEW vis, NEW cut \in BOOLEAN, NEW vis2, NEW cut2 \in BOOLEAN,
         Finished(s, m, vis, cut), vis \subseteq vis2, cut => cut2
  PROVE  Finished(s, m, vis2, cut2)
BY DEF Finished

(* A frame that has taken all its edges and keys leaves a finished method. *)
LEMMA FrameFinishes ==
  ASSUME NEW s \in CallStore, NEW f \in Frame, NEW vis, NEW cut \in BOOLEAN,
         FrameOK(s, f, vis, cut), f.keys = {}, f.next > Len(EdgesOf(s, f.mk))
  PROVE  /\ Finished(s, f.mk, vis, cut)
         /\ CallsSink(s, f.mk) => f.direct
<1>1. f.mk \in Methods /\ f.next \in Nat
  BY DEF Frame
<1>2. \A j \in DOMAIN EdgesOf(s, f.mk) : j < f.next
  BY <1>1, EdgesOfType
<1> QED BY <1>2 DEF FrameOK, Looked, Noted, Finished, CallsSink

(* The frame of a method just entered. *)
LEMMA NewFrameOK ==
  ASSUME NEW s \in CallStore, NEW m \in Methods, NEW vis, NEW cut \in BOOLEAN, m \in vis
  PROVE  NewFrame(m) \in Frame /\ FrameOK(s, NewFrame(m), vis, cut) /\ ~Danger(NewFrame(m))
<1>1. \A j \in DOMAIN EdgesOf(s, m) : ~(j < 1)
  BY EdgesOfType
<1> QED BY <1>1 DEF NewFrame, Frame, FrameOK, Looked, Noted, Danger

-----------------------------------------------------------------------------

THEOREM InitInvariant == WalkInit => IInv
<1> SUFFICES ASSUME WalkInit PROVE IInv
  OBVIOUS
<1> USE DEF WalkInit
<1>1. g \in CallStore
  BY RepositoryAssumption
<1>2. DOMAIN frames = {} /\ frames \in Seq(Frame)
  OBVIOUS
<1>3. TypeOK
  BY <1>1, <1>2 DEF TypeOK
<1>4. Phases
  BY DEF Phases, Hits
<1>5. FramesOK /\ Linked /\ DoneOK
  BY <1>2 DEF FramesOK, Linked, DoneOK
<1> QED BY <1>3, <1>4, <1>5 DEF IInv

LEMMA StepAsk == IInv /\ Ask => IInv'
<1> SUFFICES ASSUME IInv, Ask PROVE IInv'
  OBVIOUS
<1>1. /\ g \in CallStore /\ root \in Methods /\ frames = << >> /\ answer = "none"
      /\ truncated = FALSE
  BY DEF IInv, TypeOK, Phases, Ask
<1>2. g' = g /\ root' = root /\ truncated' = FALSE /\ visited' = {root}
  BY <1>1 DEF Ask
<1>3. CASE SinkSelf(root)
  <2>1. answer' = "SINK_SELF" /\ frames' = << >>
    BY <1>1, <1>3 DEF Ask
  <2>2. Doomed(g, root)
    BY <1>1, <1>3, DoomedBySink
  <2>3. Alarm'
    BY <2>1 DEF Alarm, Hits
  <2>a. frames' \in Seq(Frame) /\ visited' \in SUBSET Methods /\ answer' \in Reasons
    BY <1>1, <1>2, <2>1 DEF Reasons
  <2>4. TypeOK'
    BY <1>1, <1>2, <2>a DEF TypeOK
  <2>5. Phases'
    BY <1>2, <2>1, <2>2 DEF Phases
  <2>6. FramesOK' /\ Linked'
    BY <2>1 DEF FramesOK, Linked
  <2>7. DoneOK'
    BY <1>2, <1>3, <2>3 DEF DoneOK
  <2> QED BY <2>4, <2>5, <2>6, <2>7 DEF IInv
<1>4. CASE ~SinkSelf(root) /\ root \notin g.listed
  <2>1. answer' = "VERIFIED_SAFE" /\ frames' = << >>
    BY <1>1, <1>4 DEF Ask
  <2>2. DOMAIN EdgesOf(g, root) = {}
    BY <1>4 DEF EdgesOf
  <2>3. Finished(g, root, {root}, FALSE) /\ ~CallsSink(g, root)
    BY <2>2 DEF Finished, CallsSink
  <2>a. frames' \in Seq(Frame) /\ visited' \in SUBSET Methods /\ answer' \in Reasons
    BY <1>1, <1>2, <2>1 DEF Reasons
  <2>4. TypeOK'
    BY <1>1, <1>2, <2>a DEF TypeOK
  <2>5. Phases'
    BY <1>2, <2>1 DEF Phases, Hits
  <2>6. FramesOK' /\ Linked'
    BY <2>1 DEF FramesOK, Linked
  <2>7. DoneOK'
    BY <1>2, <1>4, <2>3 DEF DoneOK
  <2> QED BY <2>4, <2>5, <2>6, <2>7 DEF IInv
<1>5. CASE ~SinkSelf(root) /\ root \in g.listed
  <2>1. answer' = "none" /\ frames' = <<NewFrame(root)>>
    BY <1>1, <1>5 DEF Ask
  <2>2. NewFrame(root) \in Frame /\ FrameOK(g, NewFrame(root), {root}, FALSE)
    BY <1>1, NewFrameOK
  <2>3. NewFrame(root).mk = root
    BY DEF NewFrame
  <2>4. DOMAIN frames' = {1} /\ frames'[1] = NewFrame(root) /\ frames' \in Seq(Frame) /\ frames' # << >>
    BY <2>1, <2>2
  <2>5. TypeOK'
    BY <1>1, <1>2, <2>1, <2>4 DEF TypeOK
  <2>6. Phases'
    BY <1>2, <2>1 DEF Phases, Hits
  <2>a. FramesOK'
    BY <1>2, <2>2, <2>4 DEF FramesOK
  <2>b. \A i \in {1} : ~(i > 1)
    OBVIOUS
  <2>7. Linked'
    BY <1>2, <2>3, <2>4, <2>b DEF Linked
  <2>8. DoneOK'
    BY <1>2, <1>5, <2>3, <2>4 DEF DoneOK, OnStack
  <2> QED BY <2>5, <2>6, <2>a, <2>7, <2>8 DEF IInv
<1> QED BY <1>3, <1>4, <1>5

-----------------------------------------------------------------------------
(* Steps that put a new frame in the place of the top one. *)

LEMMA ReplaceTop ==
  ASSUME frames \in Seq(Frame), frames # << >>, NEW f \in Frame
  PROVE  /\ Replace(f) \in Seq(Frame) /\ Replace(f) # << >>
         /\ Len(Replace(f)) = Len(frames)
         /\ DOMAIN Replace(f) = DOMAIN frames
         /\ Len(frames) \in DOMAIN frames
         /\ Replace(f)[Len(frames)] = f
         /\ \A i \in DOMAIN frames : i # Len(frames) => Replace(f)[i] = frames[i]
         /\ Top \in Frame /\ Top = frames[Len(frames)]
BY DEF Replace, Top

(* What such a step must show: the new frame is right, and neither loses a *)
(* note nor forgets a method that was visited.                             *)
LEMMA StepInPlace ==
  ASSUME IInv, frames # << >>, NEW f \in Frame, frames' = Replace(f),
         UNCHANGED <<g, root, answer>>, visited \subseteq visited', visited' \subseteq Methods,
         truncated => truncated', truncated' \in BOOLEAN,
         f.mk = Top.mk, Danger(Top) => Danger(f),
         FrameOK(g, f, visited', truncated'),
         \A m \in visited' \ visited :
           /\ SinkSelf(m) => Danger(f)
           /\ ~SinkSelf(m) => Finished(g, m, visited', truncated') /\ ~CallsSink(g, m)
  PROVE  IInv'
<1>1. /\ frames \in Seq(Frame) /\ g \in CallStore /\ root \in Methods
      /\ truncated \in BOOLEAN /\ answer = "none" /\ visited # {}
  BY DEF IInv, TypeOK, Phases
<1>2. /\ frames' \in Seq(Frame) /\ frames' # << >> /\ DOMAIN frames' = DOMAIN frames
      /\ Len(frames) \in DOMAIN frames /\ frames'[Len(frames)] = f
      /\ \A i \in DOMAIN frames : i # Len(frames) => frames'[i] = frames[i]
      /\ Top = frames[Len(frames)]
  BY <1>1, ReplaceTop
<1>3. TypeOK'
  BY <1>1, <1>2 DEF IInv, TypeOK
<1>4. Phases'
  BY <1>1, <1>2 DEF IInv, Phases, Hits
<1>5. FramesOK'
  <2> SUFFICES ASSUME NEW i \in DOMAIN frames
               PROVE  FrameOK(g, frames'[i], visited', truncated')
    BY <1>2 DEF FramesOK
  <2>1. CASE i = Len(frames)
    BY <1>2, <2>1
  <2>2. CASE i # Len(frames)
    <3>1. FrameOK(g, frames[i], visited, truncated)
      BY DEF IInv, FramesOK
    <3>2. FrameOK(g, frames[i], visited', truncated')
      BY <3>1, <1>1, FrameKept
    <3> QED BY <3>2, <2>2, <1>2
  <2> QED BY <2>1, <2>2
<1>6. \A i \in DOMAIN frames : frames'[i].mk = frames[i].mk
  BY <1>2
<1>7. Linked'
  <2>1. \A i \in DOMAIN frames : i > 1 => i - 1 \in DOMAIN frames
    BY <1>1
  <2>2. 1 \in DOMAIN frames
    BY <1>1
  <2> QED BY <1>1, <1>2, <1>6, <2>1, <2>2 DEF IInv, Linked
<1>8. Alarm => Alarm'
  <2> SUFFICES ASSUME Alarm PROVE Alarm'
    OBVIOUS
  <2>1. answer \notin Hits
    BY <1>1 DEF Hits
  <2>2. PICK i \in DOMAIN frames : Danger(frames[i])
    BY <2>1 DEF Alarm
  <2>3. Danger(frames'[i])
    BY <2>2, <1>2
  <2> QED BY <2>3, <1>2 DEF Alarm
<1>9. \A m : OnStack(m)' <=> OnStack(m)
  BY <1>2, <1>6 DEF OnStack
<1>10. Danger(f) => Alarm'
  BY <1>2 DEF Alarm
<1>11. DoneOK'
  <2> SUFFICES ASSUME NEW m \in visited'
               PROVE  /\ SinkSelf(m) => Alarm'
                      /\ ~SinkSelf(m) /\ ~OnStack(m) =>
                           Finished(g, m, visited', truncated') /\ (CallsSink(g, m) => Alarm')
    BY <1>9 DEF DoneOK
  <2>1. CASE m \in visited
    <3>1. ~SinkSelf(m) /\ ~OnStack(m) => Finished(g, m, visited, truncated)
      BY <2>1 DEF IInv, DoneOK
    <3>2. ~SinkSelf(m) /\ ~OnStack(m) => Finished(g, m, visited', truncated')
      BY <3>1, <1>1, FinishedKept
    <3> QED BY <2>1, <3>2, <1>8 DEF IInv, DoneOK
  <2>2. CASE m \notin visited
    BY <2>2, <1>10
  <2> QED BY <2>1, <2>2
<1> QED BY <1>3, <1>4, <1>5, <1>7, <1>11 DEF IInv

LEMMA TopFacts ==
  ASSUME IInv, frames # << >>
  PROVE  /\ g \in CallStore /\ frames \in Seq(Frame) /\ Top \in Frame
         /\ visited \subseteq Methods /\ truncated \in BOOLEAN
         /\ FrameOK(g, Top, visited, truncated) /\ Len(frames) \in Nat \ {0}
<1>1. g \in CallStore /\ frames \in Seq(Frame) /\ visited \subseteq Methods /\ truncated \in BOOLEAN
  BY DEF IInv, TypeOK
<1>2. Len(frames) \in DOMAIN frames /\ Top \in Frame
  BY <1>1 DEF Top
<1> QED BY <1>1, <1>2 DEF IInv, FramesOK, Top

LEMMA StepLookAtEdge == IInv /\ LookAtEdge => IInv'
<1> SUFFICES ASSUME IInv, LookAtEdge PROVE IInv'
  OBVIOUS
<1> DEFINE t == Top
           e == EdgesOf(g, t.mk)[t.next]
           nd == t.next + 1
           un == \/ t.unresolved \/ e.type \in Dynamic
                 \/ e.type = "native" /\ TaintedNative(g, t.mk)
<1>1. /\ frames # << >> /\ t.keys = {} /\ t.next <= Len(EdgesOf(g, t.mk))
      /\ UNCHANGED <<g, root, visited, truncated, answer>>
  BY DEF LookAtEdge
<1>2. /\ g \in CallStore /\ t \in Frame /\ visited \subseteq Methods /\ truncated \in BOOLEAN
      /\ FrameOK(g, t, visited, truncated)
  BY <1>1, TopFacts
<1>3. /\ t.mk \in Methods /\ t.next \in Nat \ {0} /\ nd \in Nat \ {0}
      /\ t.direct \in BOOLEAN /\ t.indirect \in BOOLEAN /\ t.unresolved \in BOOLEAN
  BY <1>2 DEF Frame
<1>4. t.next \in DOMAIN EdgesOf(g, t.mk) /\ e \in Edge
  BY <1>1, <1>2, <1>3, EdgesOfType
<1>5. \A j \in DOMAIN EdgesOf(g, t.mk) : j < nd <=> (j < t.next \/ j = t.next)
  BY <1>2, <1>3, EdgesOfType
<1>6. CASE HitsSink(g, t.mk, e)
  <2> DEFINE f == [t EXCEPT !.next = nd, !.direct = TRUE]
  <2>1. frames' = Replace(f)
    BY <1>6 DEF LookAtEdge
  <2>2. f \in Frame /\ f.mk = t.mk /\ f.next = nd /\ f.keys = {} /\ f.direct = TRUE
    BY <1>1, <1>2, <1>3 DEF Frame
  <2>3. ~GoesOn(e)
    BY <1>6 DEF HitsSink, GoesOn
  <2>4. Looked(g, t.mk, nd, visited, truncated)
    BY <1>1, <1>2, <1>5, <2>3 DEF FrameOK, Looked
  <2>5. CallsSink(g, t.mk)
    BY <1>4, <1>6 DEF CallsSink
  <2>6. Doomed(g, t.mk)
    BY <1>3, <2>5, DoomedBySink
  <2>7. FrameOK(g, f, visited, truncated)
    BY <1>2, <2>2, <2>4, <2>6 DEF FrameOK, Noted
  <2>8. Danger(f)
    BY <2>2 DEF Danger
  <2> HIDE DEF f
  <2> QED BY <1>1, <1>2, <2>1, <2>2, <2>7, <2>8, StepInPlace
<1>7. CASE ~HitsSink(g, t.mk, e) /\ ~GoesOn(e)
  <2> DEFINE f == [t EXCEPT !.next = nd]
  <2>1. frames' = Replace(f)
    BY <1>7 DEF LookAtEdge
  <2>2. /\ f \in Frame /\ f.mk = t.mk /\ f.next = nd /\ f.keys = {} /\ f.direct = t.direct
        /\ f.indirect = t.indirect
    BY <1>1, <1>2, <1>3 DEF Frame
  <2>3. Looked(g, t.mk, nd, visited, truncated)
    BY <1>1, <1>2, <1>5, <1>7 DEF FrameOK, Looked
  <2>4. Noted(g, t.mk, nd, t.direct)
    BY <1>2, <1>5, <1>7 DEF FrameOK, Noted
  <2>5. Danger(f) <=> Danger(t)
    BY <2>2 DEF Danger
  <2>6. FrameOK(g, f, visited, truncated)
    BY <1>2, <2>2, <2>3, <2>4, <2>5 DEF FrameOK
  <2> HIDE DEF f
  <2> QED BY <1>1, <1>2, <2>1, <2>2, <2>5, <2>6, StepInPlace
<1>8. CASE ~HitsSink(g, t.mk, e) /\ GoesOn(e)
  <2> DEFINE ks == CalleeKeys(g, e.to)
             f == [t EXCEPT !.next = nd, !.keys = ks, !.unresolved = un]
  <2>1. frames' = Replace(f)
    BY <1>8 DEF LookAtEdge
  <2>2. ks \subseteq Methods
    BY <1>2, CalleeKeysType
  <2>3. un \in BOOLEAN
    BY <1>3
  <2>4. /\ f \in Frame /\ f.mk = t.mk /\ f.next = nd /\ f.keys = ks /\ f.direct = t.direct
        /\ f.indirect = t.indirect
    BY <1>2, <1>3, <2>2, <2>3 DEF Frame
  <2>5. Looked(g, t.mk, nd, visited \cup ks, truncated)
    BY <1>1, <1>2, <1>5 DEF FrameOK, Looked
  <2>6. Noted(g, t.mk, nd, t.direct)
    BY <1>2, <1>5, <1>8 DEF FrameOK, Noted
  <2>7. ks \subseteq Successors(g, t.mk)
    BY <1>4, <1>8 DEF Successors
  <2>8. Danger(f) <=> Danger(t)
    BY <2>4 DEF Danger
  <2>9. FrameOK(g, f, visited, truncated)
    BY <1>2, <2>4, <2>5, <2>6, <2>7, <2>8 DEF FrameOK
  <2> HIDE DEF f
  <2> QED BY <1>1, <1>2, <2>1, <2>4, <2>8, <2>9, StepInPlace
<1> QED BY <1>6, <1>7, <1>8

LEMMA StepEnter ==
  ASSUME IInv, NEW m \in Top.keys, frames # << >>, UNCHANGED <<g, root, answer>>,
         TooDeep(m) \/ SeenBefore(m) \/ ReturnsAtOnce(m) \/ Descend(m)
  PROVE  IInv'
<1> DEFINE t == Top
           f == [t EXCEPT !.keys = @ \ {m}]
<1>1. /\ g \in CallStore /\ frames \in Seq(Frame) /\ t \in Frame /\ visited \subseteq Methods
      /\ truncated \in BOOLEAN /\ FrameOK(g, t, visited, truncated) /\ Len(frames) \in Nat \ {0}
  BY TopFacts
<1>2. m \in Methods /\ t.mk \in Methods /\ t.direct \in BOOLEAN /\ t.indirect \in BOOLEAN
      /\ m \in Successors(g, t.mk)
  BY <1>1 DEF Frame, FrameOK
<1>3. /\ f \in Frame /\ f.mk = t.mk /\ f.next = t.next /\ f.keys = t.keys \ {m}
      /\ f.direct = t.direct /\ f.indirect = t.indirect
  BY <1>1 DEF Frame
<1>4. Danger(f) <=> Danger(t)
  BY <1>3 DEF Danger
<1>5. CASE TooDeep(m)
  <2>1. frames' = Replace(f) /\ truncated' = TRUE /\ visited' = visited
    BY <1>5 DEF TooDeep
  <2>2. FrameOK(g, f, visited, TRUE)
    BY <1>1, <1>3, <1>4 DEF FrameOK, Looked
  <2> HIDE DEF f
  <2> QED BY <1>1, <1>3, <1>4, <2>1, <2>2, StepInPlace
<1>6. CASE SeenBefore(m)
  <2>1. frames' = Replace(f) /\ truncated' = truncated /\ visited' = visited /\ m \in visited
    BY <1>6 DEF SeenBefore
  <2>2. visited \cup f.keys = visited \cup t.keys
    BY <1>3, <2>1
  <2>3. FrameOK(g, f, visited, truncated)
    BY <1>1, <1>3, <1>4, <2>2 DEF FrameOK
  <2> HIDE DEF f
  <2> QED BY <1>1, <1>3, <1>4, <2>1, <2>3, StepInPlace
<1>7. CASE ReturnsAtOnce(m)
  <2> DEFINE h == [t EXCEPT !.keys = @ \ {m}, !.indirect = @ \/ SinkSelf(m)]
             vis == visited \cup {m}
  <2>1. /\ frames' = Replace(h) /\ truncated' = truncated /\ visited' = vis /\ m \notin visited
        /\ SinkSelf(m) \/ m \notin g.listed
    BY <1>7 DEF ReturnsAtOnce
  <2>2. SinkSelf(m) \in BOOLEAN
    BY DEF SinkSelf
  <2>3. /\ h \in Frame /\ h.mk = t.mk /\ h.next = t.next /\ h.keys = t.keys \ {m}
        /\ h.direct = t.direct /\ h.indirect = (t.indirect \/ SinkSelf(m))
    BY <1>1, <1>2, <2>2 DEF Frame
  <2>4. Danger(h) <=> Danger(t) \/ SinkSelf(m)
    BY <2>3 DEF Danger
  <2>5. SinkSelf(m) => Doomed(g, t.mk)
    BY <1>2, DoomedBySink, DoomedBySuccessor
  <2>6. Danger(h) => Doomed(g, t.mk)
    BY <1>1, <2>4, <2>5 DEF FrameOK
  <2>7. vis \cup h.keys = visited \cup t.keys
    BY <2>3
  <2>8. FrameOK(g, h, vis, truncated)
    BY <1>1, <2>3, <2>6, <2>7 DEF FrameOK
  <2>9. ~SinkSelf(m) => Finished(g, m, vis, truncated) /\ ~CallsSink(g, m)
    <3>1. ~SinkSelf(m) => DOMAIN EdgesOf(g, m) = {}
      BY <2>1 DEF EdgesOf
    <3> QED BY <3>1 DEF Finished, CallsSink
  <2>10. vis \subseteq Methods /\ \A x \in vis \ visited : x = m
    BY <1>1, <1>2
  <2> HIDE DEF h
  <2> QED BY <1>1, <2>1, <2>3, <2>4, <2>8, <2>9, <2>10, StepInPlace
<1>8. CASE Descend(m)
  <2> DEFINE r == Replace(f)
             n == Len(frames)
             vis == visited \cup {m}
  <2>1. /\ frames' = Append(r, NewFrame(m)) /\ truncated' = truncated /\ visited' = vis
        /\ m \notin visited /\ ~SinkSelf(m)
    BY <1>8 DEF Descend
  <2>a. DOMAIN frames = 1 .. n
    BY <1>1
  <2>b. frames # << >>
    BY <1>1
  <2>c. /\ r \in Seq(Frame) /\ Len(r) = n /\ DOMAIN r = DOMAIN frames /\ n \in DOMAIN frames
        /\ r[n] = f /\ \A i \in DOMAIN frames : i # n => r[i] = frames[i]
        /\ t = frames[n]
    <3> HIDE DEF f
    <3> QED BY <1>1, <1>3, <2>b, ReplaceTop
  <2>2. /\ r \in Seq(Frame) /\ Len(r) = n /\ DOMAIN r = DOMAIN frames /\ n \in DOMAIN frames
        /\ r[n] = f /\ \A i \in DOMAIN frames : i # n => r[i] = frames[i]
        /\ t = frames[n] /\ DOMAIN frames = 1 .. n
    BY <2>a, <2>c
  <2>3. /\ NewFrame(m) \in Frame /\ FrameOK(g, NewFrame(m), vis, truncated)
        /\ ~Danger(NewFrame(m)) /\ NewFrame(m).mk = m
    BY <1>1, <1>2, NewFrameOK DEF NewFrame
  <2> HIDE DEF r
  <2>4. /\ frames' \in Seq(Frame) /\ frames' # << >> /\ DOMAIN frames' = 1 .. (n + 1)
        /\ frames'[n + 1] = NewFrame(m) /\ \A i \in 1 .. n : frames'[i] = r[i]
    BY <1>1, <2>1, <2>2, <2>3
  <2>5. frames'[n] = f /\ \A i \in 1 .. n : i # n => frames'[i] = frames[i]
    BY <1>1, <2>2, <2>4
  <2>6. \A i \in 1 .. n : frames'[i].mk = frames[i].mk
    BY <1>3, <2>2, <2>5
  <2>7. /\ answer = "none" /\ root \in Methods /\ root \in visited /\ frames[1].mk = root
    BY DEF IInv, TypeOK, Phases, Linked
  <2>8. TypeOK'
    BY <1>1, <1>2, <2>1, <2>4, <2>7 DEF TypeOK
  <2>9. Phases'
    BY <2>1, <2>4, <2>7 DEF Phases, Hits
  <2>10. FramesOK'
    <3> SUFFICES ASSUME NEW i \in 1 .. (n + 1) PROVE FrameOK(g, frames'[i], vis, truncated)
      BY <2>1, <2>4 DEF FramesOK
    <3>1. CASE i = n + 1
      BY <2>3, <2>4, <3>1
    <3>2. CASE i = n
      <4>1. vis \cup f.keys = visited \cup t.keys
        BY <1>3
      <4>2. FrameOK(g, f, vis, truncated)
        BY <1>1, <1>3, <1>4, <4>1 DEF FrameOK
      <4> QED BY <2>5, <3>2, <4>2
    <3>3. CASE i \in 1 .. n /\ i # n
      <4>1. FrameOK(g, frames[i], visited, truncated)
        BY <2>2, <3>3 DEF IInv, FramesOK
      <4>2. FrameOK(g, frames[i], vis, truncated)
        BY <1>1, <4>1, FrameKept
      <4> QED BY <2>5, <3>3, <4>2
    <3> QED BY <1>1, <3>1, <3>2, <3>3
  <2>11. Linked'
    <3>1. frames'[1].mk = root
      BY <1>1, <2>6, <2>7
    <3>2. ASSUME NEW i \in 1 .. (n + 1), i > 1
          PROVE  frames'[i].mk \in Successors(g, frames'[i - 1].mk)
      <4>1. CASE i = n + 1
        <5>1. i - 1 = n /\ n \in 1 .. n
          BY <1>1, <4>1
        <5>2. frames'[i].mk = m /\ frames'[i - 1].mk = t.mk
          BY <2>2, <2>3, <2>4, <2>6, <4>1, <5>1
        <5> QED BY <1>2, <5>2
      <4>2. CASE i \in 1 .. n
        <5>1. i - 1 \in 1 .. n
          BY <1>1, <3>2, <4>2
        <5>2. frames[i].mk \in Successors(g, frames[i - 1].mk)
          BY <2>2, <3>2, <4>2 DEF IInv, Linked
        <5> QED BY <2>6, <4>2, <5>1, <5>2
      <4> QED BY <1>1, <4>1, <4>2
    <3> QED BY <2>4, <3>1, <3>2 DEF Linked
  <2>12. Alarm => Alarm'
    <3> SUFFICES ASSUME Alarm PROVE Alarm'
      OBVIOUS
    <3>1. PICK i \in 1 .. n : Danger(frames[i])
      BY <2>2, <2>7 DEF Alarm, Hits
    <3>2. Danger(frames'[i])
      BY <1>4, <2>2, <2>5, <3>1
    <3>3. i \in DOMAIN frames'
      BY <1>1, <2>4
    <3> QED BY <3>2, <3>3 DEF Alarm
  <2>13. OnStack(m)' /\ \A x : OnStack(x) => OnStack(x)'
    <3>1. OnStack(m)'
      BY <1>1, <2>3, <2>4 DEF OnStack
    <3>2. \A i \in 1 .. n : i \in DOMAIN frames'
      BY <1>1, <2>4
    <3> QED BY <2>2, <2>6, <3>1, <3>2 DEF OnStack
  <2>14. DoneOK'
    <3> SUFFICES ASSUME NEW x \in vis
                 PROVE  /\ SinkSelf(x) => Alarm'
                        /\ ~SinkSelf(x) /\ ~OnStack(x)' =>
                             Finished(g, x, vis, truncated) /\ (CallsSink(g, x) => Alarm')
      BY <2>1 DEF DoneOK
    <3>1. CASE x = m
      BY <2>1, <2>13, <3>1
    <3>2. CASE x \in visited
      <4>1. ~SinkSelf(x) /\ ~OnStack(x) => Finished(g, x, visited, truncated)
        BY <3>2 DEF IInv, DoneOK
      <4>2. ~SinkSelf(x) /\ ~OnStack(x) => Finished(g, x, vis, truncated)
        BY <1>1, <4>1, FinishedKept
      <4> QED BY <2>12, <2>13, <3>2, <4>2 DEF IInv, DoneOK
    <3> QED BY <3>1, <3>2
  <2> QED BY <2>8, <2>9, <2>10, <2>11, <2>14 DEF IInv
<1> QED BY <1>5, <1>6, <1>7, <1>8

LEMMA VerdictIsReason == ASSUME NEW f PROVE Verdict(f) \in Reasons
BY DEF Verdict, Reasons, Danger

LEMMA VerdictHits ==
  ASSUME NEW f \in Frame
  PROVE  /\ Verdict(f) \in Hits <=> Danger(f)
         /\ Verdict(f) = "VERIFIED_SAFE" => ~truncated
         /\ Verdict(f) # "none"
<1>1. f.direct \in BOOLEAN /\ f.indirect \in BOOLEAN /\ f.unresolved \in BOOLEAN
  BY DEF Frame
<1>2. CASE f.direct
  BY <1>2 DEF Verdict, Hits, Danger
<1>3. CASE ~f.direct /\ f.indirect
  BY <1>3 DEF Verdict, Hits, Danger
<1>4. CASE ~Danger(f) /\ f.unresolved
  BY <1>4 DEF Verdict, Hits, Danger
<1>5. CASE ~Danger(f) /\ ~f.unresolved
  BY <1>5 DEF Verdict, Hits, Danger
<1> QED BY <1>1, <1>2, <1>3, <1>4, <1>5 DEF Danger

LEMMA StepReturn == IInv /\ Return => IInv'
<1> SUFFICES ASSUME IInv, Return PROVE IInv'
  OBVIOUS
<1> DEFINE t == Top
           n == Len(frames)
<1>1. /\ frames # << >> /\ t.keys = {} /\ t.next > Len(EdgesOf(g, t.mk))
      /\ UNCHANGED <<g, root, visited, truncated>>
  BY DEF Return
<1>2. /\ g \in CallStore /\ frames \in Seq(Frame) /\ t \in Frame /\ visited \subseteq Methods
      /\ truncated \in BOOLEAN /\ FrameOK(g, t, visited, truncated) /\ n \in Nat \ {0}
      /\ t = frames[n] /\ DOMAIN frames = 1 .. n
  BY <1>1, TopFacts DEF Top
<1>3. Finished(g, t.mk, visited, truncated) /\ (CallsSink(g, t.mk) => Danger(t))
  BY <1>1, <1>2, FrameFinishes DEF Danger
<1>4. /\ answer = "none" /\ root \in Methods /\ root \in visited /\ frames[1].mk = root
  BY <1>1 DEF IInv, TypeOK, Phases, Linked
<1>5. CASE n = 1
  <2>1. answer' = Verdict(t) /\ frames' = << >>
    BY <1>5 DEF Return
  <2>2. /\ answer' \in Reasons /\ answer' # "none" /\ (answer' \in Hits <=> Danger(t))
        /\ (answer' = "VERIFIED_SAFE" => ~truncated)
    BY <1>2, <2>1, VerdictHits, VerdictIsReason
  <2>3. t.mk = root
    BY <1>2, <1>4, <1>5
  <2>4. TypeOK'
    BY <1>1, <1>2, <1>4, <2>1, <2>2 DEF TypeOK
  <2>5. Phases'
    BY <1>1, <1>2, <1>4, <2>1, <2>2, <2>3 DEF Phases, FrameOK
  <2>6. FramesOK' /\ Linked'
    BY <2>1 DEF FramesOK, Linked
  <2>7. Alarm => Alarm'
    BY <1>2, <1>4, <1>5, <2>2 DEF Alarm, Hits
  <2>8. Danger(t) => Alarm'
    BY <2>2 DEF Alarm
  <2>9. \A m : OnStack(m) => m = t.mk
    BY <1>2, <1>5 DEF OnStack
  <2>10. DoneOK'
    <3> SUFFICES ASSUME NEW m \in visited
                 PROVE  /\ SinkSelf(m) => Alarm'
                        /\ ~SinkSelf(m) =>
                             Finished(g, m, visited, truncated) /\ (CallsSink(g, m) => Alarm')
      BY <1>1 DEF DoneOK
    <3>1. CASE m = t.mk
      BY <1>3, <2>7, <2>8, <3>1 DEF IInv, DoneOK
    <3>2. CASE m # t.mk
      BY <2>7, <2>9, <3>2 DEF IInv, DoneOK
    <3> QED BY <3>1, <3>2
  <2> QED BY <2>4, <2>5, <2>6, <2>10 DEF IInv
<1>6. CASE n # 1
  <2> DEFINE b == frames[n - 1]
             f == [b EXCEPT !.indirect = @ \/ Danger(t)]
  <2>1. n - 1 \in 1 .. n /\ n - 1 \in Nat \ {0} /\ n > 1
    BY <1>2, <1>6
  <2>2. b \in Frame /\ FrameOK(g, b, visited, truncated) /\ t.mk \in Successors(g, b.mk)
    BY <1>2, <2>1 DEF IInv, FramesOK, Linked
  <2>3. Danger(t) \in BOOLEAN
    BY DEF Danger
  <2>4. /\ f \in Frame /\ f.mk = b.mk /\ f.next = b.next /\ f.keys = b.keys
        /\ f.direct = b.direct /\ f.indirect = (b.indirect \/ Danger(t))
    BY <2>2, <2>3 DEF Frame
  <2>5. Danger(f) <=> Danger(b) \/ Danger(t)
    BY <2>4 DEF Danger
  <2>6. answer' = "none"
    BY <1>4, <1>6 DEF Return
  <2>7. /\ Below \in Seq(Frame) /\ Len(Below) = n - 1 /\ DOMAIN Below = 1 .. (n - 1)
        /\ \A i \in 1 .. (n - 1) : Below[i] = frames[i]
    BY <1>2, <2>1 DEF Below
  <2>8. frames' = [Below EXCEPT ![n - 1] = f]
    BY <1>6, <2>1, <2>7 DEF Return
  <2> HIDE DEF f
  <2>9. /\ frames' \in Seq(Frame) /\ DOMAIN frames' = 1 .. (n - 1) /\ frames' # << >>
        /\ frames'[n - 1] = f
        /\ \A i \in 1 .. (n - 1) : i # n - 1 => frames'[i] = frames[i]
    BY <2>1, <2>4, <2>7, <2>8
  <2>10. \A i \in 1 .. (n - 1) : frames'[i].mk = frames[i].mk
    BY <2>4, <2>9
  <2>11. TypeOK'
    BY <1>1, <1>2, <1>4, <2>6, <2>9 DEF TypeOK
  <2>12. Phases'
    BY <1>1, <1>4, <2>6, <2>9 DEF Phases, Hits
  <2>13. FramesOK'
    <3>1. b.mk \in Methods /\ t.mk \in Methods
      BY <1>2, <2>2 DEF Frame
    <3>2. Danger(t) => Doomed(g, b.mk)
      BY <1>2, <2>2, <3>1, DoomedBySuccessor DEF FrameOK
    <3>3. FrameOK(g, f, visited, truncated)
      BY <2>2, <2>4, <2>5, <3>2 DEF FrameOK
    <3> SUFFICES ASSUME NEW i \in 1 .. (n - 1) PROVE FrameOK(g, frames'[i], visited, truncated)
      BY <1>1, <2>9 DEF FramesOK
    <3>4. CASE i = n - 1
      BY <2>9, <3>3, <3>4
    <3>5. CASE i # n - 1
      <4>1. i \in DOMAIN frames
        BY <1>2, <2>1
      <4> QED BY <2>9, <3>5, <4>1 DEF IInv, FramesOK
    <3> QED BY <3>4, <3>5
  <2>14. Linked'
    <3>1. \A i \in 1 .. (n - 1) : i \in 1 .. n /\ (i > 1 => i - 1 \in 1 .. (n - 1))
      BY <1>2
    <3>2. 1 \in 1 .. (n - 1)
      BY <2>1
    <3>3. \A i \in 1 .. n : i > 1 => frames[i].mk \in Successors(g, frames[i - 1].mk)
      BY <1>2 DEF IInv, Linked
    <3>4. frames'[1].mk = root
      BY <1>4, <2>10, <3>2
    <3> QED BY <1>1, <2>9, <2>10, <3>1, <3>3, <3>4 DEF Linked
  <2>15. Danger(t) => Alarm'
    BY <2>1, <2>5, <2>9 DEF Alarm
  <2>z. \A i \in 1 .. n : i # n => i \in 1 .. (n - 1)
    <3>1. n \in Nat
      BY <1>2
    <3> HIDE DEF n
    <3> QED BY <3>1
  <2>16. Alarm => Alarm'
    <3> SUFFICES ASSUME Alarm PROVE Alarm'
      OBVIOUS
    <3>1. PICK i \in 1 .. n : Danger(frames[i])
      BY <1>2, <1>4 DEF Alarm, Hits
    <3>2. CASE i = n
      BY <1>2, <2>15, <3>1, <3>2
    <3>3. CASE i # n
      <4>1. i \in 1 .. (n - 1)
        BY <2>z, <3>3
      <4>2. Danger(frames'[i])
        BY <2>5, <2>9, <3>1, <4>1
      <4> QED BY <2>9, <4>1, <4>2 DEF Alarm
    <3> QED BY <3>2, <3>3
  <2>17. \A m : OnStack(m) => OnStack(m)' \/ m = t.mk
    <3> SUFFICES ASSUME NEW m, OnStack(m), m # t.mk PROVE OnStack(m)'
      OBVIOUS
    <3>1. PICK i \in 1 .. n : frames[i].mk = m
      BY <1>2 DEF OnStack
    <3>2. i \in 1 .. (n - 1)
      BY <1>2, <3>1
    <3> QED BY <2>9, <2>10, <3>1, <3>2 DEF OnStack
  <2>18. DoneOK'
    <3> SUFFICES ASSUME NEW m \in visited
                 PROVE  /\ SinkSelf(m) => Alarm'
                        /\ ~SinkSelf(m) /\ ~OnStack(m)' =>
                             Finished(g, m, visited, truncated) /\ (CallsSink(g, m) => Alarm')
      BY <1>1 DEF DoneOK
    <3>1. CASE m = t.mk
      BY <1>3, <2>15, <2>16, <3>1 DEF IInv, DoneOK
    <3>2. CASE m # t.mk
      BY <2>16, <2>17, <3>2 DEF IInv, DoneOK
    <3> QED BY <3>1, <3>2
  <2> QED BY <2>11, <2>12, <2>13, <2>14, <2>18 DEF IInv
<1> QED BY <1>5, <1>6

(* Every step of the walk keeps the invariant. *)
THEOREM StepInvariant == IInv /\ [WalkNext]_walk => IInv'
<1> SUFFICES ASSUME IInv, [WalkNext]_walk PROVE IInv'
  OBVIOUS
<1>1. CASE Ask
  BY <1>1, StepAsk
<1>2. CASE LookAtEdge
  BY <1>2, StepLookAtEdge
<1>3. CASE Enter
  BY <1>3, StepEnter DEF Enter
<1>4. CASE Return
  BY <1>4, StepReturn
<1>5. CASE UNCHANGED walk
  BY <1>5 DEF walk, IInv, TypeOK, Phases, FramesOK, Linked, DoneOK, Alarm, OnStack
<1> QED BY <1>1, <1>2, <1>3, <1>4, <1>5 DEF WalkNext

THEOREM WalkInvariant == WalkSpec => []IInv
BY InitInvariant, StepInvariant, PTL DEF WalkSpec

(* The walk's variables keep their types (query.go:1378). *)
THEOREM TypeCorrect == WalkSpec => []TypeOK
BY WalkInvariant, PTL DEF IInv

(* Without a hit every method visited is done and no note was taken. *)
LEMMA QuietEnd ==
  ASSUME IInv, answer \in Reasons \ Hits
  PROVE  /\ root \in visited
         /\ \A m \in visited : ~SinkSelf(m) /\ ~CallsSink(g, m)
         /\ \A m \in visited : Finished(g, m, visited, truncated)
<1>1. frames = << >> /\ root \in visited
  BY DEF IInv, Phases, Reasons
<1>2. ~Alarm /\ \A m : ~OnStack(m)
  BY <1>1 DEF Alarm, OnStack
<1> QED BY <1>1, <1>2 DEF IInv, DoneOK

(* A method that was entered and found to call a sink, or to be one, is    *)
(* never covered by an answer without a hit, cut or not (query.go:1471).   *)
THEOREM NothingLost == WalkSpec => []NothingSeenIsLost
<1>1. IInv => NothingSeenIsLost
  BY QuietEnd DEF NothingSeenIsLost
<1> QED BY <1>1, WalkInvariant, PTL

(* A method called safe reaches no sink through any chain of calls: the    *)
(* visited methods are closed under calls and free of sinks.               *)
THEOREM SafeIsSafe == WalkSpec => []SafeMeansUnreachable
<1>1. IInv => SafeMeansUnreachable
  <2> SUFFICES ASSUME IInv, answer = "VERIFIED_SAFE" PROVE Harmless(visited)
    BY DEF SafeMeansUnreachable
  <2>1. answer \in Reasons \ Hits
    BY DEF Reasons, Hits
  <2>a. truncated = FALSE
    BY DEF IInv, Phases, TypeOK
  <2>2. \A m \in visited : Finished(g, m, visited, FALSE)
    BY <2>1, <2>a, QuietEnd
  <2>3. ASSUME NEW m \in visited PROVE Successors(g, m) \subseteq visited
    BY <2>2 DEF Successors, Finished
  <2>4. ClosedUnderCalls(visited)
    BY <2>3 DEF ClosedUnderCalls
  <2> QED BY <2>1, <2>4, QuietEnd DEF Harmless
<1> QED BY <1>1, WalkInvariant, PTL

(* A hit is real: whatever set of methods holds the root and is closed     *)
(* under calls has a sink in it.                                           *)
THEOREM HitsAreReal == WalkSpec => []HitIsReal
<1>1. IInv => HitIsReal
  BY DEF IInv, Phases, Doomed, HitIsReal, Harmless, ClosedUnderCalls
<1> QED BY <1>1, WalkInvariant, PTL
=============================================================================
