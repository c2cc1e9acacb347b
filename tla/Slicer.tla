------------------------------- MODULE Slicer -------------------------------
(***************************************************************************)
(* The slice of one report: the bodies along its taint path, the callers   *)
(* of the sink when that path is incomplete, the mapper statements the     *)
(* hops lead to, and the callees that enrichment adds under its caps; with *)
(* the degradation that removes hops when the text grows over its budget.  *)
(*                                                                         *)
(* Only what a later step reads is kept of a hop: where it is, its text,   *)
(* the tainted variable and what it was expanded from, a set with at most  *)
(* one member (ExpandedFrom is a pointer, nil for a hop of the path        *)
(* itself, and the name it points to may be the empty one of a snippet).   *)
(* Notes for the model are kept as a set of kinds.                         *)
(***************************************************************************)
EXTENDS RepositoryIndex

CONSTANTS
  Files,             \* the files that exist
  JavaFiles,         \* the names that end in .java
  XmlFiles,          \* and in .xml
  Snippet,           \* <<file, line>> of another file -> its text
  Blocks,            \* the mapper statements, in the order they are scanned
  Prose,             \* a "variable" of a report that is no identifier
  GatedCwe,          \* calleeGateByCwe's keys
  MaxContextTokens, MaxEnrichHops,
  EagerDepth, VisitedCap,
  CallerDepth, CallerCap,
  CalleeDepth, CalleeCap,
  GuardCap

\* A statement has an id, which no snippet is seen as.  ends are the names its
\* namespace ends with, the empty one among them.
Block == [text : DOMAIN Text, file : Word, name : Word \ {"", "<raw>"}, ends : SUBSET Word]

ASSUME SlicerAssumption ==
  /\ \A n \in {MaxContextTokens, MaxEnrichHops, EagerDepth, VisitedCap, CallerDepth,
               CallerCap, CalleeDepth, CalleeCap, GuardCap} : n \in Nat \ {0}
  /\ "elided" \in DOMAIN Text
  /\ JavaFiles \cap XmlFiles = {}
  /\ Snippet \in [DOMAIN Snippet -> DOMAIN Text]
  /\ Blocks \in Seq(Block)
  /\ \A i \in DOMAIN Blocks : "" \in Blocks[i].ends

HopSet == [index : Nat, file : Word, name : Word, text : DOMAIN Text, variable : Word,
           from : SUBSET Word]

HopKey(hop) == <<hop.file, hop.name>>
KeysOf(hops) == [i \in DOMAIN hops |-> HopKey(hops[i])]
Keys(hops) == ToSet(KeysOf(hops))

Hop(file, name, text, variable, from) ==
  [index |-> 0, file |-> file, name |-> name, text |-> text, variable |-> variable,
   from |-> from]

MethodHop(d, variable, from) == Hop(Def[d].file, Def[d].name, d, variable, {from})

\* The first hop of each key that is not taken.
Fresh(hops, taken) ==
  Pick(hops, {i \in Firsts(KeysOf(hops)) : HopKey(hops[i]) \notin taken})

Numbered(hops, first) == [i \in DOMAIN hops |-> [hops[i] EXCEPT !.index = first + i - 1]]

HintsOf(hops) == UNION {Text[hops[i].text].hints : i \in DOMAIN hops}

-----------------------------------------------------------------------------
(* The taint path.                                                         *)

\* A location names a file, a function and the method around its line.
Ref == [file : Word, function : Word, line : Word]

NamedIn(ref) == {i \in DOMAIN DefOrder : Key(DefOrder[i]) = <<ref.file, ref.function>>}

extractHop(ref) ==
  IF ref.file \notin Files THEN {}
  ELSE IF ref.function # "" /\ NamedIn(ref) # {}
  THEN {DefOrder[i] : i \in {i \in NamedIn(ref) : \A j \in NamedIn(ref) : i <= j}}
  ELSE {d \in Methods : d = ref.line /\ Def[d].file = ref.file}

extractNonJavaSnippet(ref) ==
  IF ref.file \in JavaFiles \/ <<ref.file, ref.line>> \notin DOMAIN Snippet THEN {}
  ELSE {Snippet[<<ref.file, ref.line>>]}

dropReason(ref) ==
  IF ref.file \notin JavaFiles THEN "non_java"
  ELSE IF ref.file \notin Files THEN "file_not_found" ELSE "no_function"

\* A report's variable is used if it is one; the pattern search is for reports
\* that give none.
inferTaintVariable(text, alert) ==
  IF alert.variable = Prose THEN ""
  ELSE IF alert.variable # "" THEN alert.variable ELSE Text[text].bound

PathHop(d, ref, alert) == Hop(ref.file, Def[d].name, d, inferTaintVariable(d, alert), {})

RawHop(t, ref, alert) == Hop(ref.file, "", t, inferTaintVariable(t, alert), {"raw_passthrough"})

\* The hop of a location, if it has one.
HopAt(ref, alert) ==
  IF extractHop(ref) # {}
  THEN <<PathHop(CHOOSE d \in extractHop(ref) : TRUE, ref, alert)>>
  ELSE IF extractNonJavaSnippet(ref) # {}
  THEN <<RawHop(CHOOSE t \in extractNonJavaSnippet(ref) : TRUE, ref, alert)>>
  ELSE <<>>

HopsAt(refs, alert) == FlattenSeq([i \in DOMAIN refs |-> HopAt(refs[i], alert)])

\* seen: of the snippets of a file only the first is taken.
SeenAs(hop) == <<hop.file, IF hop.from = {} THEN hop.name ELSE "<raw>">>
SeenBy(hops) == [i \in DOMAIN hops |-> SeenAs(hops[i])]

FirstSeen(hops) == Pick(hops, Firsts(SeenBy(hops)))

\* source and sink, when the path gave nothing.
Ends(alert) ==
  LET ends == <<alert.source, alert.sink>>
  IN  Pick(ends, {i \in DOMAIN ends : extractHop(ends[i]) # {}})

PathOf(alert) ==
  LET path == FirstSeen(HopsAt(alert.path, alert))
  IN  IF path # <<>> THEN path ELSE FirstSeen(HopsAt(Ends(alert), alert))

\* The hints come from the methods; what the path leads to and is not shown has a
\* reason.
HintsOfPath(path) == HintsOf(Pick(path, {i \in DOMAIN path : path[i].from = {}}))

SkipReasons(alert) ==
  {dropReason(ref) : ref \in {r \in ToSet(alert.path) : r.file # "" /\ HopAt(r, alert) = <<>>}}

-----------------------------------------------------------------------------
(* The callers of the sink.                                                *)

CallersOfSink(alert) ==
  IF alert.sink.function = "" THEN [found |-> <<>>, full |-> FALSE]
  ELSE CallersOfTransitive(alert.sink.function, CallerDepth, CallerCap)

\* Entry first, before the hops of the path, and without a look at seen.
reverseCallerHops(alert) ==
  IF alert.complete THEN <<>>
  ELSE LET nearest == CallersOfSink(alert).found
       IN  Reverse([i \in DOMAIN nearest |-> MethodHop(nearest[i], "", "reverse_caller")])

CallerNote(alert) ==
  CASE alert.complete                     -> {}
    [] CallersOfSink(alert).found = <<>>  -> {"reverse_caller_skipped"}
    [] CallersOfSink(alert).full          -> {"reverse_caller_truncated"}
    [] OTHER                              -> {}

-----------------------------------------------------------------------------
(* Mapper statements.                                                      *)

HasKind(text, kinds) == \E i \in DOMAIN Text[text].guards : Text[text].guards[i].kind \in kinds

Statement(block) == Text[block.text].dollar \/ Text[block.text].hash

\* The statements of a mapper method: of its name, in a namespace that ends with
\* the name of its class.
MapperHits(d) ==
  Pick(Blocks, {i \in DOMAIN Blocks : /\ Blocks[i].name = Def[d].name
                                      /\ Statement(Blocks[i])
                                      /\ Def[d].class \in Blocks[i].ends})

BlockHop(b) == Hop(b.file, b.name, b.text, "", {"mybatis_xml_eager"})

\* resolveCallee: one definition, the receiver's or the first.
EagerCallees(d) ==
  FlattenSeq([i \in DOMAIN Text[d].calls |->
    IF Text[d].calls[i].name \in NoiseCallees \/ Resolve(Text[d].calls[i].name) = <<>>
    THEN <<>> ELSE <<resolveWithReceiver(Text[d].calls[i])[1]>>])

\* The methods a walk visited and the hops it emitted.
Walks == [visited : SUBSET (Word \X Word), out : Seq(HopSet)]

MayDescend(walk, level) == level > 0 /\ Cardinality(walk.visited) <= VisitedCap

Emitted(walk, d, path) ==
  [walk EXCEPT !.out = @ \o [i \in DOMAIN MapperHits(d) |-> BlockHop(MapperHits(d)[i])]
                         \o [i \in DOMAIN path |-> MethodHop(path[i], "", "eager_callee")]]

\* below is the walk one level down.
DfsAll(below, walk, ds, path) ==
  Walked([p \in Walks \X Methods |-> below[<<p[1], p[2], path>>]], walk, ds)

DfsMarked(below, walk, d, level, path) ==
  IF MapperHits(d) # <<>> THEN Emitted(walk, d, path)
  ELSE IF MayDescend(walk, level)
  THEN DfsAll(below, walk, EagerCallees(d), Append(path, d)) ELSE walk

\* A seeded fault: the budget is looked at before the statement is.
DfsCappedFirst(below, walk, d, level, path) ==
  IF ~MayDescend(walk, level) THEN walk
  ELSE IF MapperHits(d) # <<>> THEN Emitted(walk, d, path)
  ELSE DfsAll(below, walk, EagerCallees(d), Append(path, d))

\* A mapper method is emitted whatever budget is left; the others are walked
\* through while there is some.
DfsBudget(below, walk, d, level, path) == DfsMarked(below, walk, d, level, path)

Visit(below, walk, d, level, path) ==
  IF Key(d) \in walk.visited THEN walk
  ELSE DfsBudget(below, [walk EXCEPT !.visited = @ \cup {Key(d)}], d, level, path)

\* level - 1 is the depth of the code, which goes down to -1.
Dfs[level \in 0..EagerDepth + 1] ==
  [p \in Walks \X Methods \X Seq(Methods) |-> Visit(Dfs[level - 1], p[1], p[2], level, p[3])]

\* Every Java hop in turn, by the first definition of its name; one set of
\* visited methods for all of them.
IsRoot(hop) == hop.file \in JavaFiles /\ hop.name # "" /\ Resolve(hop.name) # <<>>

Rooted(walk, hop) ==
  IF IsRoot(hop) THEN Dfs[EagerDepth + 1][<<walk, Resolve(hop.name)[1], <<>>>>] ELSE walk

eagerResolveMapperXml(hops) ==
  IF Blocks = <<>> THEN <<>>
  ELSE Walked([p \in Walks \X HopSet |-> Rooted(p[1], p[2])],
              [visited |-> {}, out |-> <<>>], hops).out

-----------------------------------------------------------------------------
(* The budget.                                                             *)

Tokens(hops) ==
  Walked([p \in Nat \X HopSet |-> p[1] + Text[p[2].text].tokens], 0, hops)

\* The first and the last hop, by their index, and those that name a sanitizer.
Critical(hop, last, hints) ==
  hop.index \in {0, last} \/ Text[hop.text].hints \cap hints # {}

maybeDegrade(s) ==
  IF s.tokens <= MaxContextTokens \/ s.hops = <<>> THEN s
  ELSE [s EXCEPT !.hops = Pick(@, {i \in DOMAIN @ : Critical(@[i], Len(@) - 1, s.hints)}),
                 !.degraded = TRUE]

CallerHops(hops) == {i \in DOMAIN hops : hops[i].from = {"reverse_caller"}}

Elided(hops, keep) ==
  [i \in DOMAIN hops |-> IF i \in CallerHops(hops) \ keep
                         THEN [hops[i] EXCEPT !.text = "elided"] ELSE hops[i]]

ElideCallers(s, hops) ==
  [s EXCEPT !.hops = hops, !.degraded = TRUE, !.tokens = Tokens(hops),
            !.note = @ \cup {"reverse_caller_degraded"}]

degradeReverseChain(s, callers) ==
  IF Cardinality(callers) <= 3 \/ s.tokens <= MaxContextTokens THEN s
  ELSE ElideCallers(s, Elided(s.hops,
         {CHOOSE i \in callers : \A j \in callers : i <= j,
          CHOOSE i \in callers : \A j \in callers : j <= i}))

-----------------------------------------------------------------------------
(* The decisive fact: how the statement binds its parameters.              *)

HasConcat(hops) == \E i \in DOMAIN hops : HasKind(hops[i].text, {"mybatis_concat"})
HasParam(hops)  == \E i \in DOMAIN hops : HasKind(hops[i].text, {"mybatis_param"})

Executors(hops) == UNION {Text[hops[i].text].executors : i \in DOMAIN hops}

executorVisible(hops) ==
  CASE "prepared" \in Executors(hops)   -> "prepared"
    [] "raw_concat" \in Executors(hops) -> "raw_concat"
    [] OTHER                            -> "none"

isMybatisMapperContext(hops) ==
  \E i \in DOMAIN hops : hops[i].file \in XmlFiles \/ Text[hops[i].text].tag

classifySinkParamStyle(hops) ==
  CASE ~HasConcat(hops) /\ ~HasParam(hops) -> ""
    [] HasConcat(hops) -> IF isMybatisMapperContext(hops) \/ executorVisible(hops) = "raw_concat"
                          THEN "concat" ELSE "unknown"
    [] OTHER -> IF isMybatisMapperContext(hops) \/ executorVisible(hops) = "prepared"
                THEN "parameterized" ELSE "unknown"

-----------------------------------------------------------------------------
(* SliceAlert.                                                             *)

Notes  == {"reverse_caller_skipped", "reverse_caller_truncated", "reverse_caller_degraded",
           "omitted", "absent_types", "unseen"}
Styles == {"", "concat", "parameterized", "unknown"}

Slices == [hops : Seq(HopSet), hints : SUBSET Word,
           skipped : SUBSET {"non_java", "file_not_found", "no_function"}, tokens : Nat,
           degraded : BOOLEAN, note : SUBSET Notes, uncertain : SUBSET (Word \X Word),
           truncated : BOOLEAN, style : Styles]

Context(alert, hops) ==
  [hops |-> hops, hints |-> HintsOfPath(PathOf(alert)), skipped |-> SkipReasons(alert),
   tokens |-> Tokens(hops), degraded |-> FALSE, note |-> CallerNote(alert), uncertain |-> {},
   truncated |-> FALSE, style |-> ""]

Degraded(s) == maybeDegrade(degradeReverseChain(s, CallerHops(s.hops)))

Styled(s) == [s EXCEPT !.style = classifySinkParamStyle(s.hops)]

\* What the walk for statements emits is held against the keys of the path, not
\* against those of the callers.
WithStatements(hops, seen) == hops \o Fresh(eagerResolveMapperXml(hops), seen)

HopsOf(alert) ==
  Numbered(WithStatements(reverseCallerHops(alert) \o PathOf(alert), ToSet(SeenBy(PathOf(alert)))), 0)

SliceAlert(alert) == Styled(Degraded(Context(alert, HopsOf(alert))))

-----------------------------------------------------------------------------
(* Callees.  An item is the hop it becomes.                                *)

NextIndex(hops) ==
  Walked([p \in Nat \X HopSet |-> IF p[2].index >= p[1] THEN p[2].index + 1 ELSE p[1]], 0, hops)

Extended(s, added) ==
  IF added = <<>> THEN s
  ELSE maybeDegrade([s EXCEPT !.hops = @ \o added, !.tokens = Tokens(s.hops \o added),
                              !.hints = @ \cup HintsOf(added)])

AppendCalleeHops(s, items) ==
  Extended(s, Numbered(Fresh(items, Keys(s.hops)), NextIndex(s.hops)))

\* The cap; a note that replaces the others, and the flag.
applyEnrichCap(s, items) ==
  IF Len(items) > MaxEnrichHops
  THEN [AppendCalleeHops(s, Prefix(items, MaxEnrichHops))
          EXCEPT !.note = {"omitted"}, !.truncated = TRUE]
  ELSE AppendCalleeHops(s, items)

\* Callees of a text, as hops expanded from it.
Expanded(ds, text, variable, from) ==
  [i \in DOMAIN ds |-> MethodHop(ds[i], TaintParamFor(text, variable, ds[i]), from)]

ItemsOf(hop) == Expanded(ResolveCallees(hop.text, hop.variable), hop.text, hop.variable, hop.name)

Candidates(hops) == Fresh(FlattenSeq([i \in DOMAIN hops |-> ItemsOf(hops[i])]), Keys(hops))

Referenced(hops) ==
  UNION {{Key(d) : d \in ToSet(ResolvableCallees(hops[i].text))} : i \in DOMAIN hops}

\* A seeded fault: what is shown is known by its bare name.
UnseenByName(referenced, hops) ==
  {k \in referenced : /\ \A i \in DOMAIN hops : hops[i].name # k[2]
                      /\ k[2] \notin AccessorNames}

\* Callees the judge cannot see: neither in the slice nor an accessor.
Unseen(referenced, hops) ==
  {k \in referenced : k \notin Keys(hops) /\ k[2] \notin AccessorNames}

AbsentTypes(hops) == \E i \in DOMAIN hops : hops[i].from # {} /\ Text[hops[i].text].foreign

Reported(s, unseen) ==
  [s EXCEPT !.note = @ \cup (IF AbsentTypes(s.hops) THEN {"absent_types"} ELSE {})
                       \cup (IF unseen # {} THEN {"unseen"} ELSE {}),
            !.uncertain = IF unseen # {} THEN unseen ELSE @]

ReportUnseen(s, referenced) == Reported(s, Unseen(referenced, s.hops))

EnrichSlice(s) == ReportUnseen(applyEnrichCap(s, Candidates(s.hops)), Referenced(s.hops))

-----------------------------------------------------------------------------
(* Callees that change state, for the classes of weakness where reaching   *)
(* one unauthenticated is the harm.                                        *)

stateMutatingRank(d) ==
  IF bodyWriteSignal(d) THEN 0
  ELSE IF stateMutatingTier(Def[d].name) > 0 THEN stateMutatingTier(Def[d].name) ELSE 3

OfRank(items, rank) ==
  Pick(items, {i \in DOMAIN items : stateMutatingRank(items[i].text) = rank})

\* A seeded fault: the items stay in the order of the walk.
WalkOrder(items) == items

sortCalleeItemsSevereFirst(items) ==
  OfRank(items, 0) \o OfRank(items, 1) \o OfRank(items, 2) \o OfRank(items, 3)

Pulled(text) == ResolveCalleesTransitive(text, CalleeDepth, CalleeCap).found

\* The callers of a hop, in the order of file and name.
Enclosings(hop) ==
  Pick(ByFile, {i \in DOMAIN ByFile : ByFile[i] \in ToSet(CallersOf(hop.name))})

FromEnclosing(d) == Expanded(Pulled(d), d, "", "enclosing_scan")

MutatorItems(hop) ==
  IF hop.from # {} THEN <<>>
  ELSE LET enclosings == Enclosings(hop)
       IN  Expanded(Pulled(hop.text), hop.text, hop.variable, hop.name)
             \o FlattenSeq([i \in DOMAIN enclosings |-> FromEnclosing(enclosings[i])])

MutatorCandidates(hops) ==
  Fresh(FlattenSeq([i \in DOMAIN hops |-> MutatorItems(hops[i])]), Keys(hops))

EnrichStateMutatingCallees(s, cwe) ==
  IF cwe \notin GatedCwe THEN s
  ELSE LET candidates == MutatorCandidates(s.hops)
       IN  IF candidates = <<>> THEN s
           ELSE applyEnrichCap(s, sortCalleeItemsSevereFirst(candidates))

-----------------------------------------------------------------------------
(* Callees that hold a guard: those the hops call, and one level down.  The *)
(* walk is known by the methods it met, each key once.                     *)

HasGuard(d) == Text[d].guards # <<>>

KeysMet(met) == {Key(met[i]) : i \in DOMAIN met}

Judged(met, d, present) ==
  IF Key(d) \in KeysMet(met) \cup present THEN met ELSE Append(met, d)

Below(met, d, present) ==
  Walked([p \in Seq(Methods) \X Methods |-> Judged(p[1], p[2], present)],
         met, ResolvableCallees(d))

Deeper(before, after, d, present) ==
  IF after = before \/ HasGuard(d) \/ Len(after) >= GuardCap THEN after
  ELSE Below(after, d, present)

GuardWalk(met, d, present) == Deeper(met, Judged(met, d, present), d, present)

GuardsOf(met, hop, present) ==
  Walked([p \in Seq(Methods) \X Methods |-> GuardWalk(p[1], p[2], present)],
         met, ResolvableCallees(hop.text))

GuardItems(hops, present) ==
  LET met == Walked([p \in Seq(Methods) \X HopSet |-> GuardsOf(p[1], p[2], present)], <<>>, hops)
      guards == Pick(met, {i \in DOMAIN met : HasGuard(met[i])})
  IN  [i \in DOMAIN guards |-> MethodHop(guards[i], "", "eager_guard")]

EnrichGuardCallees(s) ==
  AppendCalleeHops(s, Prefix(GuardItems(s.hops, Keys(s.hops)), MaxEnrichHops))

=============================================================================
