---------------------------- MODULE TaintQueries ----------------------------
(***************************************************************************)
(* The queries of src/taint/engine/query.go and reachability.go that read  *)
(* the call graph once SinkReach has answered for a method: the sinks it   *)
(* reaches, the traces back to the sources, the tree of its callers, the   *)
(* paths of a variable to a sink, the breakpoints.                         *)
(*                                                                         *)
(* The walks of these queries are recursive and keep the methods of the    *)
(* current path apart, so they are operators over the path walked so far;  *)
(* ReachableSinks keeps one set of visited methods instead.                *)
(***************************************************************************)
EXTENDS SinkReach, SequencesExt

CONSTANTS MaxCallDepth,       \* Config.MaxCallDepth
          ChainDepth,         \* defaultChainMaxDepth
          ChainBreadth,       \* defaultChainMaxCallersPerNode
          MaxFlowPaths,       \* maxFlowPaths
          SymbolDepth,        \* the layers TraceFromSymbol is asked for
          MaxCallNodes,       \* Config.MaxCallNodes
          MaxSymbolDefs,      \* the definitions a search for a symbol returns
          Similar,            \* the names a search for a name finds by trigrams
          Lambdas,            \* the lambdas written in a method
          Stdlib,             \* the names of a class of the standard library
          Rank                \* the alphabetical order of the keys

ASSUME QueryAssumption ==
  /\ {MaxCallDepth, ChainDepth, ChainBreadth, MaxFlowPaths, MaxCallNodes, MaxSymbolDefs}
       \subseteq Nat \ {0}
  /\ Similar \in [Names -> SUBSET Names] /\ \A n \in Names : n \in Similar[n]
  /\ Lambdas \in [Methods -> SUBSET Methods]
  /\ Stdlib \subseteq Names
  /\ SymbolDepth \in 1 .. 3
  /\ Rank \in [Methods -> Nat]

VARIABLE report   \* what the queries about the root said, << >> before

ByRank(S) == SetToSortSeq(S, LAMBDA a, b : Rank[a] < Rank[b])

-----------------------------------------------------------------------------
(* ReachableSinks: one set of visited methods for the walk, as in          *)
(* SinkReach; a method that is a sink is listed and still walked through.  *)

RECURSIVE SinksDFS(_, _, _)
SinksDFS(m, depth, acc) ==
  IF depth > MaxSinkReachDepth \/ m \in acc.visited
  THEN acc
  ELSE LET entered == [visited |-> acc.visited \cup {m},
                       found |-> acc.found \cup
                         (IF Label[NameOf[m]] \in {"sink", "jpa"} THEN {NameOf[m]} ELSE {})]
       IN FoldLeft(
            LAMBDA a, e :
              IF ~GoesOn(e)
              THEN [a EXCEPT !.found = @ \cup {e.to}]
              ELSE FoldLeft(LAMBDA b, k : SinksDFS(k, depth + 1, b),
                            a, ByRank(CalleeKeys(g, e.to))),
            entered, EdgesOf(g, m))

(* Seeded error: one layer of depth less. *)
ReachableSinksShallow(m) ==
  SinksDFS(m, 1, [visited |-> {}, found |-> {}]).found \ {NameOf[m]}

ReachableSinks(m) == SinksDFS(m, 0, [visited |-> {}, found |-> {}]).found \ {NameOf[m]}

(* The tainted calls of dictionary and XML sinks in m itself and in the    *)
(* lambdas written in it.                                                  *)
SinkParamBindings(m) ==
  {n \in Names : /\ IsDangerousSink(n) \/ Label[n] = "xml"
                 /\ \E k \in {m} \cup Lambdas[m] : <<k, n>> \in g.tainted}

-----------------------------------------------------------------------------
(* TraceToSources.  A node is a method at its declaration or at its sink.  *)

At(m) == [mk |-> m, at |-> "declaration"]

(* The simple chains of callers from m up to an entry point or a method    *)
(* with sources, both of which the walk goes through.                      *)
RECURSIVE TraceSrc(_, _)
TraceSrc(m, path) ==
  IF Len(path) > MaxCallDepth \/ At(m) \in Range(path)
  THEN {}
  ELSE LET np == Append(path, At(m))
       IN {[path |-> np, isEntry |-> b] :
             b \in {c \in BOOLEAN : IF c THEN m \in g.entry ELSE m \in g.sources}}
          \cup UNION {TraceSrc(c, np) : c \in GetCallers(g, m)}

RECURSIVE SrcCut(_, _)
SrcCut(m, path) ==
  \/ Len(path) > MaxCallDepth
  \/ /\ At(m) \notin Range(path)
     /\ \E c \in GetCallers(g, m) : SrcCut(c, Append(path, At(m)))

(* Forward, a call leads to the first definition of its name only, and a   *)
(* method whose result feeds a call leads there as well.                   *)
FirstKey(n) == IF Index(g, n) # {} THEN {ByRank(Index(g, n))[1]} ELSE {}

Fed(m) == {n \in Names : <<m, n>> \in g.feeds}

Forward(m) ==
  UNION {FirstKey(e.to) : e \in Range(EdgesOf(g, m))}
    \cup (UNION {FirstKey(n) : n \in Fed(m)} \ {m})

(* m leads to a name without a definition, where the walk ends. *)
Leaves(m) ==
  \E n \in Fed(m) \cup {e.to : e \in Range(EdgesOf(g, m))} : Index(g, n) = {}

(* The simple chains from m to the first method that calls a dictionary    *)
(* sink, the sink's end first.                                             *)
RECURSIVE TraceFwd(_, _)
TraceFwd(m, path) ==
  IF Len(path) > MaxCallDepth \/ At(m) \in Range(path)
  THEN {}
  ELSE IF CallsDangerDirectly(g, m)
  THEN {Reverse(Append(path, At(m)))}
  ELSE UNION {TraceFwd(c, Append(path, At(m))) : c \in Forward(m)}

RECURSIVE FwdCut(_, _)
FwdCut(m, path) ==
  \/ Len(path) > MaxCallDepth
  \/ /\ At(m) \notin Range(path) /\ ~CallsDangerDirectly(g, m)
     /\ \/ Leaves(m) /\ Len(path) = MaxCallDepth
        \/ \E c \in Forward(m) : FwdCut(c, Append(path, At(m)))

Looks(m) == m \in g.entry \/ answer \in Hits

(* One longest chain, if it is longer than the method itself. *)
Longest(m) ==
  LET all == {p \in TraceFwd(m, << >>) : Len(p) > 1}
  IN IF all = {} THEN {}
     ELSE {[path |-> CHOOSE p \in all : \A r \in all : Len(r) <= Len(p),
            isEntry |-> TRUE]}

(* A method that calls a sink puts it in front of its own traces, and is a *)
(* trace by itself, of unconfirmed sources, when it has none.              *)
WithSink(m, traces) ==
  LET sink == [mk |-> m, at |-> "sink"]
      own  == {t \in traces : t.path[1].mk = m}
  IN IF ~CallsDangerDirectly(g, m)
     THEN traces
     ELSE IF own = {}
     THEN traces \cup {[path |-> <<sink>>, isEntry |-> m \in g.entry]}
     ELSE (traces \ own) \cup {[t EXCEPT !.path = <<sink>> \o @] : t \in own}

TraceToSources(m) ==
  WithSink(m, TraceSrc(m, << >>) \cup (IF Looks(m) THEN Longest(m) ELSE {}))

TraceCut(m) == SrcCut(m, << >>) \/ (Looks(m) /\ FwdCut(m, << >>))

ExhaustedDepth(m) == TraceCut(m) /\ TraceToSources(m) = {}

-----------------------------------------------------------------------------
(* TraceCallersChain: the tree of callers as the set of its nodes, each    *)
(* with the path that leads to it.                                         *)

(* Entry points before the rest, test code last, then by key. *)
Before(a, b) ==
  LET weight(m) == <<IF m \in g.entry THEN 0 ELSE 1, IF m \in g.tests THEN 1 ELSE 0, Rank[m]>>
      x == weight(a)
      y == weight(b)
  IN \E i \in 1 .. 3 : x[i] < y[i] /\ \A j \in 1 .. (i - 1) : x[j] = y[j]

(* Seeded error: by key alone. *)
SortedByKey(S) == ByRank(S)

Sorted(S) == SetToSortSeq(S, Before)

Kept(m) ==
  LET callers == Sorted(GetCallers(g, m))
  IN {callers[i] : i \in 1 .. (IF Len(callers) < ChainBreadth THEN Len(callers) ELSE ChainBreadth)}

RECURSIVE CallersChain(_, _)
CallersChain(m, path) ==
  LET node == [mk |-> m, path |-> path, cut |-> FALSE, dropped |-> {}]
  IN IF Len(path) >= ChainDepth
     THEN {[node EXCEPT !.cut = m \notin g.entry]}
     ELSE IF m \in Range(path)
     THEN {node}
     ELSE {[node EXCEPT !.dropped = GetCallers(g, m) \ Kept(m)]}
            \cup UNION {CallersChain(c, Append(path, m)) : c \in Kept(m)}

(* Nothing is said of a method the repository does not define. *)
Tree(m) == IF m \in g.defined THEN CallersChain(m, << >>) ELSE {}

-----------------------------------------------------------------------------
(* TraceVarFlow: the paths of calls from the method of a tainted variable  *)
(* to dictionary sinks, each hop a caller and the name it calls.           *)

RECURSIVE VarFlow(_, _, _)
VarFlow(m, seen, path) ==
  IF Len(path) > MaxSinkReachDepth \/ m \in seen
  THEN << >>
  ELSE FoldLeft(
         LAMBDA acc, e :
           LET np == Append(path, <<m, e.to>>)
           IN IF Len(acc) >= MaxFlowPaths
              THEN acc
              ELSE IF IsDangerousSink(e.to)
              THEN Append(acc, np)
              ELSE FoldLeft(LAMBDA a, k : a \o VarFlow(k, seen \cup {m}, np),
                            acc, ByRank(CalleeKeys(g, e.to))),
         << >>, EdgesOf(g, m))

(* dedupeAndSortFlowPaths: the first of equal paths, the shortest first,   *)
(* paths of one length in the order they were found.                       *)
DedupeAndSort(paths) ==
  LET first(i) == \A j \in 1 .. (i - 1) : paths[j] # paths[i]
      before(i, j) == \/ Len(paths[i]) < Len(paths[j])
                      \/ Len(paths[i]) = Len(paths[j]) /\ i < j
      order == SetToSortSeq({i \in DOMAIN paths : first(i)}, before)
  IN [k \in DOMAIN order |-> paths[order[k]]]

FlowPaths(m) == DedupeAndSort(VarFlow(m, {}, << >>))

-----------------------------------------------------------------------------
(* TraceFromSymbol: the callers of a symbol's definitions, breadth first,  *)
(* a caller once, at most SymbolDepth layers up.                           *)

RECURSIVE SymbolBFS(_, _)
SymbolBFS(queue, seen) ==
  IF queue = << >>
  THEN seen
  ELSE LET it == Head(queue)
       IN IF it.depth > SymbolDepth \/ it.mk \in seen
          THEN SymbolBFS(Tail(queue), seen)
          ELSE SymbolBFS(
                 Tail(queue) \o
                   (IF it.depth < SymbolDepth
                    THEN [i \in 1 .. Cardinality(GetCallers(g, it.mk)) |->
                            [mk |-> Sorted(GetCallers(g, it.mk))[i], depth |-> it.depth + 1]]
                    ELSE << >>),
                 seen \cup {it.mk})

(* The definitions of a symbol are those the search by trigrams finds, the *)
(* first in the order of the alphabet: of names like it, and not all when  *)
(* they are many.                                                          *)
SymbolDefs(n) ==
  LET found == ByRank({m \in g.defined : NameOf[m] \in Similar[n]})
  IN {found[i] : i \in {j \in DOMAIN found : j <= MaxSymbolDefs}}

SymbolStart(n) ==
  IF SymbolDefs(n) # {} THEN UNION {GetCallers(g, d) : d \in SymbolDefs(n)}
                        ELSE g.unbound[n]

SymbolCallers(n) ==
  LET start == ByRank(SymbolStart(n))
  IN SymbolBFS([i \in DOMAIN start |-> [mk |-> start[i], depth |-> 1]], {})

-----------------------------------------------------------------------------
(* The breakpoints: calls of m the analysis could not close, and those of  *)
(* a name that is called but not resolved.                                 *)

CallBreakpoints(m) ==
  {e \in Range(EdgesOf(g, m)) :
     \/ e.type \in Dynamic
     \/ e.type = "native" /\ TaintedNative(g, m)
     \/ e.to \notin Stdlib /\ Index(g, e.to) = {}}

UnresolvedCallees(m) == {e \in Range(EdgesOf(g, m)) : e.type \in Dynamic}

(* A name the search finds a definition for is no real break: it becomes   *)
(* an interface.                                                           *)
BreakpointType(n) ==
  IF g.unbound[n] = {} THEN "none"
  ELSE IF SymbolDefs(n) # {} THEN "interface" ELSE "unresolved"

(* CheckCalleeReachability, without its last guess by the method's word. *)
Reachability(n) ==
  CASE Cardinality(Index(g, n)) = 1 -> "reachable"
    [] Cardinality(Index(g, n)) > 1 -> "unknown"
    [] OTHER -> IF \E m \in Methods : Calls(g, m, n) THEN "unreachable" ELSE "unknown"

(* GetForwardReachable: the callees of the first MaxCallNodes edges whose  *)
(* name has one definition.                                                *)
Definitive(m) ==
  {EdgesOf(g, m)[i].to : i \in {j \in DOMAIN EdgesOf(g, m) :
     j <= MaxCallNodes /\ Cardinality(Index(g, EdgesOf(g, m)[j].to)) = 1}}

-----------------------------------------------------------------------------

QueryInit == WalkInit /\ report = << >>

Report ==
  /\ answer # "none" /\ report = << >>
  /\ report' = [sinks    |-> ReachableSinks(root),
                bindings |-> SinkParamBindings(root),
                traces   |-> TraceToSources(root),
                cut      |-> TraceCut(root),
                none     |-> ExhaustedDepth(root),
                tree     |-> Tree(root),
                flows    |-> FlowPaths(root),
                symbol   |-> SymbolCallers(NameOf[root]),
                breaks   |-> CallBreakpoints(root),
                dynamic  |-> UnresolvedCallees(root),
                broken   |-> BreakpointType(NameOf[root]),
                reach    |-> Reachability(NameOf[root]),
                definite |-> Definitive(root)]
  /\ UNCHANGED walk

QueryNext == (WalkNext /\ UNCHANGED report) \/ Report

QuerySpec == QueryInit /\ [][QueryNext]_<<walk, report>>

-----------------------------------------------------------------------------

Reported == report # << >>

(* The methods a chain of callers leads to from m. *)
RECURSIVE Upward(_)
Upward(S) ==
  LET more == S \cup UNION {GetCallers(g, m) : m \in S}
  IN IF more = S THEN S ELSE Upward(more)

RECURSIVE Layers(_, _)
Layers(S, n) == IF n = 1 THEN S ELSE S \cup Layers(UNION {GetCallers(g, m) : m \in S}, n - 1)

(* TraceToSourcesEx is believed when it returns nothing and does not say   *)
(* that it ran out of depth: then no chain of the callers the look-up      *)
(* returns leads from the method to an entry point or a source, and no     *)
(* trace that was returned uncut misses one (query.go:313).  Calls that    *)
(* write no caller, and those of an ambiguous overload, are in no chain.   *)
NoTraceMeansNoSource ==
  Reported /\ ~report.cut =>
    \A m \in Upward({root}) \cap (g.entry \cup g.sources) :
      \E t \in report.traces : t.path[Len(t.path)].mk = m

(* The tree of callers that does not say it is cut has every caller the    *)
(* look-up returns of every method in it, but for an entry point at its last layer; and a     *)
(* breadth limit drops no entry point while it keeps another method        *)
(* (query.go:577).                                                         *)
TreeHonest ==
  Reported =>
    LET inTree == {n.mk : n \in report.tree}
    IN /\ (\A n \in report.tree : ~n.cut /\ n.dropped = {}) =>
            \A n \in report.tree : n.mk \in g.entry \/ GetCallers(g, n.mk) \subseteq inTree
       /\ \A n \in report.tree :
            (n.dropped \cap g.entry # {}) =>
               (GetCallers(g, n.mk) \ n.dropped) \subseteq g.entry

(* A hit that is not the method itself comes with the sinks that made it   *)
(* one, unless the walk was cut; and a hit whose only reason is a tainted  *)
(* query comes with the binding of its argument (query.go:1550).           *)
SinksAgree ==
  Reported /\ answer \in {"DANGER_HIT", "INDIRECT_DANGER"} /\ ~truncated =>
    /\ report.sinks # {}
    /\ (answer = "DANGER_HIT" /\ report.sinks \subseteq {n \in Names : Label[n] = "jpa"}) =>
          report.bindings # {}

(* An answer that blames an unresolved call comes with the breakpoint to   *)
(* complete; a name that is definitely one callee is one the walk enters.  *)
BreakpointsExplain ==
  Reported =>
    /\ answer \in {"REFLECTION_UNRESOLVED", "DYNAMIC_PROXY_UNRESOLVED",
                   "NATIVE_BLACKBOX_UNRESOLVED", "LAMBDA_UNTRACED"} => report.breaks # {}
    /\ report.dynamic \subseteq report.breaks
    /\ \A n \in report.definite : CalleeKeys(g, n) # {}
    /\ report.broken = "unresolved" => report.reach # "reachable"

(* The callers of a symbol are those within its layers: visiting a caller  *)
(* once must not lose what is behind it (query.go:1994).                   *)
SymbolCallersExact ==
  Reported => report.symbol = Layers(SymbolStart(NameOf[root]), SymbolDepth)

(* The flow paths are chains of calls from the method to a dictionary      *)
(* sink, no method twice, each once, the shortest first (query.go:1015).   *)
FlowsAreChains ==
  Reported =>
    /\ \A i, j \in DOMAIN report.flows :
         i < j => /\ report.flows[i] # report.flows[j]
                  /\ Len(report.flows[i]) <= Len(report.flows[j])
    /\ \A i \in DOMAIN report.flows :
         LET p == report.flows[i]
         IN /\ p[1][1] = root /\ IsDangerousSink(p[Len(p)][2])
            /\ \A k \in 1 .. (Len(p) - 1) : p[k + 1][1] \in CalleeKeys(g, p[k][2])
            /\ \A k, l \in DOMAIN p : p[k][1] = p[l][1] => k = l

(* What is said of callers has all that the look-up of recorded callers    *)
(* returns, or says that it is cut: traces to sources, the tree of callers *)
(* and the callers of a symbol.                                            *)
CallersComplete == NoTraceMeansNoSource /\ TreeHonest /\ SymbolCallersExact

(* An answer comes with what explains it: a hit with its sinks and paths,  *)
(* an unresolved call with its breakpoint.                                 *)
AnswersExplained == SinksAgree /\ BreakpointsExplain /\ FlowsAreChains

=============================================================================
