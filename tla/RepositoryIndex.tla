--------------------------- MODULE RepositoryIndex ---------------------------
(***************************************************************************)
(* The index of a repository's methods that the slicer pulls callers and   *)
(* callees from: lookups by name, the choice among definitions of one name *)
(* by the class the receiver is named after, and the two walks that stop   *)
(* at a number of nodes.                                                   *)
(*                                                                         *)
(* A method is an identifier.  Its text says which calls it makes, what    *)
(* its parameters are called and what the pattern searches find in it;     *)
(* names are compared with receivers up to case, as the code does.         *)
(***************************************************************************)
EXTENDS Lists

CONSTANTS
  Def,             \* method -> its name, file and class
  DefOrder,        \* the methods in the order Build meets them
  ByFile,          \* the methods in the order of file, then name
  Text,            \* the bodies: of methods, mapper statements and snippets
  Bare,            \* a qualified name of a report -> the bare name
  NoiseCallees, SanitizerNames, AccessorNames,
  Irreversible,    \* stateMutatingTier1
  Reversible       \* the other verbs of stateMutatingVerbs

Methods == DOMAIN Def

\* What ExpandedFrom points to when it is not the name of a method.
Marks == {"raw_passthrough", "reverse_caller", "mybatis_xml_eager", "eager_callee",
          "enclosing_scan", "eager_guard", "agentic", "agentic_xml"}

\* Any string, the literals of the code among them.
Word == STRING \cup Marks \cup {""}

\* A guard is its kind, a token for its code, the variables the code names and what
\* the search in that code finds.
Guard == [kind : Word, code : Word, vars : SUBSET Word,
          corpus : {"escapes", "held", "opaque"}, separator : BOOLEAN]

\* An invocation is a method called with one set of variables per argument.
Invocation == [name : Word, receiver : Word, args : Seq(SUBSET Word)]

Assignment == [copy : Word, taint : Word, callee : Word,
               reassigned : BOOLEAN, rejoined : BOOLEAN]

\* dollar and hash: the text holds a "${" or a "#{", whatever follows it.
Body == [calls : Seq(Invocation), params : Seq(Word), tokens : Nat, hints : SUBSET Word,
         guards : Seq(Guard), assigns : Seq(Assignment), executors : SUBSET Word,
         tag : BOOLEAN, dollar : BOOLEAN, hash : BOOLEAN, base : Word, bound : Word,
         writes : BOOLEAN, foreign : BOOLEAN]

\* A declaration without a name is indexed as "?".
ASSUME IndexAssumption ==
  /\ Def \in [Methods -> [name : Word \ {""}, file : Word, class : Word]]
  /\ \A order \in {DefOrder, ByFile} : order \in Seq(Methods) /\ ToSet(order) = Methods
  /\ Text \in [DOMAIN Text -> Body]
  /\ Methods \subseteq DOMAIN Text
  /\ Irreversible \cap Reversible = {}
  /\ Bare \in [DOMAIN Bare -> Word]

\* What present, seen and visited are keyed by: a file has overloads of one name.
Key(d) == <<Def[d].file, Def[d].name>>

bareName(name) == IF name \in DOMAIN Bare THEN Bare[name] ELSE name

\* seen[k]: the first of each key is kept.
FirstOfEachKey(ds) == Pick(ds, Firsts([i \in DOMAIN ds |-> Key(ds[i])]))

-----------------------------------------------------------------------------
(* Lookups.                                                                *)

Resolve(name) == Pick(DefOrder, {i \in DOMAIN DefOrder : Def[DefOrder[i]].name = name})

\* The calls of a text to methods of a name.
CallsTo(text, name) == {i \in DOMAIN Text[text].calls : Text[text].calls[i].name = name}

\* One reverse edge per invocation, of which only the first counts.
Callers(name) ==
  FirstOfEachKey(Pick(DefOrder, {i \in DOMAIN DefOrder : CallsTo(DefOrder[i], name) # {}}))

CallersOf(name) == Callers(bareName(name))

\* Definitions of one name are narrowed to the receiver's class if one of them has
\* it; otherwise all of them are returned.
NarrowedTo(defs, receiver) ==
  LET same == {i \in DOMAIN defs : Def[defs[i]].class = receiver}
  IN  IF receiver # "" /\ Len(defs) > 1 /\ same # {} THEN Pick(defs, same) ELSE defs

resolveWithReceiver(call) == NarrowedTo(Resolve(call.name), call.receiver)

-----------------------------------------------------------------------------
(* The callees worth a place in the slice.                                 *)

Mentions(call, variables) == \E i \in DOMAIN call.args : call.args[i] \cap variables # {}

\* Without a taint variable every parameter of the caller is taken for tainted.
TaintSet(text, variable) ==
  IF variable # "" THEN {variable} ELSE ToSet(Text[text].params)

TaintGate(call, taintSet) == call.name \in SanitizerNames \/ Mentions(call, taintSet)

stateMutatingTier(name) ==
  CASE name \in Irreversible -> 1 [] name \in Reversible -> 2 [] OTHER -> 0

StateMutatingGate(call) == stateMutatingTier(call.name) > 0 \/ call.name \in SanitizerNames

bodyWriteSignal(text) == Text[text].writes

\* The definitions a body's calls may mean, for the calls let through.
CalledThrough(text, through) ==
  FirstOfEachKey(FlattenSeq(
    [i \in DOMAIN Text[text].calls |->
       IF i \in through /\ Text[text].calls[i].name \notin NoiseCallees
       THEN resolveWithReceiver(Text[text].calls[i]) ELSE <<>>]))

Tainted(text, taintSet) ==
  CalledThrough(text, {i \in DOMAIN Text[text].calls : TaintGate(Text[text].calls[i], taintSet)})

SanitizersFirst(ds) ==
  LET sanitizers == {i \in DOMAIN ds : Def[ds[i]].name \in SanitizerNames}
  IN  Pick(ds, sanitizers) \o Pick(ds, DOMAIN ds \ sanitizers)

ResolveCallees(text, variable) == SanitizersFirst(Tainted(text, TaintSet(text, variable)))

ResolvableCallees(text) == CalledThrough(text, DOMAIN Text[text].calls)

-----------------------------------------------------------------------------
(* The name of the tainted value in the callee.                            *)

taintArgs(call, taintSet) == {i \in DOMAIN call.args : call.args[i] \cap taintSet # {}}

\* The parameter in the place of the only tainted argument of a call among these.
ParamOf(text, variable, d, calls) ==
  LET only == {p \in DOMAIN Text[d].params : \E i \in calls :
                 taintArgs(Text[text].calls[i], TaintSet(text, variable)) = {p}}
  IN  IF only = {} THEN "" ELSE Text[d].params[CHOOSE p \in only : TRUE]

\* A seeded fault: of several calls the first is taken.
TaintParamOfFirst(text, variable, d) ==
  LET calls == CallsTo(text, Def[d].name)
  IN  ParamOf(text, variable, d, {i \in calls : \A j \in calls : i <= j})

\* Nothing is guessed when there are several calls of that name.
TaintParamFor(text, variable, d) ==
  LET calls == CallsTo(text, Def[d].name)
  IN  ParamOf(text, variable, d, {i \in calls : calls = {i}})

-----------------------------------------------------------------------------
(* Breadth-first walks, one level at a time, that end at a number of nodes. *)

\* The nodes of one more level: those expanded before add nothing.
OneMore(step, nodes) ==
  FirstOfEachKey(nodes \o FlattenSeq([i \in DOMAIN nodes |-> step[nodes[i]]]))

Walk(first, step, depth, cap) ==
  LET found == Walked([p \in Seq(Methods) \X Nat |-> OneMore(step, p[1])],
                      FirstOfEachKey(first), [level \in 1..(depth - 1) |-> level])
  IN  [found |-> Prefix(found, cap), full |-> Len(found) >= cap]

\* From the callers of the sink outwards, the nearest first.
CallersOfTransitive(name, depth, cap) ==
  Walk(CallersOf(name), [d \in Methods |-> CallersOf(Def[d].name)], depth, cap)

StateMutators(text) ==
  CalledThrough(text, {i \in DOMAIN Text[text].calls : StateMutatingGate(Text[text].calls[i])})

\* Under StateMutatingGate, the only gate it is called with.
ResolveCalleesTransitive(text, depth, cap) ==
  Walk(StateMutators(text), [d \in Methods |-> StateMutators(d)], depth, cap)

=============================================================================
