----------------------------- MODULE CallGraph -----------------------------
(***************************************************************************)
(* The call graph the taint engine keeps of a repository (store.Calls) and *)
(* the lookups its queries share (src/taint/engine/query.go, sinks.go).    *)
(*                                                                         *)
(* A method is known by its key, "Class.method(types)"; a call only names  *)
(* "Class.method".  NameOf gives the name of a key, and Label what the     *)
(* dictionaries and the mapper files say of a name.  Every key has its     *)
(* types: an initializer is "Class.<init>()", and a lambda has the key of  *)
(* the method it is written in and a suffix, so that its name is that      *)
(* method's.  The look-up of an untyped key, which some queries try first, *)
(* finds no method.                                                        *)
(***************************************************************************)
EXTENDS Naturals, Sequences, FiniteSets

CONSTANTS Methods, Names, NameOf, Label

ASSUME GraphAssumption ==
  /\ NameOf \in [Methods -> Names]
  /\ Label \in [Names -> {"none", "word", "sink", "jpa", "anno", "xml"}]

(* The kinds of call an edge can be of that the queries tell apart. *)
CallTypes == {"direct", "reflection", "proxy", "interface", "unresolved", "native"}

Dynamic == {"reflection", "proxy", "interface", "unresolved"}

Edge == [to : Names, type : CallTypes]

(* What the queries read of the store: the edges of a method, if it has an *)
(* entry, the methods defined in the repository, the callers recorded for  *)
(* a method, under a bare name (a task handed to an executor), and of a    *)
(* name without a definition, the calls that carry taint into their first  *)
(* argument, the calls a caller makes with what a method returned, the     *)
(* entry points, the test code, and the methods with a source of their     *)
(* own.  The callers are not the edges read backwards: a constructor, a    *)
(* method reference, a lambda and a call that a subclass answers write an  *)
(* edge and no caller, and a subclass takes the callers of its parent.     *)
CallStore ==
  [edges   : [Methods -> Seq(Edge)],
   listed  : SUBSET Methods,
   defined : SUBSET Methods,
   callers : [Methods -> SUBSET Methods],
   bare    : [Names -> SUBSET Methods],
   unbound : [Names -> SUBSET Methods],
   tainted : SUBSET (Methods \X Names),
   feeds   : SUBSET (Methods \X Names),
   entry   : SUBSET Methods,
   tests   : SUBSET Methods,
   sources : SUBSET Methods]

-----------------------------------------------------------------------------

(* The edges of m, none when the store has no entry for it. *)
EdgesOf(g, m) == IF m \in g.listed THEN g.edges[m] ELSE << >>

(* A call is looked up in the sink dictionary by its name, then by the     *)
(* method's word alone.  JPA's query methods are entries of it too.        *)
IsDangerousSink(n) == Label[n] \in {"sink", "jpa", "word"}

(* A mapper method whose SQL concatenates its parameters. *)
MapperSink(n) == Label[n] \in {"anno", "xml"}

(* A method that is a sink itself; the word alone does not count here.     *)
SinkSelf(m) == Label[NameOf[m]] \in {"sink", "jpa", "anno", "xml"}

(* A call of a JPA query method counts only when its SQL is tainted. *)
HarmlessQuery(g, m, n) == Label[n] = "jpa" /\ <<m, n>> \notin g.tainted

(* The edge ends in a sink. *)
HitsSink(g, m, e) ==
  \/ IsDangerousSink(e.to) /\ ~HarmlessQuery(g, m, e.to)
  \/ MapperSink(e.to)

(* The walks go on behind an edge that is no sink of any kind. *)
GoesOn(e) == ~IsDangerousSink(e.to) /\ ~MapperSink(e.to)

CallsDangerDirectly(g, m) ==
  \E i \in DOMAIN EdgesOf(g, m) : IsDangerousSink(EdgesOf(g, m)[i].to)

(* The keys a call of n may mean: every key of that name, the overloads    *)
(* and the lambdas written in them all together.                           *)
CalleeKeys(g, n) == {m \in g.listed \cup g.defined : NameOf[m] = n}

(* The methods the walk may enter from m. *)
Successors(g, m) ==
  UNION {CalleeKeys(g, EdgesOf(g, m)[i].to) :
           i \in {j \in DOMAIN EdgesOf(g, m) : GoesOn(EdgesOf(g, m)[j])}}

CallsSink(g, m) ==
  \E i \in DOMAIN EdgesOf(g, m) : HitsSink(g, m, EdgesOf(g, m)[i])

HasEdgeType(g, m, t) ==
  \E i \in DOMAIN EdgesOf(g, m) : EdgesOf(g, m)[i].type = t

(* A native call of m that carries taint. *)
TaintedNative(g, m) ==
  \E i \in DOMAIN EdgesOf(g, m) :
    /\ EdgesOf(g, m)[i].type = "native"
    /\ <<m, EdgesOf(g, m)[i].to>> \in g.tainted

-----------------------------------------------------------------------------

(* The definitions the name index has for a name. *)
Index(g, n) == {m \in g.defined : NameOf[m] = n}

Calls(g, m, n) == \E i \in DOMAIN EdgesOf(g, m) : EdgesOf(g, m)[i].to = n

(* The keys of a name under which callers are recorded, the bare name      *)
(* counted as one.                                                         *)
Signatures(g, n) ==
  Cardinality({k \in Methods : NameOf[k] = n /\ g.callers[k] # {}})
    + (IF g.bare[n] # {} THEN 1 ELSE 0)

Ambiguous(g, m) == g.callers[m] = {} /\ Signatures(g, NameOf[m]) > 1

(* The callers of a key: those recorded for it; failing that none if the   *)
(* name has several keys with callers, else those recorded under the name. *)
GetCallers(g, m) ==
  IF g.callers[m] # {}
  THEN g.callers[m]
  ELSE IF Ambiguous(g, m)
  THEN {}
  ELSE g.bare[NameOf[m]] \cup g.unbound[NameOf[m]]
=============================================================================
