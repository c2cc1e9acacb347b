--------------------------- MODULE BodyCollector ----------------------------
(***************************************************************************)
(* The second pass over one body, src/taint/engine/bodycollector.go: each  *)
(* node leaves its calls, reads, assignments and taints in the store, and  *)
(* the scopes change as the walk goes.                                     *)
(*                                                                         *)
(* The state of a walk is [s, env, cache, lambdas]: the store, the scopes, *)
(* what was judged of the expressions of this body, and the lambdas named  *)
(* so far.  The store is a record of relations with the names TaintFacts   *)
(* uses, and edges <<caller, pattern, rule, site>>, reverse and unresolved *)
(* <<callee, caller, kind>>.                                               *)
(*                                                                         *)
(* Left out: the line and the text of an entry, the validation context and *)
(* the condition of a call, which are shown and never read back; arrays    *)
(* and nested classes.  Calls have as many arguments as the method called  *)
(* has parameters, so that the memory of resolved calls changes nothing.   *)
(***************************************************************************)
EXTENDS TaintCheck, TLC

NoVia == << >>

Note(st, relation, new) == [st EXCEPT !.s[relation] = @ \cup new]

Edge(st, c, p, pattern, rule) == Note(st, "edges", {<<c.key, pattern, rule, Site(p, c)>>})

(* The context as the store stands: lambdas are registered on the way.     *)
Now(c, st) == [c EXCEPT !.named = st.s.named, !.counts = st.s.paramCounts]

IsParam(s, key, x) == \E r \in s.paramOrder : r[1] = key /\ r[2] = x

(* The type of an expression, and the walk that remembers it. *)
TypeHere(n, p, st, c) == TypeOf(n, p, st.env, c, st.cache)

SourceSet(src) == IF src = "" THEN {} ELSE {src}

RECURSIVE NodeAt(_, _)
NodeAt(n, p) == IF p = << >> THEN n ELSE NodeAt(n.kids[Head(p)], Tail(p))

-----------------------------------------------------------------------------
(* Locals, loops, resources.                                               *)

(* The entry of a local says only what its last write said.                *)
KeptLocal(s, key, x, sources) ==
  [s EXCEPT !.locals = @ \cup {<<key, x>>},
            !.localSources = {y \in @ : <<y[1], y[2]>> # <<key, x>>} \cup {<<key, x, a>> : a \in sources}]

(* inheritReturnFieldTaint: the callee is a method of that name whose      *)
(* result passes fields on, whichever class and signature the range over   *)
(* the map meets first; the argument is the first identifier.              *)
InheritReturnFields(st, x, call, c) ==
  LET i == SelectInSeq(Args(call), LAMBDA a : a.k = "id")
      passing == {r \in st.s.returnFieldTaint : r[1][2] = call.n}
      said(m) == m[1] \o m[3]
      callee == AnyOf({said(r[1]) : r \in passing}, c)
      inherited == {<<r[2], FieldTaint(st.env, Args(call)[i].n, r[3])>> : r \in {y \in passing : said(y[1]) = callee}}
  IN  IF call.k # "call" \/ i = 0 \/ passing = {} THEN st
      ELSE [st EXCEPT !.env = FoldSet(LAMBDA f, env : SetFieldTaint(env, x, f[1], f[2]), @,
                                      {f \in inherited : f[2] # ""})]

(* The type of a local: that of its value when it is declared var. *)
InferredType(n, p, st, c) ==
  IF n.t[1] = "var" /\ n.kids # << >> THEN TypeHere(n.kids[1], Append(p, 1), st, c)
  ELSE Typing("", st.cache)

(* x is defined with what its value, judged r, carries. *)
Defined(x, type, r, st) == [st EXCEPT !.env = Define(@, x, type, SourceSet(r.src)), !.cache = r.cache]

(* The call whose result the local x takes. *)
TakenFrom(class, x, call, st, c) ==
  InheritReturnFields(
    Note([st EXCEPT !.cache = class.cache], "returnToLocal",
         {<<callee, c.key, x>> : callee \in {CalleeIn(class.type, call, c)} \ {NoKey}}), x, call, c)

FromCall(x, call, p, st, c) == TakenFrom(ReceiverClass(call, p, st.env, c, st.cache), x, call, st, c)

DefinedLocal(n, type, r, st, c) ==
  [Defined(n.n, type, r, st) EXCEPT !.s = KeptLocal(@, c.key, n.n, SourceSet(r.src))]

Initialised(n, p, inferred, st, c) ==
  LET type == IF inferred.type = "" THEN n.t ELSE <<inferred.type, "">>
      value == Append(p, 1)
      defined == DefinedLocal(n, type, Check(n.kids[1], value, st.env, c, inferred.cache), st, c)
  IN  IF n.kids[1].k = "call" THEN FromCall(n.n, n.kids[1], value, defined, c) ELSE defined

HandleLocal(n, p, st, c) ==
  IF n.kids = << >> THEN DefinedLocal(n, n.t, Clean(st.cache), st, c)
  ELSE Initialised(n, p, InferredType(n, p, st, c), st, c)

HandleForEach(n, p, st, c) == Defined(n.n, n.t, Check(n.kids[1], Append(p, 1), st.env, c, st.cache), st)

HandleCatch(n, p, st, c) == [st EXCEPT !.env = Define(@, n.n, n.t, {})]

Resource(x, r, st) ==
  [st EXCEPT !.env = Define(@, x, <<IF r.type = "" THEN "AutoCloseable" ELSE r.type, "">>, {}), !.cache = r.cache]

HandleTry(n, p, st, c) ==
  FoldLeft(LAMBDA x, i : Resource(n.kids[i].n, TypeHere(n.kids[i].kids[1], p \o <<i, 1>>, x, c), x),
           st, SelectSeq([i \in DOMAIN n.kids |-> i], LAMBDA i : n.kids[i].k = "resource"))

-----------------------------------------------------------------------------
(* What a method returns.                                                  *)

RECURSIVE ReturnedNames(_, _)
ReturnedNames(n, c) ==
  CASE n.k = "id" -> {n.n}
    [] n.k = "field" -> IF ThisOrClass(n.kids[1], c) THEN {n.n} ELSE {}
    [] OTHER -> UNION {ReturnedNames(n.kids[i], c) : i \in DOMAIN n.kids}

RECURSIVE ReturnedFields(_, _, _)
ReturnedFields(n, env, c) ==
  CASE n.k = "field" -> IF ThisOrClass(n.kids[1], c) THEN {<<c.class, n.n>>} ELSE {}
    [] n.k = "id" -> IF <<c.class, n.n>> \in DOMAIN c.t.fieldTypes /\ ~Typed(env, n.n)
                     THEN {<<c.class, n.n>>} ELSE {}
    [] n.k = "call" -> {}
    [] OTHER -> UNION {ReturnedFields(n.kids[i], env, c) : i \in DOMAIN n.kids}

(* The fields known of a returned local, in the innermost frame only.      *)
ReturnedParts(st, x, c) ==
  LET fields == At(st.env[1], x, Unknown).fields
  IN  [st EXCEPT !.s.returnFieldTaint =
         {r \in @ : ~(r[1] = c.key /\ r[2] \in DOMAIN fields)} \cup {<<c.key, f, fields[f]>> : f \in DOMAIN fields}]

ReturnedLocal(n, env) ==
  CASE n.k = "id" /\ Typed(env, n.n) -> {n.n}
    [] n.k = "call" /\ n.kids[1].k = "id" /\ Typed(env, n.kids[1].n) -> {n.kids[1].n}
    [] OTHER -> {}

Returned(r, st, c) ==
  [Note(st, "returnTaints", {<<c.key, src>> : src \in SourceSet(r.src)}) EXCEPT !.cache = r.cache]

HandleReturn(n, p, st, c) ==
  LET e == n.kids[1]
      s1 == Note(st, "paramToReturn",
                 {<<c.key, x>> : x \in {y \in ReturnedNames(e, c) : IsParam(st.s, c.key, y)}})
      s2 == Note(s1, "returnFields", {<<c.key, f>> : f \in ReturnedFields(e, st.env, c)})
      s3 == Note(s2, "localReturn", {<<c.key, x>> : x \in ReturnedLocal(e, st.env)})
      s4 == IF e.k = "id" /\ Typed(st.env, e.n) THEN ReturnedParts(s3, e.n, c) ELSE s3
  IN  IF n.kids = << >> THEN st ELSE Returned(Check(e, Append(p, 1), st.env, c, st.cache), s4, c)

-----------------------------------------------------------------------------
(* Calls.                                                                  *)

Stdlib == {"Object", "String", "System", "Runtime", "File", "List", "Map", "Set", "StringBuilder", "Thread"}
KnownSinks == {<<"Runtime", "exec">>, <<"EntityManager", "createQuery">>}
EventPublish == {"publishEvent", "publish", "sendEvent"}
CollectionMethods == {"add", "addAll", "put", "putAll", "set", "offer", "push", "addFirst", "addLast", "replace"}

Reflective(class, m) ==
  CASE class = "Method" /\ m = "invoke" -> "reflection"
    [] class = "Constructor" /\ m = "newInstance" -> "reflection"
    [] class = "Proxy" /\ m = "newProxyInstance" -> "dynamic_proxy"
    [] OTHER -> ""

KindOfResolved(class, m, c) ==
  CASE Reflective(class, m) # "" -> Reflective(class, m)
    [] Reflective(class, m) = "" /\ ToSet(c.named[<<class, m>>]) \cap c.t.native # {} -> "native"
    [] OTHER -> "direct"

KindOfUnresolved(class, m, c) ==
  LET anns == At(c.t.anns, class, {})
  IN  CASE Reflective(class, m) # "" -> Reflective(class, m)
        [] Reflective(class, m) = "" /\ "FeignClient" \in anns -> "rpc_feign"
        [] Reflective(class, m) = "" /\ "FeignClient" \notin anns
             /\ anns \cap {"DubboService", "DubboReference", "Reference"} # {} -> "rpc_dubbo"
        [] OTHER -> IF class \in Stdlib THEN "stdlib"
                    ELSE IF At(c.impls, class, {}) # {} THEN "interface"
                    ELSE "unresolved"

(* The text of an expression up to its first dot. *)
RECURSIVE FirstName(_)
FirstName(n) ==
  CASE n.k = "id" -> n.n
    [] n.k \in {"call", "field"} /\ n.kids[1].k # "none" -> FirstName(n.kids[1])
    [] OTHER -> ""

(* A receiver of unknown type stands for a class a sink is known of.       *)
SinkClass(class, n) ==
  LET first == FirstName(n.kids[1])
  IN  IF class = "" /\ n.kids[1].k # "id" /\ <<first, n.n>> \in KnownSinks THEN first ELSE class

CalleeClass(n, p, st, c) ==
  LET r == ReceiverClass(n, p, st.env, c, st.cache) IN [r EXCEPT !.type = SinkClass(@, n)]

Published(n, st, c) ==
  IF n.n \notin EventPublish THEN st
  ELSE Note(st, "published",
            {<<c.key, a.t[1]>> : a \in {x \in ToSet(Args(n)) : x.k = "new"}})

Handlers(n, p, st, c) ==
  LET i == SelectInSeq(Args(n), LAMBDA a : a.k = "text")
  IN  IF n.n = "addResourceHandler" /\ i # 0
      THEN Note(st, "handlers", {<<c.class, Args(n)[i].n, Site(p, c)>>}) ELSE st

CallEdges(n, p, class, st, c) ==
  LET pattern == <<class, n.n>>
      found == At(c.named, pattern, << >>)
      edge == Edge(st, c, p, pattern, "direct")
  IN  CASE class = "" -> st
        [] class # "" /\ found # << >> ->
             Note(edge, "reverse", {<<m, c.key, KindOfResolved(class, n.n, c)>> : m \in ToSet(found)})
        [] OTHER ->
             Note(edge, "unresolved", {<<pattern, c.key, KindOfUnresolved(class, n.n, c)>>})

(* Every argument is judged; what a tainted one is passed on to is noted   *)
(* as a flow of the parameter only when it is a plain name.                *)
ArgumentTaint(r, n, i, class, st, c) ==
  LET arg == n.kids[i + 1]
      y == [st EXCEPT !.cache = r.cache]
      z == Note(y, "callParamTaints", {<<<<class, n.n>>, i - 1, r.src>>})
  IN  IF r.src = "" \/ class = "" THEN y
      ELSE IF arg.k = "id" THEN Note(z, "paramToCallParam", {<<c.key, arg.n, <<class, n.n>>, i - 1>>})
      ELSE z

ArgumentTaints(n, p, class, st, c) ==
  FoldLeft(LAMBDA x, i :
             ArgumentTaint(Check(n.kids[i + 1], Append(p, i + 1), x.env, c, x.cache), n, i, class, x, c),
           st, [i \in 1 .. Len(n.kids) - 1 |-> i])

(* An argument whose class is a task runs: the method is looked up by its  *)
(* name, and the reverse edge is kept under the name too.                  *)
Dispatch(r, p, st, c) ==
  LET task == ToSet(At(c.t.interfaces, r.type, << >>)) \cap {"Runnable", "Callable"} # {}
      runs == {x \in {r.type} \X {"run", "call"} : task /\ At(c.named, x, << >>) # << >>}
  IN  [st EXCEPT !.s.edges = @ \cup {<<c.key, x, "async", Site(p, c)>> : x \in runs},
                 !.s.reverse = @ \cup {<<<<x[1], x[2], "">>, c.key, "async">> : x \in runs},
                 !.cache = r.cache]

AsyncDispatch(n, p, st, c) ==
  FoldLeft(LAMBDA x, i : Dispatch(TypeHere(n.kids[i + 1], Append(p, i + 1), x, c), p, x, c),
           st, [i \in 1 .. Len(n.kids) - 1 |-> i])

Added(r, obj, st, c) ==
  LET checked == [st EXCEPT !.cache = r.cache]
  IN  IF r.src # "" /\ obj.k = "field" /\ ThisOrClass(obj.kids[1], c)
      THEN Note(checked, "fieldTaints", {<<<<c.class, obj.n>>, "USER_INPUT", r.src, NoVia>>})
      ELSE checked

CollectionAdd(n, p, st, c) ==
  IF n.n \notin CollectionMethods \/ n.kids[1].k = "none" THEN st
  ELSE Added(CheckArgs(n, p, st.env, c, st.cache), n.kids[1], st, c)

CallTo(class, n, p, st, c) ==
  ArgumentTaints(n, p, class.type, CallEdges(n, p, class.type, [st EXCEPT !.cache = class.cache], c), c)

HandleCall(n, p, st, c) ==
  LET s1 == Handlers(n, p, Published(n, st, c), c)
      s2 == CallTo(CalleeClass(n, p, s1, c), n, p, s1, c)
  IN  CollectionAdd(n, p, AsyncDispatch(n, p, s2, c), c)

HandleNew(n, p, st, c) == Edge(st, c, p, <<n.t[1], "<init>">>, "init")

HandleCtorCall(n, p, st, c) ==
  Edge(st, c, p, <<IF n.n = "this" THEN c.class ELSE ParentClass(c.class, c), "<init>">>, "init")

HandleMethodReference(n, p, st, c) ==
  LET r == TypeHere(n.kids[1], Append(p, 1), st, c)
  IN  Edge([st EXCEPT !.cache = r.cache], c, p, <<IF r.type = "" THEN c.class ELSE r.type, n.n>>, "reference")

-----------------------------------------------------------------------------
(* Assignments.                                                            *)

IsField(c, x) == <<c.class, x>> \in DOMAIN c.t.fieldTypes

(* extractThisField, on the left of an assignment. *)
AssignedField(n, c) ==
  LET left == n.kids[1]
  IN  CASE left.k = "field" /\ ThisOrClass(left.kids[1], c) -> left.n
        [] left.k = "id" /\ n.n = "=" /\ IsField(c, left.n) -> left.n
        [] OTHER -> ""

RECURSIVE NamesIn(_)
NamesIn(n) ==
  (IF n.k \in {"id", "call", "field"} \cup Naming THEN {n.n} ELSE {})
  \cup UNION {NamesIn(n.kids[i]) : i \in DOMAIN n.kids}

(* ifBranchTaintCondVars: the tainted names in the conditions around.      *)
ControlDeps(p, st, c) ==
  LET ifs == {NodeAt(c.root, SubSeq(p, 1, i)) : i \in 0 .. Len(p) - 1}
      names == UNION {NamesIn(n.kids[1]) : n \in {x \in ifs : x.k = "if"}}
  IN  {x \in names : \/ Lookup(st.env, x).taint # {}
                     \/ \E r \in st.s.paramTaints : r[1] = c.key /\ r[2] = x}

WrittenLocal(x, r, p, st, c) ==
  LET sources == IF r.src # "" THEN {r.src} ELSE {"CONTROL_DEP:" \o v : v \in ControlDeps(p, st, c)}
  IN  [st EXCEPT !.env = Reassign(@, x, sources), !.cache = r.cache, !.s = KeptLocal(@, c.key, x, sources)]

AssignLocal(n, p, st, c) ==
  LET x == n.kids[1].n
      right == n.kids[2]
  IN  IF ~Typed(st.env, x) THEN st
      ELSE InheritReturnFields(WrittenLocal(x, Check(right, Append(p, 2), st.env, c, st.cache), p, st, c), x, right, c)

(* d.f = s.g notes the name g, not whether s.g carries anything.           *)
WrittenPart(d, field, r, st) ==
  [st EXCEPT !.cache = r.cache, !.env = IF r.src = "" THEN @ ELSE SetFieldTaint(@, d, field, r.src)]

AssignPart(n, p, st, c) ==
  LET left == n.kids[1]
      d == left.kids[1]
      right == n.kids[2]
  IN  CASE d.k # "id" \/ ~Typed(st.env, d.n) -> st
        [] d.k = "id" /\ Typed(st.env, d.n) /\ right.k = "field" ->
             [st EXCEPT !.env = SetFieldTaint(@, d.n, left.n, right.n)]
        [] OTHER -> WrittenPart(d.n, left.n, Check(right, Append(p, 2), st.env, c, st.cache), st)

FromField(owner, right, field, st, c) ==
  Note([st EXCEPT !.cache = owner.cache], "fieldEdges",
       IF ThisOrClass(right.kids[1], c) \/ <<owner.type, right.n>> \in DOMAIN c.t.fieldTypes
       THEN {<<<<owner.type, right.n>>, field>>} ELSE {})

FromCallSite(class, right, field, p, st, c) ==
  Note([st EXCEPT !.cache = class.cache], "callSites",
       {[field |-> field, caller |-> c.key, callee |-> CalleeIn(class.type, right, c),
         pattern |-> <<class.type, right.n>>, args |-> Len(Args(right)), line |-> Site(p, c)]})

(* Where the value of a field comes from: a name, another field, a call.   *)
FieldOrigins(n, p, field, st, c) ==
  LET right == n.kids[2]
      value == Append(p, 2)
  IN  CASE right.k = "id" ->
             Note(Note(st, "localToField", {<<c.key, right.n, field>>}),
                  "paramToField", IF IsParam(st.s, c.key, right.n) THEN {<<c.key, right.n, field>>} ELSE {})
        [] right.k = "field" ->
             FromField(IF ThisOrClass(right.kids[1], c) THEN Typing(c.class, st.cache)
                       ELSE TypeHere(right.kids[1], Append(value, 1), st, c), right, field, st, c)
        [] right.k = "call" ->
             FromCallSite(ReceiverClass(right, value, st.env, c, st.cache), right, field, p, st, c)
        [] OTHER -> st

WrittenField(field, r, p, st, c) ==
  Note(Note([st EXCEPT !.cache = r.cache], "assignments", {<<field, c.key, Site(p, c)>>}),
       "fieldTaints", {<<field, "USER_INPUT", src, NoVia>> : src \in SourceSet(r.src)})

AssignField(n, p, st, c) ==
  LET field == <<c.class, AssignedField(n, c)>>
  IN  FieldOrigins(n, p, field, WrittenField(field, Check(n.kids[2], Append(p, 2), st.env, c, st.cache), p, st, c), c)

HandleAssign(n, p, st, c) ==
  CASE AssignedField(n, c) # "" -> AssignField(n, p, st, c)
    [] AssignedField(n, c) = "" /\ n.kids[1].k = "id" -> AssignLocal(n, p, st, c)
    [] AssignedField(n, c) = "" /\ n.kids[1].k = "field" -> AssignPart(n, p, st, c)
    [] OTHER -> st

(* ++ and -- of a field: of this, or a plain name no local hides.          *)
HandleUpdate(n, p, st, c) ==
  LET x == n.kids[1]
      field == <<c.class, x.n>>
  IN  IF IsField(c, x.n) /\ \/ x.k = "field" /\ ThisOrClass(x.kids[1], c)
                            \/ x.k = "id" /\ ~Typed(st.env, x.n)
      THEN Note(Note(st, "assignments", {<<field, c.key, Site(p, c)>>}), "reads", {<<field, c.key>>})
      ELSE st

HandleFieldAccess(n, st, c) ==
  IF ThisOrClass(n.kids[1], c) THEN Note(st, "reads", {<<<<c.class, n.n>>, c.key>>}) ELSE st

(* A plain name read; those that are part of a larger access are skipped.  *)
HandleName(n, p, st, c) ==
  LET parent == NodeAt(c.root, Front(p))
      skipped == \/ p = << >>
                 \/ parent.k \in {"field", "local", "resource", "assign", "update"}
                 \/ parent.k = "call" /\ Last(p) = 1
  IN  IF ~skipped /\ IsField(c, n.n) /\ ~Typed(st.env, n.n)
      THEN Note(st, "reads", {<<<<c.class, n.n>>, c.key>>}) ELSE st

-----------------------------------------------------------------------------
(* Lambdas.                                                                *)

StreamChain == {"map", "filter", "flatMap", "peek", "forEach"}
CallbackChain == {"ifPresent", "ifPresentOrElse", "thenAccept", "thenAcceptAsync", "thenRun", "whenComplete"}

(* streamChainSourceNode: the path of the first argument of the call the   *)
(* chain begins with, or none.                                             *)
RECURSIVE StreamSource(_, _)
StreamSource(call, p) ==
  LET obj == call.kids[1]
  IN  CASE obj.k # "call" -> << >>
        [] obj.k = "call" /\ obj.n \in {"of", "stream"} ->
             IF Args(obj) = << >> THEN << >> ELSE p \o <<1, 2>>
        [] OTHER -> StreamSource(obj, Append(p, 1))

(* lambdaInheritedSource: what the elements handed to the lambda carry.    *)
LambdaSource(p, st, c) ==
  LET up == Front(p)
      call == NodeAt(c.root, up)
      from == IF call.n \in StreamChain THEN StreamSource(call, up) ELSE Append(up, 1)
  IN  IF \/ p = << >> \/ call.k # "call" \/ Last(p) = 1
         \/ call.n \notin StreamChain \cup CallbackChain \/ from = << >>
      THEN Clean(st.cache)
      ELSE Check(NodeAt(c.root, from), from, st.env, c, st.cache)

RegisteredLambda(s, key) ==
  [s EXCEPT !.named = Registered(@, key), !.paramCounts = @ \cup {<<key, 0>>},
            !.synthetic = @ \cup {key}]

RECURSIVE Visit(_, _, _, _)

(* The parameter carries what the upstream elements do. *)
BoundLambda(x, r, st, c) ==
  IF x.k = "none" THEN [st EXCEPT !.cache = r.cache]
  ELSE Note(Defined(x.n, <<"Object", "">>, r, st), "paramOrder", {<<c.key, x.n, 0>>})

LambdaBody(n, p, r, st, c) ==
  LET walked == Visit(n.kids[2], Append(p, 2), BoundLambda(n.kids[1], r, st, c), c)
  IN  [walked EXCEPT !.env = Tail(@)]

(* A lambda is a method of its own, named after the one around it and      *)
(* indexed under its name; the same node keeps its name in later walks.    *)
HandleLambda(n, p, st, c) ==
  LET known == SelectInSeq(st.lambdas, LAMBDA x : x.at = Site(p, c))
      fresh == <<c.key[1], c.key[2], c.key[3] \o "$lambda$" \o ToString(Len(st.lambdas) + 1)>>
      key == IF known = 0 THEN fresh ELSE st.lambdas[known].key
      named == [Edge(st, c, p, <<c.class, c.key[2]>>, "lambda") EXCEPT
                  !.lambdas = IF known = 0 THEN Append(@, [at |-> Site(p, c), key |-> fresh]) ELSE @,
                  !.s = RegisteredLambda(@, key),
                  !.env = << << >> >> \o @]
  IN  LambdaBody(n, p, LambdaSource(p, st, c), named, [c EXCEPT !.key = key])

Handle(n, p, st, c) ==
  CASE n.k = "local" -> HandleLocal(n, p, st, c)
    [] n.k = "foreach" -> HandleForEach(n, p, st, c)
    [] n.k = "catch" -> HandleCatch(n, p, st, c)
    [] n.k = "try" -> HandleTry(n, p, st, c)
    [] n.k = "return" -> HandleReturn(n, p, st, c)
    [] n.k = "call" -> HandleCall(n, p, st, c)
    [] n.k = "new" -> HandleNew(n, p, st, c)
    [] n.k = "ctorcall" -> HandleCtorCall(n, p, st, c)
    [] n.k = "mref" -> HandleMethodReference(n, p, st, c)
    [] n.k = "assign" -> HandleAssign(n, p, st, c)
    [] n.k = "update" -> HandleUpdate(n, p, st, c)
    [] n.k = "field" -> HandleFieldAccess(n, st, c)
    [] n.k = "id" -> HandleName(n, p, st, c)
    [] n.k = "lambda" -> HandleLambda(n, p, st, c)
    [] OTHER -> st

Scoped == {"for", "block", "try", "catch"}

Left(n, st) == IF n.k \in Scoped THEN [st EXCEPT !.env = Tail(@)] ELSE st

(* visitIterative: a node before its children; a lambda walks its own.     *)
Visit(n, p, st, c) ==
  LET entered == IF n.k \in Scoped THEN [st EXCEPT !.env = << << >> >> \o @] ELSE st
  IN  Left(n, FoldLeft(LAMBDA x, i : Visit(n.kids[i], Append(p, i), x, c),
                       Handle(n, p, entered, Now(c, entered)),
                       IF n.k = "lambda" THEN << >> ELSE [i \in DOMAIN n.kids |-> i]))

-----------------------------------------------------------------------------
(* PropagateCtorParamTaint: what a tainted parameter of a constructor is   *)
(* stored in, read off the whole body before it is walked.                 *)

RECURSIVE RefersTo(_, _)
RefersTo(n, x) ==
  \/ n.k = "id" /\ n.n = x
  \/ \E i \in DOMAIN n.kids : ~(n.k = "ternary" /\ i = 1) /\ RefersTo(n.kids[i], x)

RECURSIVE Mentions(_, _)
Mentions(n, x) ==
  \/ n.k \in {"id", "field"} /\ n.n = x
  \/ \E i \in DOMAIN n.kids : ~(n.k = "call" /\ i = 1) /\ Mentions(n.kids[i], x)

RECURSIVE StoredFrom(_, _, _)
StoredFrom(n, x, c) ==
  (IF n.k = "assign" /\ n.n = "=" /\ RefersTo(n.kids[2], x) /\ AssignedField(n, c) # ""
   THEN {<<c.class, AssignedField(n, c)>>} ELSE {})
  \cup (IF /\ n.k = "call" /\ n.n \in CollectionMethods
           /\ n.kids[1].k = "field" /\ ThisOrClass(n.kids[1].kids[1], c)
           /\ \E i \in DOMAIN Args(n) : Mentions(Args(n)[i], x)
        THEN {<<c.class, n.kids[1].n>>} ELSE {})
  \cup UNION {StoredFrom(n.kids[i], x, c) : i \in DOMAIN n.kids}

CtorTaints(st, body, c) ==
  Note(st, "fieldTaints",
       UNION {{<<f, IF r[3] = "CONFIG_VALUE" THEN "CONFIG_VALUE" ELSE "USER_INPUT", r[3], NoVia>> :
                 f \in StoredFrom(body, r[2], c)}
              : r \in {y \in st.s.paramTaints : y[1] = c.key}})
=============================================================================
