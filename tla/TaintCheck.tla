----------------------------- MODULE TaintCheck -----------------------------
(***************************************************************************)
(* Names, types and taints inside one method body: the scopes and the type *)
(* inference of src/taint/engine/typeresolver.go and the check of an       *)
(* expression, src/taint/engine/checker.go.                                *)
(*                                                                         *)
(* A body is a tree of nodes [k, n, t, kids]: the kind, the name or        *)
(* operator, the type it writes, the children.  A call has its receiver    *)
(* ("none" when there is none) and its arguments as children, a field      *)
(* access its object, a lambda its parameter and its body.  A node is      *)
(* known by its path from the root of the body, which stands for the line  *)
(* and the byte range: every node of a body has its own.                   *)
(*                                                                         *)
(* A scope chain is a sequence of frames, innermost first; a frame maps a  *)
(* variable to its type, the sources it carries and those of its fields.   *)
(* A context c is [t, named, counts, file, class, key, unit, root, pick]:  *)
(* the types and indices of the first pass, where we are, the body, and    *)
(* what a walk over a map meets first, when it is there.                   *)
(*                                                                         *)
(* A cache is [judged, types]: what was judged of the expressions of this  *)
(* body, and the types the whole scan has inferred so far                  *)
(* (typeResolveCache, taken as never full: it holds 100000).               *)
(***************************************************************************)
EXTENDS TypeStore

Node(k, n, t, kids) == [k |-> k, n |-> n, t |-> t, kids |-> kids]

Unknown == [type |-> NoType, taint |-> {}, fields |-> << >>]

Bind(frame, x, v) == [y \in DOMAIN frame \cup {x} |-> IF y = x THEN v ELSE frame[y]]

Define(env, x, type, sources) ==
  [env EXCEPT ![1] = Bind(@, x, [type |-> type, taint |-> sources, fields |-> << >>])]

(* Only the innermost frame is looked at and written: a variable of an     *)
(* outer one gets a second entry there, which has no type.                 *)
Reassign(env, x, sources) ==
  LET v == At(env[1], x, Unknown)
  IN  [env EXCEPT ![1] = Bind(@, x, [v EXCEPT !.taint = @ \cup sources])]

SetFieldTaint(env, x, field, source) ==
  LET v == At(env[1], x, Unknown)
  IN  [env EXCEPT ![1] = Bind(@, x, [v EXCEPT !.fields = Bind(@, field, source)])]

Lookup(env, x) ==
  LET i == SelectInSeq(env, LAMBDA frame : x \in DOMAIN frame)
  IN  IF i = 0 THEN Unknown ELSE env[i][x]

Typed(env, x) == Lookup(env, x).type[1] # ""

FieldTaint(env, x, field) ==
  LET i == SelectInSeq(env, LAMBDA frame : x \in DOMAIN frame /\ field \in DOMAIN frame[x].fields)
  IN  IF i = 0 THEN "" ELSE env[i][x].fields[field]

-----------------------------------------------------------------------------

ParentClass(class, c) == At(c.t.extends, class, class)

ThisOrClass(obj, c) == obj.k = "this" \/ (obj.k = "id" /\ obj.n = c.class)

Args(n) == Tail(n.kids)

(* Return types of the library the code takes for granted. *)
JdkReturns(class, m) ==
  CASE class = "String" /\ m \in {"trim", "concat", "substring"} -> "String"
    [] class = "StringBuilder" /\ m = "append" -> "StringBuilder"
    [] class = "List" /\ m = "get" -> "Object"
    [] class = "List" /\ m = "stream" -> "Stream"
    [] OTHER -> ""

(* An Object, or T, taken out of a field with a type argument has the type *)
(* of the argument.                                                        *)
Element(ret, obj, c) ==
  LET field == <<c.class, obj.n>>
  IN  IF /\ ret \in {"Object", "T"} /\ obj.k = "id"
         /\ field \in DOMAIN c.t.fieldTypes /\ c.t.fieldTypes[field][2] # ""
      THEN c.t.fieldTypes[field][2] ELSE ret

Site(p, c) == <<c.file, c.unit, p>>

Typing(type, cache) == [type |-> type, cache |-> cache]

RECURSIVE TypeOf(_, _, _, _, _)

ReceiverClass(n, p, env, c, cache) ==
  CASE n.kids[1].k = "none" -> Typing(c.class, cache)
    [] n.kids[1].k = "super" -> Typing(ParentClass(c.class, c), cache)
    [] OTHER -> TypeOf(n.kids[1], Append(p, 1), env, c, cache)

CallType(class, n, c) ==
  LET found == At(c.named, <<class, n.n>>, << >>)
      best == BestMatch(found, c.counts, Len(Args(n)))
  IN  CASE class = "" -> ""
        [] class # "" /\ found # << >> /\ best \in DOMAIN c.t.returns ->
             Element(c.t.returns[best][1], n.kids[1], c)
        [] OTHER -> Element(JdkReturns(class, n.n), n.kids[1], c)

NameType(x, env, c) ==
  LET imports == At(c.t.imports, c.file, << >>)
  IN  IF x \in DOMAIN imports
      THEN IF x \in c.t.ambiguous THEN x ELSE imports[x]
      ELSE IF Typed(env, x) THEN Lookup(env, x).type[1]
      ELSE At(c.t.fieldTypes, <<c.class, x>>, <<x, "">>)[1]

FieldTyping(r, x, c) == [r EXCEPT !.type = FieldTypeIn(c.t, @, x)[1]]

CallTyping(r, n, c) == [r EXCEPT !.type = CallType(@, n, c)]

(* resolveTypeImpl. *)
Inferred(n, p, env, c, cache) ==
  CASE n.k = "id" -> Typing(NameType(n.n, env, c), cache)
    [] n.k \in {"new", "cast"} -> Typing(n.t[1], cache)
    [] n.k = "field" ->
         FieldTyping(IF ThisOrClass(n.kids[1], c) THEN Typing(c.class, cache)
                     ELSE TypeOf(n.kids[1], Append(p, 1), env, c, cache), n.n, c)
    [] n.k = "call" -> CallTyping(ReceiverClass(n, p, env, c, cache), n, c)
    [] n.k = "paren" -> TypeOf(n.kids[1], Append(p, 1), env, c, cache)
    [] n.k = "ternary" -> TypeOf(n.kids[2], Append(p, 2), env, c, cache)
    [] OTHER -> Typing("", cache)

KeptType(r, site) == [r EXCEPT !.cache.types = Bind(@, site, r.type)]

(* ResolveType: a name is typed anew each time, any other expression keeps *)
(* the type it was first given, whatever the scopes were then.             *)
TypeOf(n, p, env, c, cache) ==
  CASE n.k = "id" -> Inferred(n, p, env, c, cache)
    [] n.k # "id" /\ Site(p, c) \in DOMAIN cache.types -> Typing(cache.types[Site(p, c)], cache)
    [] OTHER -> KeptType(Inferred(n, p, env, c, cache), Site(p, c))

(* The method a call is resolved to in the hierarchy of its receiver.      *)
CalleeIn(class, n, c) ==
  IF class = "" THEN NoKey ELSE ResolveMethod(c.t, c.named, c.counts, class, n.n, Len(Args(n)))

-----------------------------------------------------------------------------
(* Check: what of a source an expression carries, "" for nothing, and what *)
(* is remembered of its parts.                                             *)

RequestClasses == {"HttpServletRequest", "ServletRequest", "Request", "MultipartFile", "ResponseEntity"}

SourceMethods == {"getParameter", "getHeader", "getQueryString", "getInputStream", "getReader", "getCookie",
                  "getParameterValues", "readValue", "getBody", "getenv", "getProperty"}

Controllers == {"Controller", "RestController"}

CollectionAccess == {"get", "poll", "remove", "peek", "element", "next", "iterator", "stream",
                     "keySet", "values", "entrySet"}

Sanitizers == {<<"URLEncoder", "encode">>, <<"URLDecoder", "decode">>, <<"Encode", "forHtml">>,
               <<"HtmlUtils", "escape">>, <<"Validator", "sanitize">>}

UniversalSanitizers == {"encodeForHTML", "encodeForSQL", "htmlEscape"}

IsSanitizer(name, class) == <<class, name>> \in Sanitizers \/ name \in UniversalSanitizers

(* The source a call is by itself, given the class of what it is called on. *)
SourceOfCall(n, class, c) ==
  CASE n.n \notin SourceMethods -> ""
    [] n.n \in SourceMethods /\ class \in RequestClasses -> n.n
    [] n.n \in {"getenv", "getProperty"} /\ class = "System" -> "System." \o n.n
    [] n.n \in SourceMethods /\ n.kids[1].k = "none"
         /\ At(c.t.anns, c.class, {}) \cap Controllers # {} -> n.n
    [] OTHER -> ""

(* One of several: the range over a map stops at the first.                *)
AnyOf(S, c) == IF c.pick \in S THEN c.pick ELSE CHOOSE s \in S : TRUE

SourceIn(S, c) == IF S = {} THEN "" ELSE AnyOf(S, c)

Clean(cache) == [src |-> "", cache |-> cache]

RECURSIVE Check(_, _, _, _, _)

(* The first of some children that carries a source; the rest is not read. *)
RECURSIVE CheckFirst(_, _, _, _, _, _)
FirstOf(r, n, rest, p, env, c) == IF r.src # "" THEN r ELSE CheckFirst(n, rest, p, env, c, r.cache)

CheckFirst(n, which, p, env, c, cache) ==
  IF which = << >> THEN Clean(cache)
  ELSE FirstOf(Check(n.kids[Head(which)], Append(p, Head(which)), env, c, cache), n, Tail(which), p, env, c)

CheckArgs(n, p, env, c, cache) ==
  CheckFirst(n, [i \in 1 .. Len(n.kids) - 1 |-> i + 1], p, env, c, cache)

(* A call is judged by what it is itself, by its receiver, which is enough *)
(* for an access to a collection, and by its arguments, unless it cleans   *)
(* them; its class is asked for before the first and after the last.       *)
Sanitized(class, obj, args, n) ==
  [src |-> IF obj.src # "" \/ IsSanitizer(n.n, class.type) THEN obj.src ELSE args.src, cache |-> class.cache]

WithClass(n, p, env, c, cache) ==
  IF n.kids[1].k = "none" THEN Typing("", cache) ELSE ReceiverClass(n, p, env, c, cache)

AfterArgs(args, obj, n, p, env, c) == Sanitized(WithClass(n, p, env, c, args.cache), obj, args, n)

AfterReceiver(obj, n, p, env, c) ==
  IF obj.src # "" /\ n.n \in CollectionAccess THEN obj
  ELSE AfterArgs(CheckArgs(n, p, env, c, obj.cache), obj, n, p, env, c)

AfterSource(class, n, p, env, c) ==
  LET own == SourceOfCall(n, class.type, c)
  IN  IF own # "" THEN [src |-> own, cache |-> class.cache]
      ELSE AfterReceiver(Check(n.kids[1], Append(p, 1), env, c, class.cache), n, p, env, c)

CheckCall(n, p, env, c, cache) ==
  AfterSource(IF n.n \in SourceMethods THEN WithClass(n, p, env, c, cache) ELSE Typing("", cache), n, p, env, c)

FieldOf(obj, n, env) ==
  IF obj.src # "" \/ n.kids[1].k # "id" THEN obj ELSE [obj EXCEPT !.src = FieldTaint(env, n.kids[1].n, n.n)]

CheckField(n, p, env, c, cache) == FieldOf(Check(n.kids[1], Append(p, 1), env, c, cache), n, env)

(* Nodes whose declared or referenced name is a child like any other.      *)
Naming == {"local", "foreach", "resource", "mref"}

Judge(n, p, env, c, cache) ==
  CASE n.k = "id" -> [src |-> SourceIn(Lookup(env, n.n).taint, c), cache |-> cache]
    [] n.k = "call" -> CheckCall(n, p, env, c, cache)
    [] n.k = "field" -> CheckField(n, p, env, c, cache)
    [] n.k = "binary" /\ n.n = "cmp" -> Clean(cache)
    [] n.k = "unary" /\ n.n = "!" -> Clean(cache)
    [] n.k \in Naming /\ Lookup(env, n.n).taint # {} ->
         [src |-> SourceIn(Lookup(env, n.n).taint, c), cache |-> cache]
    [] OTHER -> CheckFirst(n, IF n.k = "ternary" THEN <<2, 3>> ELSE [i \in DOMAIN n.kids |-> i], p, env, c, cache)

(* What depends on the scopes is judged anew each time. *)
Remembered(n) == n.k \notin {"id", "field"}

Keep(p, r) == [r EXCEPT !.cache.judged = Bind(@, p, r.src)]

Check(n, p, env, c, cache) ==
  IF Remembered(n) /\ p \in DOMAIN cache.judged THEN [src |-> cache.judged[p], cache |-> cache]
  ELSE Keep(p, Judge(n, p, env, c, cache))
=============================================================================
