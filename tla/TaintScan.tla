----------------------------- MODULE TaintScan ------------------------------
(***************************************************************************)
(* A scan up to the propagation: the first pass, the walk of every file    *)
(* with its declarations (src/taint/engine/analyzer.go), the inherited     *)
(* methods and the rules that add the calls no body spells out             *)
(* (src/taint/engine/callresolution.go).                                   *)
(*                                                                         *)
(* A file lists its classes; a class its fields, then its initialisers,    *)
(* then its methods.  A parameter is [name, type, ann, configured], with   *)
(* at most one annotation; configured says that the configuration has the  *)
(* value its @Value names.  A pointcut is given by the classes and methods *)
(* its regular expressions match.                                          *)
(***************************************************************************)
EXTENDS BodyCollector

CONSTANTS Programs,  \* the programs a scan may be given
          Picks      \* what a walk over a map may meet first, throughout a scan:
                     \* a source, or the class and signature of a method

VARIABLES program, pick,
          t,         \* what the first pass learnt
          units,     \* declarations still to be walked, in order
          st,        \* the walk: store, scopes, memory, lambdas
          pending,   \* interface methods and parent classes to resolve
          phase      \* "first", "second", "index", "interfaces", "parents", "events", "aspects", "callbacks", "done"

scan == <<program, pick, t, units, st, pending, phase>>

EmptyStore ==
  [r \in {"edges", "reverse", "unresolved", "published", "listeners", "handlers", "reads", "assignments",
          "fieldTaints", "fieldEdges", "callSites", "paramTaints", "paramOrder", "paramToField",
          "paramToReturn", "paramToCallParam", "callParamTaints", "returnToLocal", "localReturn",
          "localToField", "locals", "localSources", "returnTaints", "returnFields", "returnFieldTaint",
          "fieldReturns", "entries", "synthetic", "named", "paramCounts"} |-> {}]

-----------------------------------------------------------------------------
(* Declarations.                                                           *)

Http == {"GetMapping", "PostMapping", "PutMapping", "DeleteMapping", "PatchMapping", "RequestMapping"}
Advice == {"ControllerAdvice", "RestControllerAdvice"}
Listening == {"EventListener", "TransactionalEventListener"}
Messages == {"RabbitListener", "KafkaListener", "JmsListener", "MessageMapping", "SubscribeMapping"}
Aspects == {"Around", "Before", "After", "AfterReturning", "AfterThrowing"}
Components == {"Component", "Service", "Repository", "Controller", "RestController", "Configuration",
               "ConfigurationProperties", "ManagedBean", "Named"}
RequestAnnotations == {"RequestParam", "PathVariable", "RequestBody", "RequestHeader", "CookieValue",
                       "ModelAttribute"}

(* isEntryPoint: what calls a method from outside, by its annotations.     *)
EntryType(anns, onClass) ==
  CASE anns \cap Http # {} /\ (onClass \cap Controllers # {} \/ "ResponseBody" \in anns) -> "http"
    [] OTHER ->
       IF "ExceptionHandler" \in anns
       THEN IF onClass \cap (Controllers \cup Advice) # {} THEN "http" ELSE ""
       ELSE CASE "Bean" \in anns -> "container"
              [] "Bean" \notin anns /\ "Scheduled" \in anns -> "scheduled"
              [] anns \cap {"Bean", "Scheduled"} = {} /\ anns \cap Messages # {} -> "message"
              [] OTHER -> IF anns \cap Listening # {} THEN "event"
                          ELSE IF anns \cap Aspects # {} THEN ""
                          ELSE IF anns \cap {"PostConstruct", "PreDestroy"} # {} THEN "container" ELSE ""

Constructors(class) == {i \in DOMAIN class.methods : class.methods[i].ctor}

(* A constructor the container calls. *)
Autowired(class, m) ==
  \/ "Autowired" \in m.anns
  \/ m.ctor /\ Cardinality(Constructors(class)) = 1 /\ class.anns \cap Components # {}
  \/ m.ctor /\ "ConstructorBinding" \in class.anns

(* The source a parameter is given by its annotation and its constructor.  *)
ParamSource(class, m, x) ==
  LET own == IF x.ann \in RequestAnnotations THEN "@" \o x.ann
             ELSE IF x.ann = "Value" /\ x.configured THEN "CONFIG_VALUE" ELSE ""
  IN  IF \/ m.ctor /\ "ConstructorBinding" \in class.anns /\ own = ""
         \/ class.name \in t.configured /\ Autowired(class, m)
      THEN "CONFIG_VALUE" ELSE own

Context(path, class, key, unit, body) ==
  [t |-> t, impls |-> Implementers(t), named |-> << >>, counts |-> {}, file |-> path, class |-> class.name,
   key |-> key, unit |-> unit, root |-> body, pick |-> pick]

ForgetfulWalk(w, frame) == [w EXCEPT !.env = <<frame>>]

(* Each declaration begins with a scope and judgements of its own; what is *)
(* begun is [w, c], the walk and the context of the body, if there is one. *)
FreshWalk(w, frame) == [w EXCEPT !.env = <<frame>>, !.cache.judged = << >>]

Synthetic(w, key) ==
  [w EXCEPT !.s.named = Registered(@, key), !.s.paramCounts = @ \cup {<<key, 0>>},
            !.s.synthetic = @ \cup {key}]

BeginMethod(w, path, class, m) ==
  LET key == MethodKey(class, m)
      c == Context(path, class, key, key, m.body)
      source == [i \in DOMAIN m.params |-> ParamSource(class, m, m.params[i])]
      frame == [x \in {m.params[i].name : i \in DOMAIN m.params} |->
                  LET i == CHOOSE j \in DOMAIN m.params : m.params[j].name = x
                  IN  [type |-> m.params[i].type, taint |-> SourceSet(source[i]), fields |-> << >>]]
      entry == IF class.iface THEN "" ELSE EntryType(m.anns, class.anns)
      declared ==
        [FreshWalk(w, frame) EXCEPT
           !.s.paramOrder = @ \cup {<<key, m.params[i].name, i - 1>> : i \in DOMAIN m.params},
           !.s.paramTaints = @ \cup {<<key, m.params[i].name, source[i]>> :
                                       i \in {j \in DOMAIN m.params : source[j] # ""}},
           !.s.entries = @ \cup (IF entry = "" THEN {} ELSE {<<key, entry>>}),
           !.s.listeners = @ \cup (IF class.iface \/ m.anns \cap Listening = {} THEN {}
                                   ELSE {<<m.params[i].type[1], key>> : i \in DOMAIN m.params})]
  IN  [w |-> IF m.ctor /\ m.body.k # "none" THEN CtorTaints(declared, m.body, Now(c, declared)) ELSE declared,
       c |-> c]

(* A field with a value is initialised by a method of its own.             *)
BeginField(w, path, class, f) ==
  LET key == <<class.name, "<init_" \o f.name \o ">", "()">>
      noted == IF "Value" \notin f.anns THEN w
               ELSE Note(w, "fieldTaints", {<<<<class.name, f.name>>, "CONFIG_VALUE", "@Value", NoVia>>})
  IN  [w |-> IF f.init.k = "none" THEN noted ELSE FreshWalk(Synthetic(noted, key), << >>),
       c |-> Context(path, class, key, key, f.init)]

(* Static initialisers are numbered through both walks of a file.          *)
BeginInit(w, path, class, i, number) ==
  LET name == IF i.static THEN "<static_init$" \o ToString(number) \o ">" ELSE "<instance_init>"
      key == <<class.name, name, "()">>
      unit == <<class.name, "init", i.at>>
  IN  [w |-> FreshWalk(Synthetic(w, key), << >>), c |-> Context(path, class, key, unit, i.body)]

UnitsOf(file) ==
  FlattenSeq([j \in DOMAIN file.classes |->
    LET c == file.classes[j]
    IN  [i \in DOMAIN c.fields |-> [kind |-> "field", file |-> file.path, class |-> c, decl |-> c.fields[i]]]
        \o [i \in DOMAIN c.inits |-> [kind |-> "init", file |-> file.path, class |-> c, decl |-> c.inits[i]]]
        \o [i \in DOMAIN c.methods |-> [kind |-> "method", file |-> file.path, class |-> c, decl |-> c.methods[i]]]])

Numbered(us) ==
  [i \in DOMAIN us |->
     [u |-> us[i],
      number |-> Cardinality({j \in 1 .. i : us[j].kind = "init" /\ us[j].decl.static})]]

WalkedOnce(file) == Numbered(UnitsOf(file))

(* walkSecondPass: every file is walked twice, so that a method is known   *)
(* to pass a field on when a caller above it is walked again.              *)
WalkedTwice(file) == Numbered(UnitsOf(file) \o UnitsOf(file))

Walked(b) == IF b.c.root.k = "none" THEN b.w ELSE Visit(b.c.root, << >>, b.w, b.c)

WalkUnit(w, x) ==
  Walked(CASE x.u.kind = "field" -> BeginField(w, x.u.file, x.u.class, x.u.decl)
           [] x.u.kind = "init" -> BeginInit(w, x.u.file, x.u.class, x.u.decl, x.number)
           [] x.u.kind = "method" -> BeginMethod(w, x.u.file, x.u.class, x.u.decl))

SecondPass(prog) == FlattenSeq([i \in DOMAIN prog |-> WalkedTwice(prog[i])])

StartOfWalk(prog) ==
  [s |-> [EmptyStore EXCEPT !.named = NameIndex(prog), !.paramCounts = ParamCounts(prog)],
   env |-> << >>, cache |-> [judged |-> << >>, types |-> << >>], lambdas |-> << >>]

-----------------------------------------------------------------------------
(* The calls no body spells out.                                           *)

Count(s, m) == IF \E r \in s.paramCounts : r[1] = m THEN (CHOOSE r \in s.paramCounts : r[1] = m)[2] ELSE 0

(* The methods of a class that stand for m: of its name, with as many      *)
(* parameters.                                                             *)
Overriding(s, class, m) ==
  {k \in ToSet(At(s.named, <<class, m[2]>>, << >>)) : Count(s, k) = Count(s, m)}

(* Whoever calls m, or what is written class.m, calls the methods that     *)
(* stand for it in the heirs too.                                          *)
Dispatched(s, m, class, heirs) ==
  LET targets == UNION {Overriding(s, h, m) : h \in heirs}
      callers == {r \in s.reverse : r[1] = m}
      written == {e \in s.edges : e[2] = <<class, m[2]>> /\ e[3] # "polymorphic"}
      backwards == {<<k, r[2], r[3]>> : k \in targets, r \in callers}
      forwards == {<<e[1], <<k[1], m[2]>>, "polymorphic", e[4]>> : k \in targets, e \in written}
  IN  [s EXCEPT !.reverse = @ \cup {b \in backwards : ~\E r \in s.reverse : r[1] = b[1] /\ r[2] = b[2]},
                !.edges = @ \cup {f \in forwards : ~\E e \in s.edges : e[1] = f[1] /\ e[2] = f[2] /\ e[4] = f[4]}]

InterfaceDispatch(s, m) == Dispatched(s, m, m[1], At(Implementers(t), m[1], {}))

ParentDispatch(s, class) ==
  FoldSet(LAMBDA m, x : Dispatched(x, m, class, {h \in DOMAIN t.extends : t.extends[h] = class}),
          s, AllMethods(t, class))

Listeners(s, event) == {r[2] : r \in {x \in s.listeners : x[1] = event}}

RECURSIVE Above(_)
Above(class) == IF class \in DOMAIN t.extends THEN {t.extends[class]} \cup Above(t.extends[class]) ELSE {}

(* The listeners an event reaches: those of its class, of the classes that *)
(* have it as an ancestor, and of its interfaces.                          *)
ListenersReached(s, event) ==
  LET heard == {r[1] : r \in s.listeners}
      below == {x \in DOMAIN t.extends : event \in Above(x) /\ {x, t.extends[x]} \cap heard # {}}
  IN  UNION {Listeners(s, e) : e \in {event} \cup below \cup ToSet(At(t.interfaces, event, << >>))}

EventEdges(s) ==
  LET heard == UNION {{<<l, r[1]>> : l \in ListenersReached(s, r[2])} : r \in s.published}
  IN  [s EXCEPT !.reverse = @ \cup {<<h[1], h[2], "event">> : h \in heard},
                !.edges = @ \cup {<<h[2], Front(h[1]), "event", "">> : h \in heard}]

(* Methods.Functions: what the second pass met, without the accessors that *)
(* are not written out.                                                    *)
Functions(s) == s.synthetic \cup UNION {{MethodKey(c, m) : m \in ToSet(c.methods)} : c \in Classes(program)}

Advised(s, m) ==
  {k \in Functions(s) \ {<<m[1], m[2].name, m[2].sig>>} :
     k[1] \in m[2].pointcut.classes /\ k[2] \in m[2].pointcut.methods}

AspectEdges(s) ==
  LET aspects == UNION {{<<c.name, m>> : m \in {x \in ToSet(c.methods) : x.anns \cap Aspects # {}}} : c \in Classes(program)}
      before == {a \in aspects : a[2].anns \cap {"Before", "Around"} # {}}
      after == {a \in aspects : a[2].anns \cap {"After", "AfterReturning", "AfterThrowing"} # {}}
      key(a) == <<a[1], a[2].name, a[2].sig>>
      calls == UNION {{<<key(a), k>> : k \in Advised(s, a)} : a \in before}
               \cup UNION {{<<k, key(a)>> : k \in Advised(s, a)} : a \in after}
  IN  [s EXCEPT !.reverse = @ \cup {<<x[2], x[1], "aop">> : x \in calls},
                !.edges = @ \cup {<<x[1], Front(x[2]), "aop", "">> : x \in calls}]

Lifecycle == {<<"CommandLineRunner", "run">>, <<"ApplicationRunner", "run">>,
              <<"InitializingBean", "afterPropertiesSet">>, <<"DisposableBean", "destroy">>}
Repositories == {"JpaRepository", "CrudRepository", "MongoRepository"}
ObjectMethods == {"equals", "hashCode", "toString"}

CallbackEntries(s) ==
  LET impls == Implementers(t)
      called == UNION {UNION {{m \in AllMethods(t, c) : m[2] = l[2]} : c \in At(impls, l[1], {})} : l \in Lifecycle}
                \cup UNION {UNION {{m \in AllMethods(t, c) : m[2] \notin ObjectMethods} : c \in At(impls, r, {})}
                            : r \in Repositories}
  IN  [s EXCEPT !.entries = @ \cup {<<m, "container">> : m \in {x \in called : ~\E e \in s.entries : e[1] = x}}]

(* The returned fields by field; an inherited one under its owner as well. *)
ReturnIndex(s) ==
  LET owned(f) == SelectSeq(Tail(Lineage([t EXCEPT !.interfaces = << >>], f[1])),
                            LAMBDA c : <<c, f[2]>> \in DOMAIN t.fieldTypes)
  IN  [s EXCEPT !.fieldReturns =
         {<<r[2], r[1]>> : r \in s.returnFields}
         \cup UNION {IF r[2] \in DOMAIN t.fieldTypes \/ owned(r[2]) = << >> THEN {}
                     ELSE {<<<<owned(r[2])[1], r[2][2]>>, r[1]>>} : r \in s.returnFields}]

-----------------------------------------------------------------------------

ScanInit ==
  /\ program \in Programs /\ pick \in Picks
  /\ t = << >> /\ units = << >> /\ pending = {}
  /\ st = << >>
  /\ phase = "first"

FirstPass ==
  /\ phase = "first"
  /\ t' = TypesOf(program)
  /\ units' = SecondPass(program)
  /\ st' = StartOfWalk(program)
  /\ phase' = "second"
  /\ UNCHANGED <<program, pick, pending>>

WalkNext ==
  /\ phase = "second" /\ units # << >>
  /\ st' = WalkUnit(st, Head(units))
  /\ units' = Tail(units)
  /\ UNCHANGED <<program, pick, t, pending, phase>>

BuildIndices ==
  /\ phase = "second" /\ units = << >>
  /\ st' = [st EXCEPT !.s = ReturnIndex(@), !.env = << >>, !.cache = [judged |-> << >>, types |-> << >>]]
  /\ pending' = t.abstract
  /\ phase' = "interfaces"
  /\ UNCHANGED <<program, pick, t, units>>

(* The rules go through maps: in any order. *)
ResolveInterface ==
  /\ phase = "interfaces"
  /\ \E m \in pending : /\ st' = [st EXCEPT !.s = InterfaceDispatch(@, m)]
                        /\ pending' = pending \ {m}
  /\ UNCHANGED <<program, pick, t, units, phase>>

ToParents ==
  /\ phase = "interfaces" /\ pending = {}
  /\ pending' = {t.extends[c] : c \in DOMAIN t.extends}
  /\ phase' = "parents"
  /\ UNCHANGED <<program, pick, t, units, st>>

ResolveParent ==
  /\ phase = "parents"
  /\ \E class \in pending : /\ st' = [st EXCEPT !.s = ParentDispatch(@, class)]
                            /\ pending' = pending \ {class}
  /\ UNCHANGED <<program, pick, t, units, phase>>

ResolveRest ==
  /\ phase = "parents" /\ pending = {}
  /\ st' = [st EXCEPT !.s = CallbackEntries(AspectEdges(EventEdges(@)))]
  /\ phase' = "done"
  /\ UNCHANGED <<program, pick, t, units, pending>>

ScanNext == FirstPass \/ WalkNext \/ BuildIndices \/ ResolveInterface \/ ToParents \/ ResolveParent \/ ResolveRest

ScanSpec == ScanInit /\ [][ScanNext]_scan
=============================================================================
