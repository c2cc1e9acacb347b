---------------------------- MODULE TaintReasons ----------------------------
(***************************************************************************)
(* What the two passes of TaintScan should leave in the store, said without *)
(* scopes, memory or an order of statements: a name may carry what any     *)
(* statement of its method could put into it.                              *)
(***************************************************************************)
EXTENDS TaintScan

RECURSIVE Nodes(_)
Nodes(n) == {n} \cup UNION {Nodes(n.kids[i]) : i \in DOMAIN n.kids}

(* A call that cleans its arguments, written on the class itself.          *)
Cleans(n) ==
  n.k = "call" /\ (n.n \in UniversalSanitizers \/ <<n.kids[1].n, n.n>> \in Sanitizers)

(* The sources an expression may have when its names may carry R.          *)
RECURSIVE MayHave(_, _)
MayHave(n, R) ==
  CASE n.k = "id" -> {r[2] : r \in {x \in R : x[1] = n.n}}
    [] n.k = "call" ->
         (IF n.n \in SourceMethods THEN {n.n, "System." \o n.n} ELSE {})
         \cup UNION {MayHave(n.kids[i], R) : i \in {j \in DOMAIN n.kids : j = 1 \/ ~Cleans(n)}}
    [] n.k = "field" -> MayHave(n.kids[1], R) \cup {r[2] : r \in {x \in R : x[1] = "a part"}}
    [] n.k = "ternary" -> MayHave(n.kids[2], R) \cup MayHave(n.kids[3], R)
    [] n.k = "binary" /\ n.n = "cmp" -> {}
    [] OTHER -> UNION {MayHave(n.kids[i], R) : i \in DOMAIN n.kids}

(* What the statements of a body put into names, once.                     *)
PutInto(body, R) ==
  LET conditions == UNION {NamesIn(n.kids[1]) : n \in {x \in Nodes(body) : x.k = "if"}}
      implicit == {"CONTROL_DEP:" \o v : v \in {x \in conditions : \E r \in R : r[1] = x}}
  IN  UNION {
        CASE n.k \in {"local", "foreach"} /\ n.kids # << >> -> {<<n.n, a>> : a \in MayHave(n.kids[1], R)}
          [] n.k = "assign" /\ n.kids[1].k = "id" ->
               {<<n.kids[1].n, a>> : a \in MayHave(n.kids[2], R) \cup implicit}
          [] n.k = "assign" /\ n.kids[1].k = "field" ->
               {<<"a part", a>> : a \in MayHave(n.kids[2], R)
                                        \cup IF n.kids[2].k = "field" THEN {n.kids[2].n} ELSE {}}
          [] n.k = "call" ->
               UNION {{<<n.kids[i].kids[1].n, a>> : a \in MayHave(n.kids[1], R)} :
                        i \in {j \in DOMAIN n.kids : n.kids[j].k = "lambda"}}
          [] OTHER -> {}
        : n \in Nodes(body)}

RECURSIVE MayCarry(_, _)
MayCarry(body, R) ==
  LET next == R \cup PutInto(body, R)
  IN  IF next = R THEN R ELSE MayCarry(body, next)

Bodies ==
  UNION {{[class |-> c, name |-> m.name, body |-> m.body, ctor |-> m.ctor,
           carry |-> MayCarry(m.body, {<<m.params[i].name, ParamSource(c, m, m.params[i])>> :
                                         i \in {j \in DOMAIN m.params : ParamSource(c, m, m.params[j]) # ""}})]
            : m \in {x \in ToSet(c.methods) : x.body.k # "none"}} : c \in Classes(program)}
  \cup
  UNION {{[class |-> c, name |-> "<init_" \o f.name \o ">", body |-> f.init, ctor |-> FALSE, carry |-> {}]
            : f \in {x \in ToSet(c.fields) : x.init.k # "none"}} : c \in Classes(program)}

ReturnsOf(b) == {n \in Nodes(b.body) : n.k = "return" /\ n.kids # << >>}

(* Every source noted for a local, a result, an argument or a field is one *)
(* some statement of the same method could have put there: nothing leaks   *)
(* from another body through the scopes, the remembered judgements or the  *)
(* names of the lambdas, and nothing that was cleaned is noted, unless a   *)
(* constructor stores it: scanCtorBody reads names only (bodycollector.go, *)
(* checker.go).                                                            *)
EveryTaintHasAReason ==
  phase \in {"second", "done"} =>
    LET bodies == Bodies
        of(key) == {b \in bodies : b.class.name = key[1] /\ b.name = key[2]}
        calls(b) == {n \in Nodes(b.body) : n.k = "call"}
    IN  /\ \A y \in st.s.localSources : \E b \in of(y[1]) : <<y[2], y[3]>> \in b.carry
        /\ \A y \in st.s.returnTaints : \E b \in of(y[1]) : \E n \in ReturnsOf(b) : y[2] \in MayHave(n, b.carry)
        /\ \A y \in st.s.callParamTaints :
             \E b \in bodies : \E n \in calls(b) :
               n.n = y[1][2] /\ Len(Args(n)) > y[2] /\ y[3] \in MayHave(Args(n)[y[2] + 1], b.carry)
        /\ \A y \in st.s.fieldTaints :
             \/ y[2] = "CONFIG_VALUE"
             \/ \E b \in {x \in bodies : x.class.name = y[1][1]} : \E n \in Nodes(b.body) :
                  \/ n.k = "assign" /\ n.kids[1].n = y[1][2] /\ y[3] \in MayHave(n.kids[2], b.carry)
                  \/ b.ctor /\ n.k = "assign" /\ n.kids[1].n = y[1][2]
                       /\ \E x \in NamesIn(n.kids[2]) : <<x, y[3]>> \in b.carry
                  \/ n.k = "call" /\ n.kids[1].n = y[1][2] /\ y[3] \in UNION {MayHave(a, b.carry) : a \in ToSet(Args(n))}

-----------------------------------------------------------------------------

(* The same program with the methods of every class the other way round.   *)
Upended(prog) ==
  [i \in DOMAIN prog |->
     [prog[i] EXCEPT !.classes = [j \in DOMAIN @ |-> [@[j] EXCEPT !.methods = Reverse(@)]]]]

Collected(prog) == FoldLeft(WalkUnit, StartOfWalk(prog), SecondPass(prog)).s

(* A taint with the method it is noted for, not the number of a lambda.    *)
TaintsSaid(s) ==
  <<{<<r[1][1], r[1][2], r[2]>> : r \in s.returnTaints}, s.callParamTaints, s.fieldTaints,
    {<<r[1][1], r[1][2], r[2], r[3]>> : r \in s.localSources}>>

(* Methods that hand a local on whose fields they wrote. *)
Relays ==
  {m \in UNION {ToSet(c.methods) : c \in Classes(program)} :
     \E n, r \in Nodes(m.body) :
       /\ n.k = "assign" /\ n.kids[1].k = "field" /\ n.kids[1].kids[1].k = "id"
       /\ r.k = "return" /\ r.kids # << >> /\ r.kids[1] = n.kids[1].kids[1]}

Chained == \E m \in Relays : \E n \in Nodes(m.body) : n.k = "call" /\ \E r \in Relays : r.name = n.n

(* Which of two methods is meant is left to the order they come in when a  *)
(* class has two of a name with as many parameters (typeresolver.go:216,   *)
(* :420), and to chance when two of a name pass fields on                  *)
(* (bodycollector.go:230).                                                 *)
Distinct ==
  /\ \A c \in Classes(program) : \A d, e \in ToSet(Declared(c)) :
       d.key[2] = e.key[2] /\ d.args = e.args => d.key = e.key
  /\ \A r, x \in st.s.returnFieldTaint : r[1][2] = x[1][2] => r[1] = x[1]

(* The order in which a class declares its methods makes no difference to  *)
(* the taints when every call means one method and no relay calls another: *)
(* walking a file twice (analyzer.go:100, :246) is enough for one hop and  *)
(* not for two.                                                            *)
MethodOrderIsIrrelevant ==
  phase = "second" /\ units = << >> /\ Distinct /\ ~Chained =>
    TaintsSaid(st.s) = TaintsSaid(Collected(Upended(program)))

-----------------------------------------------------------------------------

Subtypes(class) == {c.name : c \in {x \in Classes(program) : class \in ToSet(Tail(Lineage(t, x.name)))}}

(* A call written on an interface reaches what stands for the method in    *)
(* every class below it, through however many interfaces and parents, and  *)
(* each of those knows the caller (extractor.go BuildIfaceImplMap,         *)
(* callresolution.go PolymorphicCallRule).                                 *)
ImplementersCalled ==
  phase = "done" =>
    \A e \in {x \in st.s.edges : x[3] = "direct"} :
      \A m \in {x \in t.abstract : <<x[1], x[2]>> = e[2]} :
        \A c \in Subtypes(m[1]) : \A k \in Overriding(st.s, c, m) :
          /\ \E f \in st.s.edges : f[1] = e[1] /\ f[2] = <<c, m[2]>> /\ f[4] = e[4]
          /\ \E r \in st.s.reverse : r[1] = k /\ r[2] = e[1]

(* A method that a direct call names lists the caller, and from every      *)
(* caller listed a call leads to the method or to one it overrides,        *)
(* whatever order the maps were gone through (bodycollector.go             *)
(* handleMethodInvocation, callresolution.go).  No more than that: an edge *)
(* to a constructor, a method reference, a lambda or an inherited method   *)
(* of a class called by its name need not be listed by what it reaches.    *)
EdgesMirrored ==
  phase = "done" =>
    /\ \A e \in {x \in st.s.edges : x[3] = "direct"} :
         \A m \in ToSet(At(st.s.named, e[2], << >>)) \ st.s.synthetic :
           \E r \in st.s.reverse : r[1] = m /\ r[2] = e[1]
    /\ \A r \in {x \in st.s.reverse : x[1][3] # ""} :
         \E e \in st.s.edges : /\ e[1] = r[2] /\ e[2][2] = r[1][2]
                               /\ e[2][1] \in ToSet(Lineage(t, r[1][1]))

(* Resolution leaves no implementer of a call on an interface out, and the *)
(* callers of direct calls and of the methods overridden are those there   *)
(* are.                                                                    *)
CallGraphClosed == ImplementersCalled /\ EdgesMirrored

=============================================================================
