----------------------------- MODULE TypeStore -----------------------------
(***************************************************************************)
(* What the first pass over the Java files learns                          *)
(* (src/taint/engine/extractor.go) and the lookups in the class hierarchy  *)
(* made with it (src/taint/engine/typeresolver.go).                        *)
(*                                                                         *)
(* A program is a sequence of files [path, imports, classes]; the parser   *)
(* is external.  A class is                                                *)
(*   [name, anns, extends, interfaces, iface, fields, inits, methods],     *)
(* a field [name, type, anns, static, init, getter, setter], a method      *)
(*   [name, sig, params, ret, anns, ctor, default, native, body].          *)
(* The names of the classes of a program are distinct and none is nested.  *)
(* A type is <<base, first type argument>>, a method key                   *)
(* <<class, name, signature>>, a field key <<class, field>>.               *)
(***************************************************************************)
EXTENDS Naturals, Sequences, FiniteSets, SequencesExt

At(f, x, otherwise) == IF x \in DOMAIN f THEN f[x] ELSE otherwise

NoType == <<"", "">>

Lombok == {"Data", "Getter", "Setter", "Value", "Builder"}

(* A Lombok class has a getter for every field that is not static, and a   *)
(* setter unless its values do not change.                                 *)
Accessors(class, f) ==
  IF class.anns \cap Lombok = {} \/ f.static THEN << >>
  ELSE <<[key |-> <<class.name, f.getter, "()">>, args |-> 0, ret |-> f.type]>>
       \o IF "Value" \in class.anns THEN << >>
          ELSE <<[key |-> <<class.name, f.setter, "(" \o f.type[1] \o ")">>, args |-> 1,
                  ret |-> <<"void", "">>]>>

MethodKey(class, m) == <<class.name, m.name, m.sig>>

(* The methods of a class in the order they are met. *)
Declared(class) ==
  FlattenSeq([i \in DOMAIN class.fields |-> Accessors(class, class.fields[i])])
  \o [i \in DOMAIN class.methods |->
        [key  |-> MethodKey(class, class.methods[i]),
         args |-> Len(class.methods[i].params),
         ret  |-> class.methods[i].ret]]

Classes(program) == ToSet(FlattenSeq([i \in DOMAIN program |-> program[i].classes]))

(* A class whose constructor takes its configuration. *)
ConfiguredByConstructor(class) ==
  \/ "ConstructorBinding" \in class.anns /\ \E i \in DOMAIN class.methods : class.methods[i].ctor
  \/ /\ "ConfigurationProperties" \in class.anns
     /\ \E i \in DOMAIN class.methods :
          class.methods[i].ctor /\ "Autowired" \in class.methods[i].anns

(* walkFirstPass, and the names that more than one file imports. *)
TypesOf(program) ==
  LET classes == Classes(program)
      names == {c.name : c \in classes}
      named == [n \in names |-> CHOOSE c \in classes : c.name = n]
      methods == UNION {ToSet(Declared(c)) : c \in classes}
      imports == [p \in {program[i].path : i \in DOMAIN program} |->
                    (CHOOSE f \in ToSet(program) : f.path = p).imports]
  IN  [anns       |-> [n \in names |-> named[n].anns],
       extends    |-> [n \in {x \in names : named[x].extends # ""} |-> named[n].extends],
       interfaces |-> [n \in names |-> named[n].interfaces],
       fieldTypes |-> [k \in UNION {{<<c.name, c.fields[i].name>> : i \in DOMAIN c.fields} : c \in classes} |->
                         LET f == ToSet(named[k[1]].fields)
                         IN  (CHOOSE x \in f : x.name = k[2]).type],
       methods    |-> [n \in {x \in names : Declared(named[x]) # << >>} |->
                         {d.key : d \in ToSet(Declared(named[n]))}],
       returns    |-> [k \in {d.key : d \in methods} |-> (CHOOSE d \in methods : d.key = k).ret],
       abstract   |-> UNION {{MethodKey(c, m) : m \in {x \in ToSet(c.methods) : ~x.default}}
                              : c \in {x \in classes : x.iface}},
       ctors      |-> UNION {{MethodKey(c, m) : m \in {x \in ToSet(c.methods) : x.ctor}} : c \in classes},
       native     |-> UNION {{MethodKey(c, m) : m \in {x \in ToSet(c.methods) : x.native}} : c \in classes},
       configured |-> {c.name : c \in {x \in classes : ConfiguredByConstructor(x)}},
       imports    |-> imports,
       ambiguous  |-> {n \in UNION {DOMAIN imports[p] : p \in DOMAIN imports} :
                         Cardinality({p \in DOMAIN imports : n \in DOMAIN imports[p]}) > 1}]

(* RegisterMethodIndex: the methods of a name, each once, as they came.    *)
Registered(named, key) ==
  LET pattern == <<key[1], key[2]>>
      old == At(named, pattern, << >>)
  IN  IF key \in ToSet(old) THEN named
      ELSE [p \in DOMAIN named \cup {pattern} |-> IF p = pattern THEN Append(old, key) ELSE named[p]]

DeclaredIn(program) ==
  FlattenSeq(FlattenSeq([i \in DOMAIN program |->
    [j \in DOMAIN program[i].classes |-> Declared(program[i].classes[j])]]))

NameIndex(program) ==
  FoldLeft(LAMBDA named, d : Registered(named, d.key), << >>, DeclaredIn(program))

ParamCounts(program) == {<<d.key, d.args>> : d \in ToSet(DeclaredIn(program))}

-----------------------------------------------------------------------------
(* BuildIfaceImplMap. *)

DirectImplementers(t) ==
  [i \in UNION {ToSet(t.interfaces[c]) : c \in DOMAIN t.interfaces} |->
     {c \in DOMAIN t.interfaces : i \in ToSet(t.interfaces[c])}]

RECURSIVE WithHeirs(_, _)
WithHeirs(t, S) ==
  LET heirs == {c \in DOMAIN t.extends : t.extends[c] \in S}
  IN  IF heirs \subseteq S THEN S ELSE WithHeirs(t, S \cup heirs)

OnePassUp(t, impls) ==
  [i \in DOMAIN impls |->
     impls[i] \cup UNION {impls[c] : c \in {x \in DOMAIN impls : i \in ToSet(At(t.interfaces, x, << >>))}}]

(* What implements an interface implements those it extends, until nothing *)
(* changes.                                                                *)
RECURSIVE UpInterfaces(_, _)
UpInterfaces(t, impls) ==
  LET next == [i \in DOMAIN impls |->
                 impls[i] \cup UNION {impls[c] : c \in {x \in DOMAIN impls :
                                                          i \in ToSet(At(t.interfaces, x, << >>))}}]
  IN  IF next = impls THEN impls ELSE UpInterfaces(t, next)

Implementers(t) ==
  LET direct == DirectImplementers(t)
  IN  UpInterfaces(t, [i \in DOMAIN direct |-> WithHeirs(t, direct[i])])

(* buildInheritedMethods: the methods of a class and those of its parent   *)
(* and interfaces it does not override, parents first.  A class that       *)
(* declares no method has no list, so it hands nothing down.               *)
RECURSIVE AllMethods(_, _)
AllMethods(t, class) ==
  LET own == At(t.methods, class, {})
      above == (IF class \in DOMAIN t.extends THEN {t.extends[class]} ELSE {})
               \cup ToSet(At(t.interfaces, class, << >>))
      inherited == UNION {AllMethods(t, c) : c \in above}
  IN  IF own = {} THEN {}
      ELSE own \cup {m \in inherited : \A o \in own : <<o[2], o[3]>> # <<m[2], m[3]>>}

-----------------------------------------------------------------------------
(* The hierarchy above a class, nearest first: its parent before its       *)
(* interfaces, each class once.                                            *)
RECURSIVE LineageFrom(_, _, _)
LineageFrom(t, queue, seen) ==
  IF queue = << >> THEN seen
  ELSE IF Head(queue) \in ToSet(seen) THEN LineageFrom(t, Tail(queue), seen)
  ELSE LET c == Head(queue)
           parent == IF c \in DOMAIN t.extends THEN <<t.extends[c]>> ELSE << >>
       IN  LineageFrom(t, Tail(queue) \o parent \o At(t.interfaces, c, << >>), Append(seen, c))

Lineage(t, class) == LineageFrom(t, <<class>>, << >>)

NoKey == <<"", "", "">>

(* Of the methods of a name the one with that many parameters, else the first. *)
BestMatch(found, counts, args) ==
  LET i == SelectInSeq(found, LAMBDA m : <<m, args>> \in counts)
  IN  IF i = 0 THEN found[1] ELSE found[i]

(* ResolveMethodClass. *)
ResolveMethod(t, named, counts, class, name, args) ==
  LET line == Lineage(t, class)
      i == SelectInSeq(line, LAMBDA c : At(named, <<c, name>>, << >>) # << >>)
  IN  IF i = 0 THEN NoKey ELSE BestMatch(named[<<line[i], name>>], counts, args)

(* ResolveFieldTypeInHierarchy. *)
FieldTypeIn(t, class, field) ==
  LET line == Lineage(t, class)
      i == SelectInSeq(line, LAMBDA c : <<c, field>> \in DOMAIN t.fieldTypes)
  IN  IF i = 0 THEN NoType ELSE t.fieldTypes[<<line[i], field>>]
=============================================================================
