--------------------------- MODULE MCTaintReasons ---------------------------
(***************************************************************************)
(* TaintReasons over six families of programs: the bodies made of any few  *)
(* statements of a list, a class that copies objects in one or two hops,   *)
(* two methods of a name, expressions typed before their names are, a      *)
(* hierarchy of interfaces and classes with one caller, and what the       *)
(* container wires together.                                               *)
(***************************************************************************)
EXTENDS TaintReasons

CONSTANTS MaxStatements,  \* statements of a body
          MaxHops         \* copies handed on

Str == <<"String", "">>
None == Node("none", "", NoType, << >>)
Id(x) == Node("id", x, NoType, << >>)
Text == Node("text", "k", NoType, << >>)
This == Node("this", "", NoType, << >>)
Dot(obj, f) == Node("field", f, NoType, <<obj>>)
Call(obj, m, args) == Node("call", m, NoType, <<obj>> \o args)
New(class, args) == Node("new", "", <<class, "">>, args)
Let(type, x, e) == Node("local", x, type, <<e>>)
Set(left, right) == Node("assign", "=", NoType, <<left, right>>)
Return(e) == Node("return", "", NoType, <<e>>)
Block(ss) == Node("block", "", NoType, ss)
If(cond, s) == Node("if", "", NoType, <<cond, s>>)
Lambda(x, body) == Node("lambda", "", NoType, <<Id(x), body>>)
Compare(a, b) == Node("binary", "cmp", NoType, <<a, b>>)
Plus(a, b) == Node("binary", "+", NoType, <<a, b>>)

Field(x, type) ==
  [name |-> x, type |-> type, anns |-> {}, static |-> FALSE, init |-> None,
   getter |-> "get_" \o x, setter |-> "set_" \o x]
Param(x, type, ann) == [name |-> x, type |-> type, ann |-> ann, configured |-> FALSE]
Method(name, sig, params, body) ==
  [name |-> name, sig |-> sig, params |-> params, ret |-> Str, anns |-> {}, ctor |-> FALSE,
   default |-> FALSE, native |-> FALSE, body |-> body]
Class(name, extends, interfaces, fields, methods) ==
  [name |-> name, anns |-> {}, extends |-> extends, interfaces |-> interfaces, iface |-> FALSE,
   fields |-> fields, inits |-> << >>, methods |-> methods]
Interface(name, interfaces, methods) ==
  [Class(name, "", interfaces, << >>, methods) EXCEPT !.iface = TRUE]
File(path, classes) == [path |-> path, imports |-> << >>, classes |-> classes]

-----------------------------------------------------------------------------
(* Any few statements, in any order. *)

Statements ==
  {Let(Str, "x", Id("p")),
   Let(<<"var", "">>, "x", Call(Id("req"), "getHeader", <<Text>>)),
   Let(Str, "x", Call(Id("URLEncoder"), "encode", <<Id("p")>>)),
   Set(Id("p"), Text),
   Set(Id("p"), Call(Id("req"), "getParameter", <<Text>>)),
   If(Compare(Id("p"), Text), Block(<<Set(Id("x"), Text)>>)),
   Set(Dot(This, "f"), Plus(Id("x"), Text)),
   Set(Id("g"), Dot(This, "f")),
   Call(Dot(This, "list"), "add", <<Id("x")>>),
   Call(Id("sink"), "run", <<Id("x")>>),
   Call(Call(Id("Stream"), "of", <<Id("p")>>), "map", <<Lambda("z", Call(Id("sink"), "run", <<Id("z")>>))>>),
   Node("foreach", "e", Str, <<Call(Id("sink"), "all", <<Id("p")>>), Return(Id("e"))>>),
   Node("try", "", NoType, <<Block(<<Set(Id("x"), Id("p"))>>),
                             Node("catch", "x", <<"E", "">>, <<Return(Id("x"))>>)>>),
   Return(Node("ternary", "", NoType, <<Id("p"), Id("x"), Call(Id("x"), "trim", << >>)>>))}

Sink ==
  Class("Sink", "", << >>, << >>,
        <<Method("run", "(String)", <<Param("c", Str, "")>>, Block(<<Return(Id("c"))>>))>>)

Controller(body) ==
  [Class("Web", "", << >>, <<Field("f", Str), Field("g", Str), Field("list", <<"List", "String">>),
                             [Field("sink", <<"Sink", "">>) EXCEPT !.init = New("Sink", << >>)]>>,
         <<[Method("get", "(String,HttpServletRequest)",
                   <<Param("p", Str, "RequestParam"), Param("req", <<"HttpServletRequest", "">>, "")>>,
                   Block(body)) EXCEPT !.anns = {"GetMapping"}],
           Method("other", "(String)", <<Param("x", Str, "")>>,
                  Block(<<Let(Str, "y", Id("x")), Call(Id("sink"), "run", <<Id("y")>>), Return(Id("y"))>>))>>)
     EXCEPT !.anns = {"RestController"}]

AnyBodies ==
  {<<File("Web.java", <<Controller(b)>>), File("Sink.java", <<Sink>>)>> :
     b \in UNION {[1 .. n -> Statements] : n \in 1 .. MaxStatements}}

-----------------------------------------------------------------------------
(* copy hands the field of its argument on; more hops copy the copy.       *)

Data == <<"Data", "">>
Copying(name, more) ==
  Method(name, "(Data)", <<Param("s", Data, "")>>,
         Block(<<Let(Data, "d", New("Data", << >>))>> \o more \o <<Return(Id("d"))>>))

Hop(i) ==
  IF i = 1 THEN Copying("copy1", <<Set(Dot(Id("d"), "v"), Dot(Id("s"), "v"))>>)
  ELSE Copying("copy" \o ToString(i),
               <<Let(Data, "c", Call(None, "copy" \o ToString(i - 1), <<Id("s")>>)),
                 Set(Dot(Id("d"), "v"), Dot(Id("c"), "v"))>>)

Copier(hops, first) ==
  LET caller == Method("web", "(String)", <<Param("p", Str, "RequestBody")>>,
                       Block(<<Let(Data, "a", New("Data", << >>)), Set(Dot(Id("a"), "v"), Id("p")),
                               Let(Data, "b", Call(None, "copy" \o ToString(hops), <<Id("a")>>)),
                               Return(Dot(Id("b"), "v"))>>))
      copies == [i \in 1 .. hops |-> Hop(i)]
  IN  <<File("Copy.java",
             <<Class("Copy", "", << >>, << >>, IF first THEN copies \o <<caller>> ELSE <<caller>> \o copies),
               Class("Data", "", << >>, <<Field("v", Str)>>, << >>)>>)>>

Copiers == {Copier(hops, first) : hops \in 1 .. MaxHops, first \in BOOLEAN}

-----------------------------------------------------------------------------
(* Two methods of a name and one call: in one class and with as many       *)
(* parameters, or not; handing fields on, each another, or only one does.  *)

HttpRequest == <<"HttpServletRequest", "">>

Overloaded(params, first) ==
  LET text == Method("of", "(String)", <<Param("s", Str, "")>>, Block(<<Return(Id("s"))>>))
      other == [Method("of", "(Request)", [i \in 1 .. params |-> Param("r" \o ToString(i), HttpRequest, "")],
                       Block(<<Return(Id("r1"))>>)) EXCEPT !.ret = HttpRequest]
      web == Method("web", "(String)", <<Param("p", Str, "")>>,
                    Block(<<Let(Str, "x", Call(Call(None, "of", <<Id("p")>>), "getParameter", <<Text>>)),
                            Return(Id("x"))>>))
  IN  <<File("Over.java",
             <<Class("Over", "", << >>, << >>, IF first THEN <<text, other, web>> ELSE <<other, text, web>>)>>)>>

Relaying(class, part, methods) ==
  Class(class, "", << >>, << >>,
        <<Copying("copy", IF part = "" THEN << >> ELSE <<Set(Dot(Id("d"), part), Dot(Id("s"), "v"))>>)>> \o methods)

TwoCopies(other) ==
  LET web == Method("web", "(String)", <<Param("p", Str, "RequestBody")>>,
                    Block(<<Let(Data, "a", New("Data", << >>)), Set(Dot(Id("a"), "v"), Id("p")),
                            Let(Data, "b", Call(None, "copy", <<Id("a")>>)), Return(Dot(Id("b"), "v"))>>))
  IN  <<File("Copy.java",
             <<Relaying("Copy", "v", <<web>>), Relaying("Other", other, << >>),
               Class("Data", "", << >>, <<Field("v", Str), Field("w", Str)>>, << >>)>>)>>

SameNames ==
  {Overloaded(params, first) : params \in 1 .. 2, first \in BOOLEAN} \cup {TwoCopies(other) : other \in {"", "v", "w"}}

-----------------------------------------------------------------------------
(* A chain of calls on a local of a lambda, which is typed with the        *)
(* argument around it, where the name is another thing or none at all.     *)

Chain(field) ==
  LET inner == Block(<<Let(<<"Step", "">>, "y", New("Step", << >>)),
                       Call(Call(Id("y"), "next", << >>), "run", <<Id("z")>>)>>)
  IN  <<File("Chain.java",
     <<[Class("Chain", "", << >>, IF field THEN <<Field("y", <<"Data", "">>)>> ELSE << >>,
          <<Method("web", "(String)", <<Param("p", Str, "RequestParam")>>,
              Block(<<Call(Call(Id("Stream"), "of", <<Id("p")>>), "map", <<Lambda("z", inner)>>)>>))>>)
          EXCEPT !.anns = {"RestController"}],
       Class("Step", "", << >>, << >>,
          <<[Method("next", "()", << >>, Block(<<Return(This)>>)) EXCEPT !.ret = <<"Step", "">>],
            Method("run", "(String)", <<Param("c", Str, "")>>, Block(<<Return(Id("c"))>>))>>),
       Class("Data", "", << >>, << >>,
          <<[Method("next", "()", << >>, Block(<<Return(This)>>)) EXCEPT !.ret = Data]>>)>>)>>

Chains == {Chain(field) : field \in BOOLEAN}

-----------------------------------------------------------------------------
(* Interfaces and classes with a method run, and one caller.               *)

Run(body) == Method("run", "(String)", <<Param("c", Str, "")>>, body)
Runs == Run(Block(<<Return(Id("c"))>>))

Hierarchy(up, base, over, receiver) ==
  <<File("H.java",
     <<Interface("I", << >>, <<Run(None)>>),
       Interface("J", IF up THEN <<"I">> ELSE << >>, IF over THEN <<Run(None)>> ELSE << >>),
       Interface("K", <<"J">>, << >>),
       Class("B", "", <<base>>, << >>, <<Runs>>),
       Class("C", "B", << >>, << >>, IF over THEN <<Runs>> ELSE << >>),
       Class("D", "C", << >>, << >>, <<Runs>>),
       Class("Task", "", <<"Runnable">>, << >>, <<Method("run", "()", << >>, Block(<< >>))>>),
       [Class("Caller", "", <<"CommandLineRunner">>, <<Field("r", <<receiver, "">>)>>,
         <<Method("run", "()", << >>,
              Block(<<Call(Id("r"), "run", <<Text>>),
                      Call(Id("pool"), "submit", <<New("Task", << >>)>>),
                      Call(Id("bus"), "publishEvent", <<New("E1", << >>), New("E2", << >>)>>)>>)),
           [Method("on", "(E1)", <<Param("e", <<"E1", "">>, "")>>, Block(<< >>)) EXCEPT !.anns = {"EventListener"}],
           [Method("web", "()", << >>, Block(<< >>)) EXCEPT !.anns = {"GetMapping"}]>>)
         EXCEPT !.inits = <<[static |-> TRUE, at |-> "1", body |-> Block(<<Call(None, "web", << >>)>>)]>>],
       Class("E1", "", << >>, << >>, << >>), Class("E2", "E1", << >>, << >>, << >>)>>)>>

Hierarchies ==
  {Hierarchy(up, base, over, receiver) :
     up \in BOOLEAN, base \in {"I", "J", "K"}, over \in BOOLEAN, receiver \in {"I", "J", "B", "C", "D"}}

-----------------------------------------------------------------------------
(* What the container wires together: constructors, configuration, an      *)
(* aspect, a remote client, overloads.  The constructor may be given its   *)
(* parameter, may clean what it stores, and the aspect may come after.     *)

Ctor(name, x, body) ==
  [Method(name, "(String)", <<x>>, body) EXCEPT !.ctor = TRUE, !.anns = {"Autowired"}]

Wired(ann, stored, advice) ==
  <<File("W.java",
     <<[Class("Svc", "Base", << >>,
          <<Field("dir", Str), [Field("limit", Str) EXCEPT !.anns = {"Value"}], Field("n", <<"int", "">>),
            Field("names", <<"List", "String">>), Field("bean", <<"Bean", "">>), Field("far", <<"Remote", "">>)>>,
          <<Ctor("Svc", [Param("a", Str, ann) EXCEPT !.configured = TRUE],
              Block(<<Node("ctorcall", "super", NoType, << >>), Set(Dot(This, "dir"), stored),
                      Call(Dot(This, "names"), "add", <<Id("a")>>)>>)),
            [Method("work", "()", << >>,
               Block(<<Node("update", "++", NoType, <<Id("n")>>), Node("update", "++", NoType, <<Dot(This, "n")>>),
                       Call(Id("far"), "load", << >>), Call(Id("far"), "ping", << >>), Call(None, "low", << >>),
                       Call(Id("registry"), "addResourceHandler", <<Text>>),
                       Node("mref", "work", NoType, <<This>>), Return(Dot(This, "dir"))>>))
               EXCEPT !.anns = {"Scheduled"}],
            [Method("low", "()", << >>, None) EXCEPT !.native = TRUE],
            [Method("work", "(String)", <<Param("w", Str, "")>>, Block(<<Return(Id("w"))>>))
               EXCEPT !.anns = {"RabbitListener"}],
            Method("local", "(String)", <<Param("w", Str, "")>>,
              Block(<<Let(<<"Bean", "">>, "d", New("Bean", << >>)), Set(Dot(Id("d"), "v"), Id("w")),
                      Call(Id("bean"), "set_v", <<Dot(Id("d"), "v")>>), Call(None, "work", <<Id("w")>>),
                      Call(Id("Method"), "invoke", <<Id("w")>>), Return(Call(Id("bean"), "get_v", << >>))>>))>>)
          EXCEPT !.anns = {"Service"}],
       [Class("Web", "", << >>, <<Field("svc", <<"Svc", "">>)>>,
          <<[Method("get", "(String)", <<Param("p", Str, "PathVariable")>>,
               Block(<<Call(Id("svc"), "local", <<Id("p")>>), Call(Id("svc"), "work", <<Id("p")>>),
                       Return(Call(None, "getHeader", <<Text>>))>>)) EXCEPT !.anns = {"GetMapping"}]>>)
          EXCEPT !.anns = {"RestController"}],
       [Class("Bean", "", << >>, <<Field("v", Str), [Field("count", <<"int", "">>) EXCEPT !.static = TRUE]>>, << >>)
          EXCEPT !.anns = {"Data"}],
       [Interface("Remote", << >>, <<Method("load", "()", << >>, None)>>) EXCEPT !.anns = {"FeignClient"}],
       [Class("Conf", "", << >>, <<Field("dir", Str)>>,
          <<Ctor("Conf", Param("d", Str, ""), Block(<<Set(Dot(This, "dir"), Id("d"))>>))>>)
          EXCEPT !.anns = {"ConfigurationProperties"}],
       Class("Base", "", << >>, << >>, << >>),
       [Class("Check", "", << >>, << >>,
          <<[pointcut |-> [classes |-> {"Svc"}, methods |-> {"work"}]]
              @@ [Method("see", "()", << >>, Block(<< >>)) EXCEPT !.anns = {advice}]>>)
          EXCEPT !.anns = {"Component"}]>>)>>

Wirings ==
  {Wired(ann, stored, advice) :
     ann \in {"", "Value", "RequestParam"},
     stored \in {Id("a"), Call(Id("URLEncoder"), "encode", <<Id("a")>>), Text},
     advice \in {"Before", "After"}}

MCPrograms == AnyBodies \cup Copiers \cup SameNames \cup Chains \cup Hierarchies \cup Wirings
=============================================================================
