--------------------------- MODULE MCTaintQueries ---------------------------
(***************************************************************************)
(* TaintQueries over every repository of five methods whose bodies are     *)
(* taken from a small list: two overloads of one name, a lambda under the  *)
(* name of its method, a mapper, calls in a circle, dynamic and native     *)
(* calls, calls that record no caller, a task handed to an executor, and   *)
(* chains longer than the depth limits.                                    *)
(***************************************************************************)
EXTENDS TaintQueries

MCMethods == {"a", "b1", "b2", "c", "l"}

MCNames == {"A", "B", "C", "Sink", "Query", "Mapper", "Outside", "Init"}

(* The lambda l is written in c. *)
MCNameOf == [m \in MCMethods |->
  CASE m = "a" -> "A" [] m \in {"b1", "b2"} -> "B" [] m \in {"c", "l"} -> "C"]

MCLambdas == [m \in MCMethods |-> IF m = "c" THEN {"l"} ELSE {}]

MCLabel == [n \in MCNames |->
  CASE n = "Sink" -> "sink" [] n = "Query" -> "jpa" [] n = "Mapper" -> "xml" [] OTHER -> "none"]

(* The name A is found when B is searched for. *)
MCSimilar == [n \in MCNames |-> IF n = "B" THEN {"A", "B"} ELSE {n}]

MCStdlib == {"Sink", "Init"}

MCRank == [m \in MCMethods |->
  CASE m = "a" -> 1 [] m = "b1" -> 2 [] m = "b2" -> 3 [] m = "c" -> 4 [] m = "l" -> 5]

(* A call, and how it records its caller: under the definitions of the     *)
(* name, or the name if it has none; under the bare name; or not at all.   *)
Call(n, t, rec) == [edge |-> [to |-> n, type |-> t], rec |-> rec]

To(n) == Call(n, "direct", "defs")
Refers(n) == Call(n, "direct", "none")
Submits(n) == Call(n, "direct", "bare")

(* The bodies a method may have. *)
Bodies == [m \in MCMethods |->
  CASE m = "a"  -> {<<To("B")>>, <<Refers("Init"), To("C"), Refers("B")>>,
                    <<Call("C", "interface", "defs")>>,
                    <<Call("Outside", "reflection", "defs"), Submits("C")>>}
    [] m = "b1" -> {<< >>, <<To("C")>>, <<To("Mapper")>>,
                    <<Call("Outside", "native", "defs"), To("A")>>}
    [] m = "b2" -> {<< >>, <<Refers("C")>>, <<To("A"), To("Query")>>}
    [] m = "c"  -> {<< >>, <<To("Sink")>>, <<To("B"), To("Sink")>>, <<Refers("C")>>}
    [] m = "l"  -> {<< >>, <<To("Query"), To("A")>>, <<To("Sink")>>}]

(* What is known of the methods beside their calls. *)
Contexts ==
  {[tainted |-> {}, entry |-> {"a"}, sources |-> {}],
   [tainted |-> {<<"l", "Query">>, <<"b1", "Outside">>}, entry |-> {"b2"}, sources |-> {"c"}]}

Recording(body, n, rec) ==
  {m \in MCMethods : \E i \in DOMAIN body[m] :
     body[m][i].edge.to = n /\ body[m][i].rec = rec}

(* The lambda is in the index only when c has been read: of the calls of   *)
(* its name, those of b1 come later.                                       *)
Repository(body, x) ==
  [edges   |-> [m \in MCMethods |-> [i \in DOMAIN body[m] |-> body[m][i].edge]],
   listed  |-> {m \in MCMethods : body[m] # << >>},
   defined |-> MCMethods,
   callers |-> [m \in MCMethods |->
                  LET all == Recording(body, MCNameOf[m], "defs")
                  IN IF m = "l" THEN all \cap {"b1"} ELSE all],
   bare    |-> [n \in MCNames |-> Recording(body, n, "bare")],
   unbound |-> [n \in MCNames |->
                  IF \E m \in MCMethods : MCNameOf[m] = n THEN {} ELSE Recording(body, n, "defs")],
   tainted |-> x.tainted,
   feeds   |-> {<<"b1", "C">>},
   entry   |-> x.entry,
   tests   |-> {"b1"},
   sources |-> x.sources]

MCRepositories ==
  {Repository([m \in MCMethods |->
                 CASE m = "a" -> ba [] m = "b1" -> b1 [] m = "b2" -> b2
                   [] m = "c" -> bc [] m = "l" -> bl], x) :
     ba \in Bodies["a"], b1 \in Bodies["b1"], b2 \in Bodies["b2"],
     bc \in Bodies["c"], bl \in Bodies["l"], x \in Contexts}
=============================================================================
