---------------------------- MODULE MCTaintFacts ----------------------------
(***************************************************************************)
(* TaintFacts over stores put together from what a body leaves behind: a   *)
(* setter, a getter, a chain through a local, an assignment from a call    *)
(* resolved or not, a call of an overloaded method, a collection field.    *)
(***************************************************************************)
EXTENDS TaintFacts, FiniteSetsExt, TLC

CONSTANT MaxStatements  \* statements in a store

Set == <<"A", "set", "(S)">>
Get == <<"A", "get", "()">>
Run == <<"B", "run", "(S)">>
Act1 == <<"C", "act", "(S)">>
Act2 == <<"C", "act", "(S,S)">>
F == <<"A", "f">>
G == <<"B", "g">>
Act == <<"C", "act">>

Nothing ==
  [paramToField |-> {}, paramToReturn |-> {}, returnToLocal |-> {}, locals |-> {},
   localSources |-> {}, localReturn |-> {}, localToField |-> {}, callSites |-> {},
   assignments |-> {}, fieldEdges |-> {}, fieldReturns |-> {}, returnTaints |-> {},
   paramToCallParam |-> {}, fieldReadLocals |-> {}, collectionFields |-> {},
   accessNames |-> {"get"}, fieldTaints |-> {}, paramTaints |-> {}, callParamTaints |-> {},
   named |-> (<<"A", "set">> :> <<Set>>) @@ (<<"A", "get">> :> <<Get>>)
             @@ (<<"B", "run">> :> <<Run>>) @@ (Act :> <<Act1, Act2>>),
   paramOrder |-> {<<Set, "p", 0>>, <<Run, "q", 0>>, <<Act1, "x", 0>>,
                   <<Act2, "x", 0>>, <<Act2, "y", 1>>},
   paramCounts |-> {<<Set, 1>>, <<Get, 0>>, <<Run, 1>>, <<Act1, 1>>, <<Act2, 2>>}]

(* One statement's worth of relations. *)
Statements ==
  {[paramToField |-> {<<Set, "p", F>>}],
   [paramToReturn |-> {<<Act1, "x">>}],
   [fieldReturns |-> {<<F, Get>>}],
   [fieldEdges |-> {<<F, G>>}],
   [fieldEdges |-> {<<G, F>>}],
   [returnToLocal |-> {<<Get, Run, "v">>}, locals |-> {<<Run, "v">>},
    localReturn |-> {<<Run, "v">>}],
   [returnToLocal |-> {<<Act1, Run, "v">>, <<Act2, Run, "v">>}, locals |-> {<<Run, "v">>},
    localToField |-> {<<Run, "v", G>>}],
   [callSites |-> {[field |-> G, caller |-> Run, callee |-> Get, pattern |-> <<"A", "get">>,
                    args |-> 0, line |-> 3]}, assignments |-> {<<G, Run, 3>>}],
   [callSites |-> {[field |-> F, caller |-> Set, callee |-> NoMethod, pattern |-> Act,
                    args |-> 2, line |-> 7]}, assignments |-> {<<F, Set, 7>>}],
   [paramToCallParam |-> {<<Run, "q", Act, 0>>}, callParamTaints |-> {<<Act, 0, "s1">>}],
   [callParamTaints |-> {<<Act, 1, "s2">>, <<<<"A", "set">>, 0, "s2">>}],
   [fieldReturns |-> {<<G, Act2>>}, collectionFields |-> {G}],
   [localSources |-> {<<Run, "v", "s1">>}, locals |-> {<<Run, "v">>}]}

(* What the annotations and the bodies tainted. *)
Beginnings ==
  {[paramTaints |-> {<<Set, "p", "s1">>}],
   [paramTaints |-> {<<Run, "q", "s1">>}, returnTaints |-> {<<Get, "s2">>}],
   [fieldTaints |-> {<<F, "USER_INPUT", "s1", NoVia>>}, returnTaints |-> {<<Act2, "s1">>}]}

Combined(parts) ==
  [r \in DOMAIN Nothing |->
     IF r \in {"named", "paramOrder", "paramCounts", "accessNames"} THEN Nothing[r]
     ELSE UNION {p[r] : p \in {x \in parts : r \in DOMAIN x}}]

MCStores ==
  {Combined({b} \cup q) : b \in Beginnings, q \in UNION {kSubset(k, Statements) : k \in 1 .. MaxStatements}}
=============================================================================
