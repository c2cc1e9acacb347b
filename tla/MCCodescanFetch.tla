--------------------------- MODULE MCCodescanFetch ---------------------------
EXTENDS CodescanFetch

MCLevel == [b \in Bug |-> IF b = "b2" THEN 1 ELSE 5]
MCRule == [b \in Bug |-> IF b = "b3" THEN "" ELSE "sqli"]
MCInitial == <<"b1", "b2", "b3">>
MCAsks == {All,
           [levels |-> {5}, rules |-> {"sqli"}, limit |-> 0],
           [levels |-> {5}, rules |-> {UnknownRuleKey}, limit |-> 0],
           [levels |-> {5}, rules |-> {}, limit |-> 1]}
==============================================================================
