------------------------------ MODULE MCEvidence ------------------------------
(***************************************************************************)
(* A small repository for Evidence: one package per way of slicing.        *)
(***************************************************************************)
EXTENDS Evidence

\* Calls and guards.
C(name, args) == [name |-> name, receiver |-> "", args |-> args]
On(receiver, name, args) == [name |-> name, receiver |-> receiver, args |-> args]

G(kind, code, variables) ==
  [kind |-> kind, code |-> code, vars |-> variables, corpus |-> "opaque", separator |-> FALSE]
Escaping(g) == [g EXCEPT !.corpus = "escapes"]
Holding(g)  == [g EXCEPT !.corpus = "held"]

\* A plain body, and what may be special about one.
Plain(params, calls) ==
  [calls |-> calls, params |-> params, tokens |-> 1, hints |-> {}, guards |-> <<>>,
   assigns |-> <<>>, executors |-> {}, tag |-> FALSE, dollar |-> FALSE, hash |-> FALSE,
   base |-> "", bound |-> "", writes |-> FALSE, foreign |-> FALSE]

Concat(v) == G("mybatis_concat", "$" \o v, {v})
Param(v)  == G("mybatis_param", "#" \o v, {v})
Long(v)   == G("strong_type_param", "Long " \o v, {v})
Bind      == G("preparedstatement_bind", "bind", {})

\* The placeholders of a statement: ${v}, #{v}, and ${a.b}, which has no plain name.
Concatenates(v, text) == [text EXCEPT !.dollar = TRUE, !.guards = Append(@, Concat(v))]
Binds(v, text)        == [text EXCEPT !.hash = TRUE, !.guards = Append(@, Param(v))]
Dotted(text)          == [text EXCEPT !.dollar = TRUE]
Tagged                == [Plain(<<>>, <<>>) EXCEPT !.tag = TRUE]

D(name, file, class) == [name |-> name, file |-> file, class |-> class]

MCDef ==
  [ctl_send   |-> D("send", "A.java", "A"),
   msg_send   |-> D("send", "B.java", "B"),
   check_a    |-> D("check", "B.java", "B"),
   check_b    |-> D("check", "C.java", "C"),
   getter     |-> D("getX", "B.java", "B"),
   store      |-> D("store", "C.java", "C"),
   depth      |-> D("depth", "C.java", "C"),
   ctl_list   |-> D("list", "L.java", "L"),
   vo1        |-> D("vo1", "V.java", "V"),
   vo2        |-> D("vo2", "V.java", "V"),
   vo3        |-> D("vo3", "V.java", "V"),
   mid        |-> D("mid", "M.java", "M"),
   mid_util   |-> D("util", "M.java", "M"),
   find       |-> D("find", "Mapper.java", "Mapper"),
   page       |-> D("page", "Mapper.java", "Mapper"),
   revoke     |-> D("revokeAll", "R.java", "R"),
   upd1       |-> D("update", "R.java", "R"),
   upd2       |-> D("updateAll", "R.java", "R"),
   cancel     |-> D("cancel", "S.java", "S"),
   tx         |-> D("insert", "S.java", "S"),
   handle     |-> D("handle", "T.java", "T"),
   save       |-> D("save", "T.java", "T"),
   del        |-> D("del", "X.java", "X"),
   call1      |-> D("call1", "X.java", "X"),
   call2      |-> D("call2", "X.java", "X"),
   call3      |-> D("call3", "X.java", "X"),
   call4      |-> D("call4", "X.java", "X"),
   sql        |-> D("sql", "Y.java", "Y"),
   raw        |-> D("raw", "Y.java", "Y"),
   clean      |-> D("clean", "Z.java", "Z"),
   upload     |-> D("upload", "Z.java", "Z")]

MCOrder ==
  <<"ctl_send", "msg_send", "check_a", "getter", "check_b", "store", "depth", "ctl_list",
    "mid", "mid_util", "find", "page", "revoke", "upd1", "upd2", "cancel", "tx", "handle",
    "save", "vo1", "vo2", "vo3", "del", "call4", "call3", "call2", "call1", "sql", "raw",
    "clean", "upload">>

MCByFile ==
  <<"ctl_send", "check_a", "getter", "msg_send", "check_b", "depth", "store", "ctl_list",
    "mid", "mid_util", "find", "page", "revoke", "upd1", "upd2", "cancel", "tx", "handle",
    "save", "vo1", "vo2", "vo3", "call1", "call2", "call3", "call4", "del", "raw", "sql",
    "clean", "upload">>

MCText ==
  [ctl_send |-> [Plain(<<"x", "id">>, <<On("B", "send", <<{"y"}>>), C("check", <<{"x"}>>), C("getX", <<>>),
                           C("get", <<>>), C("store", <<{"id"}, {"x"}>>), C("jdk", <<{"x"}>>)>>)
                   EXCEPT !.bound = "x", !.guards = <<Long("id")>>],
   msg_send |-> Plain(<<"m">>, <<>>),
   check_a  |-> [Plain(<<"n">>, <<>>) EXCEPT !.hints = {"check"}, !.guards = <<Escaping(G("regex", "re", {}))>>],
   check_b  |-> [Plain(<<"n">>, <<>>) EXCEPT !.hints = {"check"}, !.base = "/"],
   getter   |-> Plain(<<>>, <<>>),
   store    |-> [Plain(<<"k", "n">>, <<C("depth", <<{"n"}>>)>>) EXCEPT !.foreign = TRUE, !.hints = {"clean"}],
   depth    |-> [Plain(<<"p">>, <<>>) EXCEPT !.guards = <<Holding(G("string_replace", "rep", {}))>>],
   ctl_list |-> Plain(<<"q", "id">>, <<C("vo1", <<>>), C("mid", <<{}>>), C("vo2", <<>>), C("vo3", <<>>),
                           C("find", <<{"q"}>>)>>),
   vo1      |-> Plain(<<>>, <<>>),
   vo2      |-> Plain(<<>>, <<>>),
   vo3      |-> Plain(<<>>, <<>>),
   mid      |-> Plain(<<"id">>, <<C("page", <<{"id"}>>), C("util", <<{"id"}>>)>>),
   mid_util |-> [Plain(<<"id">>, <<>>) EXCEPT !.guards = <<Long("id")>>],
   find     |-> Plain(<<"q">>, <<>>),
   page     |-> Plain(<<"id">>, <<>>),
   revoke   |-> [Plain(<<"t">>, <<C("update", <<>>), C("updateAll", <<>>), C("cancel", <<{"t"}>>)>>)
                   EXCEPT !.tokens = 1],
   upd1     |-> Plain(<<>>, <<>>),
   upd2     |-> Plain(<<>>, <<>>),
   cancel   |-> Plain(<<"c">>, <<C("insert", <<{"c"}>>)>>),
   tx       |-> [Plain(<<"o">>, <<>>) EXCEPT !.writes = TRUE],
   handle   |-> Plain(<<"h">>, <<C("revokeAll", <<{"h"}>>), C("save", <<{"h"}>>)>>),
   save     |-> [Plain(<<"s">>, <<>>) EXCEPT !.guards = <<Long("s")>>],
   del      |-> [Plain(<<"d">>, <<>>) EXCEPT !.tokens = 4],
   call1    |-> [Plain(<<"a">>, <<C("del", <<{"a"}>>)>>) EXCEPT !.tokens = 4],
   call2    |-> [Plain(<<"a">>, <<C("call1", <<{"a"}>>)>>) EXCEPT !.tokens = 4],
   call3    |-> [Plain(<<"a">>, <<C("call2", <<{"a"}>>)>>) EXCEPT !.tokens = 4],
   call4    |-> [Plain(<<"a">>, <<C("call3", <<{"a"}>>)>>) EXCEPT !.tokens = 4],
   sql      |-> Binds("v", [Plain(<<"v">>, <<C("raw", <<{"v"}>>)>>) EXCEPT !.tag = TRUE, !.bound = "v"]),
   raw      |-> Concatenates("w", [Plain(<<"w">>, <<>>) EXCEPT !.executors = {"raw_concat"}]),
   clean    |-> [Plain(<<"u">>, <<>>) EXCEPT !.guards = <<Holding(G("string_replace", "rep", {}))>>],
   upload   |-> [Plain(<<"u">>, <<C("clean", <<{"u"}>>)>>) EXCEPT !.bound = "u",
                   !.assigns = <<[copy |-> "s", taint |-> "u", callee |-> "clean", reassigned |-> FALSE,
                                  rejoined |-> TRUE]>>],
   find_xml |-> Concatenates("q", Tagged),
   page_xml |-> Binds("id", Tagged),
   order_xml |-> Dotted(Tagged),
   snippet  |-> Binds("z", Tagged),
   read     |-> Concatenates("z", Tagged),
   elided   |-> [Plain(<<>>, <<>>) EXCEPT !.tokens = 0]]

\* The namespace of the orders ends with the name of the other class too.
MCBlocks ==
  <<[text |-> "find_xml", file |-> "Mapper.xml", name |-> "find", ends |-> {"", "Mapper"}],
    [text |-> "order_xml", file |-> "Order.xml", name |-> "page", ends |-> {"", "Mapper", "OrderMapper"}],
    [text |-> "page_xml", file |-> "Mapper.xml", name |-> "page", ends |-> {"", "Mapper"}]>>

MCSnippet == (<<"Raw.xml", "7">> :> "snippet")
Read(file, text) == [file |-> file, text |-> text]
MCReadings ==
  {<<>>, <<Read("Other.xml", "snippet"), Read("Other.xml", "read"), Read("Other.xml", "read")>>,
   <<Read("Mapper.xml", "find_xml")>>}

MCRequired ==
  {<<"forward_reachable">>, <<"sink_param_style", "forward_reachable">>,
   <<"forward_reachable", "sink_param_style">>}

MCBare == ("X.del(Long)" :> "del")

MCJava == {MCDef[d].file : d \in DOMAIN MCDef} \cup {"Gone.java"}
MCXml == {"Mapper.xml", "Order.xml", "Raw.xml", "Other.xml"}
MCFiles == (MCJava \ {"Gone.java"}) \cup {"Raw.xml"}

At(file, function, line) == [file |-> file, function |-> function, line |-> line]
Nowhere == At("", "", "")

Alert(path, sink, variable, cwe, complete) ==
  [path |-> path, source |-> IF path = <<>> THEN At("Z.java", "", "upload") ELSE path[1],
   sink |-> sink, variable |-> variable, cwe |-> cwe, complete |-> complete]

Send   == At("A.java", "send", "")
List   == At("L.java", "list", "")
Mid    == At("M.java", "mid", "")
Revoke == At("R.java", "revokeAll", "")
Del    == At("X.java", "X.del(Long)", "del")
SqlRef == At("Y.java", "sql", "")
Upload == At("Z.java", "upload", "")

MCAlerts ==
  {Alert(<<Send, At("C.java", "store", "")>>, Nowhere, "x", "CWE-22", TRUE),
   Alert(<<Send, Send, At("Gone.java", "f", "")>>, Nowhere, "", "CWE-22", FALSE),
   Alert(<<List>>, Nowhere, "q", "CWE-89", TRUE),
   Alert(<<List>>, At("Mapper.java", "find", ""), Prose, "CWE-89", FALSE),
   Alert(<<Mid>>, Nowhere, "id", "CWE-89", TRUE),
   Alert(<<Revoke>>, Nowhere, "t", "CWE-862", TRUE),
   Alert(<<Del>>, Del, "", "CWE-89", FALSE),
   Alert(<<SqlRef, At("Raw.xml", "", "7")>>, Nowhere, "", "CWE-89", TRUE),
   Alert(<<>>, Upload, "u", "CWE-22", TRUE),
   Alert(<<At("Gone.xml", "", "")>>, Nowhere, "", "CWE-22", FALSE),
   [Alert(<<>>, Nowhere, "", "CWE-22", TRUE) EXCEPT !.source = Nowhere]}

MCIncluded == {<<>>, <<"check_b">>, <<"raw", "raw">>}

Cite(g, asserts, file) == [guard |-> g, asserts |-> asserts, file |-> file, source |-> ""]

Other    == Cite(G("other", "if", {}), "blocks", "A.java")
OpaqueIn == Cite(G("regex", "p1", {}), "blocks", "A.java")
OpaqueOut == Cite(G("regex", "p2", {}), "blocks", "Far.java")
Allowed  == Cite(Concat("q"), "allows", "Mapper.xml")
Typed    == Cite(Long("id"), "blocks", "A.java")
StartsWith   == Cite(G("prefix_startswith", "sw", {}), "blocks", "A.java")
Prefixed == Cite([G("prefix_startswith", "sw+", {}) EXCEPT !.separator = TRUE], "blocks", "")
Bound    == Cite(Bind, "blocks", "Far.java")

MCChecks ==
  {<<>>, <<Other>>, <<OpaqueIn, OpaqueOut>>, <<OpaqueOut, OpaqueIn, Other>>, <<Allowed, Typed>>,
   <<Typed>>, <<StartsWith>>, <<Prefixed, StartsWith>>, <<Bound, Other>>, <<Cite(Param("q"), "blocks", ""), Allowed>>}

\* A payload matters to a true positive only.
MCAnswers ==
  {[verdict |-> v[1], payload |-> v[2], types |-> t, declared |-> "path_traversal", checks |-> c] :
     v \in {<<"true_positive", TRUE>>, <<"true_positive", FALSE>>, <<"false_positive", TRUE>>},
     t \in {{}, {"path_traversal"}, {"sql_injection", "idor"}}, c \in MCChecks}
  \cup {[NoClaim EXCEPT !.verdict = "uncertain", !.checks = <<Bound>>]}

\* Whatever is cited, the second time it is about one class of weakness.
MCSecondAnswers ==
  {a \in MCAnswers : a.types = {"sql_injection", "idor"} /\ a.payload /\ Len(a.checks) = 2}

=============================================================================
