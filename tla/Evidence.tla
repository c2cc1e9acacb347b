------------------------------ MODULE Evidence ------------------------------
(***************************************************************************)
(* What one report goes through between the scan and its verdict, as far   *)
(* as evidence is concerned: it is sliced, three tiers enrich the slice,   *)
(* the exploring model may add to it, the model answers, a mapper file it  *)
(* read is promoted into the slice, and the decisive fact is refreshed.    *)
(* An answer given while a required fact is unknown is refused; the model  *)
(* then explores again, what it read is promoted again, and the facts that *)
(* are required are refreshed.  The verifier has the last word: it keeps   *)
(* the answer or makes it uncertain.                                       *)
(*                                                                         *)
(* The other guards of the judge are in JudgeChain: here, all they do is   *)
(* make an answer uncertain or have it given again.                        *)
(***************************************************************************)
EXTENDS Verifier

CONSTANTS
  Alerts,       \* the reports
  Answers,      \* the model's claims
  SecondAnswers, \* those it may make when it is asked again
  Included,     \* the callees enrichment by the model may ask for
  Readings,     \* the mapper files the model may read while it explores, with the
                \* text of the lines it reads
  Required      \* the facts a class of weakness may require, in their order

Report == [path : Seq(Ref), source : Ref, sink : Ref, variable : Word, cwe : Word,
           complete : BOOLEAN]

Facts == {"sink_param_style", "forward_reachable"}

Reading == [file : Word, text : DOMAIN Text]

ASSUME EvidenceAssumption ==
  /\ \A a \in Alerts : a \in Report
  /\ \A a \in Answers : a \in Claim
  /\ SecondAnswers \subseteq Answers
  /\ \A include \in Included : include \in Seq(Methods) /\ Len(include) <= MaxEnrichHops
  /\ \A readings \in Readings : readings \in Seq(Reading)
  /\ \A facts \in Required : facts \in Seq(Facts)

VARIABLES
  phase,
  alert,
  sliced,       \* the slice
  chosen,       \* the hops SliceAlert chose, before any was added
  claim,        \* the model's answer
  asked,        \* what the refused answer lacked: the facts that are required, and
                \* whether the callees are known to be reached
  guarded,      \* the hops the guards of the judge went by
  verdict       \* what is reported

vars == <<phase, alert, sliced, chosen, claim, asked, guarded, verdict>>

NoSlice == [hops |-> <<>>, hints |-> {}, skipped |-> {}, tokens |-> 0, degraded |-> FALSE,
            note |-> {}, uncertain |-> {}, truncated |-> FALSE, style |-> ""]

NoClaim == [verdict |-> "none", payload |-> FALSE, types |-> {}, declared |-> "", checks |-> <<>>]

NothingAsked == [facts |-> <<>>, reached |-> ""]

Init ==
  /\ phase = "reported"
  /\ alert \in Alerts
  /\ sliced = NoSlice
  /\ chosen = <<>>
  /\ claim = NoClaim
  /\ asked = NothingAsked
  /\ guarded = <<>>
  /\ verdict = "none"

-----------------------------------------------------------------------------
Slicing ==
  /\ phase = "reported"
  /\ sliced' = SliceAlert(alert)
  /\ chosen' = sliced'.hops
  /\ phase' = "sliced"
  /\ UNCHANGED <<alert, claim, asked, guarded, verdict>>

\* EnrichForJudge, tier by tier.
CalleeTier ==
  /\ phase = "sliced"
  /\ sliced' = EnrichSlice(sliced)
  /\ phase' = "callees"
  /\ UNCHANGED <<alert, chosen, claim, asked, guarded, verdict>>

MutatorTier ==
  /\ phase = "callees"
  /\ sliced' = EnrichStateMutatingCallees(sliced, alert.cwe)
  /\ phase' = "mutators"
  /\ UNCHANGED <<alert, chosen, claim, asked, guarded, verdict>>

GuardTier ==
  /\ phase = "mutators"
  /\ sliced' = EnrichGuardCallees(sliced)
  /\ phase' = "guards"
  /\ UNCHANGED <<alert, chosen, claim, asked, guarded, verdict>>

\* AgenticEnrichSlice, which adds nothing when the loop fails or is off.
AgenticTier ==
  /\ phase = "guards"
  /\ \E include \in Included :
       sliced' = AppendCalleeHops(sliced, [i \in DOMAIN include |-> MethodHop(include[i], "", "agentic")])
  /\ phase' = "enriched"
  /\ UNCHANGED <<alert, chosen, claim, asked, guarded, verdict>>

\* The judge is not asked about an empty slice.
EmptySlice ==
  /\ phase = "enriched"
  /\ sliced.hops = <<>>
  /\ verdict' = "uncertain"
  /\ phase' = "verified"
  /\ UNCHANGED <<alert, sliced, chosen, claim, asked, guarded>>

Answer ==
  /\ phase = "enriched"
  /\ sliced.hops # <<>>
  /\ claim' \in Answers
  /\ phase' = "answered"
  /\ UNCHANGED <<alert, sliced, chosen, asked, guarded, verdict>>

\* PromoteAgenticXmlToSlice: once per file, and only a text with a "${" in it.
\* The count of tokens stays as it was.
Promotable(read, hops) ==
  /\ \A i \in DOMAIN hops : hops[i].file # read.file
  /\ Text[read.text].dollar

Promoted(hops, read) ==
  IF ~Promotable(read, hops) THEN hops
  ELSE Append(hops, [Hop(read.file, "", read.text, "", {"agentic_xml"})
                       EXCEPT !.index = NextIndex(hops)])

RefreshSinkParamStyle(s) == [s EXCEPT !.style = classifySinkParamStyle(s.hops)]

PromotedAll(hops, readings) ==
  Walked([p \in Seq(HopSet) \X Reading |-> Promoted(p[1], p[2])], hops, readings)

PromoteAgenticXmlToSlice(s, readings) == [s EXCEPT !.hops = PromotedAll(@, readings)]

Promote ==
  /\ phase = "answered"
  /\ \E readings \in Readings :
       sliced' = RefreshSinkParamStyle(PromoteAgenticXmlToSlice(sliced, readings))
  /\ guarded' = sliced'.hops
  /\ phase' = "refreshed"
  /\ UNCHANGED <<alert, chosen, claim, asked, verdict>>

-----------------------------------------------------------------------------
(* The guards, and the second exploration.                                 *)

Known(value) == value \notin {"", "unknown"}

\* What MapForwardReachable makes of the callees.
Reachability == {"", "anchored", "unknown"}

FactOf(fact, reached, style) == IF fact = "sink_param_style" THEN style ELSE reached

Uncertain(answer) == [answer EXCEPT !.verdict = "uncertain"]

\* EnforceDecisiveFactKnown: a required fact is unknown.
Refuse ==
  /\ phase = "refreshed"
  /\ claim.verdict # "uncertain"
  /\ \E facts \in Required, reached \in Reachability :
       /\ \E i \in DOMAIN facts : FactOf(facts[i], reached, sliced.style) = "unknown"
       /\ asked' = [facts |-> facts, reached |-> reached]
  /\ claim' = Uncertain(claim)
  /\ phase' = "refused"
  /\ UNCHANGED <<alert, sliced, chosen, guarded, verdict>>

\* The other guards make an answer uncertain, or have a bare false positive given
\* again and look at the new answer.
Contest ==
  /\ phase = "refreshed"
  /\ \/ claim' = Uncertain(claim)
     \/ /\ claim.verdict = "false_positive"
        /\ \E answer \in SecondAnswers : claim' \in {answer, Uncertain(answer)}
  /\ phase' = "judged"
  /\ UNCHANGED <<alert, sliced, chosen, asked, guarded, verdict>>

\* The callees a second exploration resolves are no longer unknown.
Drained(reached) == IF reached = "unknown" THEN Reachability ELSE {reached}

\* The facts are refreshed in their order, up to one that is still unknown.
StyleRefreshed(facts, reached) ==
  \E i \in DOMAIN facts : /\ facts[i] = "sink_param_style"
                          /\ \A j \in 1..(i - 1) : facts[j] = "sink_param_style" \/ Known(reached)

\* A seeded fault: the facts of the first exploration are kept.
NotRefreshed(s, facts, reached) == s

RefreshedAsAsked(s, facts, reached) ==
  IF StyleRefreshed(facts, reached) THEN RefreshSinkParamStyle(s) ELSE s

Settled(facts, reached, style) ==
  \A i \in DOMAIN facts : Known(FactOf(facts[i], reached, style))

\* rejudgeDecisiveFact, when the second exploration ends with an answer.  That counts
\* when every required fact is known and it can be read; what the exploration
\* promoted stays in any case.
Rejudge ==
  /\ phase = "refused"
  /\ \E readings \in Readings, reached \in Drained(asked.reached) :
       /\ sliced' = RefreshedAsAsked(PromoteAgenticXmlToSlice(sliced, readings), asked.facts, reached)
       /\ \/ UNCHANGED claim
          \/ Settled(asked.facts, reached, sliced'.style) /\ claim' \in SecondAnswers
  /\ phase' = "judged"
  /\ UNCHANGED <<alert, chosen, asked, guarded, verdict>>

\* After the guards, with or without a second exploration that ended.
Verify ==
  /\ phase \in {"refreshed", "refused", "judged"}
  /\ verdict' = VerifyVerdict(claim, sliced.hops)
  /\ phase' = "verified"
  /\ UNCHANGED <<alert, sliced, chosen, claim, asked, guarded>>

Next ==
  \/ Slicing \/ CalleeTier \/ MutatorTier \/ GuardTier \/ AgenticTier
  \/ EmptySlice \/ Answer \/ Promote \/ Refuse \/ Contest \/ Rejudge \/ Verify

Spec == Init /\ [][Next]_vars

-----------------------------------------------------------------------------
(* Properties.                                                             *)

\* What is asked of the slice is asked until the model is.
Enriched == phase \in {"callees", "mutators", "guards", "enriched"}
Sliced   == phase = "sliced" \/ Enriched

\* After enrichment, every method of the repository that a hop SliceAlert chose
\* may call is shown in the slice, or listed as unseen, or is an accessor: only a
\* degraded slice leaves out more.  The key is the file and the name: a callee that
\* shares its name with a hop is not taken for that hop (the comment calls this
\* defect 2).
NothingOmittedSilently ==
  Enriched /\ ~sliced.degraded =>
    \A i \in DOMAIN chosen : \A d \in ToSet(ResolvableCallees(chosen[i].text)) :
      \/ Key(d) \in Keys(sliced.hops) \cup sliced.uncertain
      \/ Def[d].name \in AccessorNames

\* The method the walk for mapper statements starts from.
Roots(hops) == {i \in DOMAIN hops : IsRoot(hops[i])}

FirstRoot(hops) ==
  {Resolve(hops[i].name)[1] : i \in {i \in Roots(hops) : \A j \in Roots(hops) : i <= j}}

\* The methods of one file and name are of one class: no inner class has another.
OneClass(d) == \A e \in Methods : Key(e) = Key(d) => Def[e].class = Def[d].class

\* A mapper statement that the first method of the slice calls itself is in the
\* slice, however many other methods the walk visited before it came to that call
\* (the comment in eagerResolveMapperXml names the case where the budget of
\* twenty was used up by getters).
MapperNeverStarved ==
  Sliced /\ ~sliced.degraded =>
    \A root \in FirstRoot(chosen) : MapperHits(root) = <<>> =>
      \A d \in ToSet(EagerCallees(root)) : OneClass(d) =>
        \A b \in ToSet(MapperHits(d)) : <<b.file, b.name>> \in Keys(sliced.hops)

\* Callees that change state and are called on the path.
MutatorsOnPath(hops) ==
  UNION {ToSet(Pulled(hops[i].text)) : i \in {j \in DOMAIN hops : hops[j].from = {}}}

\* The overloads of a method rank as it does.
OneRank(d) == \A e \in Methods : Key(e) = Key(d) => stateMutatingRank(e) = stateMutatingRank(d)

\* When the cap leaves out callees that change state, it leaves out the mildest: no
\* hop the tier adds ranks below a callee of the path it left out.  The transaction
\* that is the sink is not crowded out by converters of a promising name.  (Of
\* overloads of one name only the one met first is a candidate.)
SevereFirst ==
  [][phase = "callees" /\ phase' = "mutators" /\ alert.cwe \in GatedCwe /\ ~sliced'.degraded =>
       \A d \in MutatorsOnPath(sliced.hops) : OneRank(d) /\ Key(d) \notin Keys(sliced'.hops) =>
         \A i \in DOMAIN sliced'.hops : HopKey(sliced'.hops[i]) \notin Keys(sliced.hops) =>
           stateMutatingRank(sliced'.hops[i].text) <= stateMutatingRank(d)]_vars

\* The hops of the taint path, and what was expanded from one of them.
PathNames(hops) ==
  {hops[i].name : i \in {j \in DOMAIN hops : hops[j].from \subseteq {"raw_passthrough"}}}

\* When the report's path is complete, no search for state changes was made and no
\* hop was dropped, the variables a strongly typed parameter is compared with are
\* those of the path and of callees it passes them to.  A variable guessed for a
\* method that only the walk for mapper statements met is not among them: a
\* parameter of a sibling call cannot veto the verdict.
TaintEvidenceIsOnThePath ==
  Sliced /\ ~sliced.degraded /\ alert.complete /\ alert.cwe \notin GatedCwe =>
    \A v \in hopTaintVariables(sliced.hops) : \E i \in DOMAIN sliced.hops :
      /\ sliced.hops[i].variable = v
      /\ sliced.hops[i].from \subseteq {"raw_passthrough"} \cup PathNames(chosen)

Recognised(checks) == Pick(checks, {i \in DOMAIN checks : checks[i].guard.kind \in Kinds})

Verified == phase = "verified" /\ sliced.hops # <<>>

\* Guards of a kind the probe does not know, which the model cites freely, neither
\* save a verdict nor overturn it, and the order of the citations makes no
\* difference: what counts is the set of guards the probe can judge.
CitationsAreASet ==
  Verified => verdict = VerifyVerdict([claim EXCEPT !.checks = Reverse(Recognised(@))], sliced.hops)

\* What the slice shows to be bypassable, to the probe's eye.
BypassableConcat(hops) ==
  HasConcat(hops) /\ ConcatProbe(hops) = "guard_bypassable"

\* The second exploration brought a file, and the style is none of the facts that
\* are required: it is not looked at again.
StyleLeft == guarded # sliced.hops /\ "sink_param_style" \notin ToSet(asked.facts)

\* The verifier and the decisive fact the guards of the judge went by do not
\* contradict each other: where the fact says the statement binds its parameters,
\* the probe finds no concatenation in the hops the guards saw, also when one was
\* added by enrichment or promotion after the report was sliced; and none in the
\* hops a conclusive verdict rests on, unless the second exploration brought it for
\* a class of weakness that does not require the fact.
StyleAgreesWithTheProbe ==
  sliced.style = "parameterized" =>
    /\ phase \in {"refreshed", "refused"} => ~BypassableConcat(guarded)
    /\ phase = "verified" /\ verdict \in {"true_positive", "false_positive"} /\ ~StyleLeft
         => ~BypassableConcat(sliced.hops)

=============================================================================
