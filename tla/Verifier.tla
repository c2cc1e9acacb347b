------------------------------ MODULE Verifier ------------------------------
(***************************************************************************)
(* The deterministic verifier: the guards found in a slice and those the   *)
(* model cites are probed one by one, and a conclusive verdict the probes  *)
(* contradict becomes uncertain.                                           *)
(*                                                                         *)
(* What the search in a guard's code finds is a path separator, and how    *)
(* the corpus of traversal payloads fares against a pattern or a           *)
(* replacement ("escapes", "held", or "opaque" when it cannot be           *)
(* simulated).                                                             *)
(***************************************************************************)
EXTENDS Slicer

PathKinds == {"regex", "string_replace", "prefix_startswith"}
SqlKinds  == {"mybatis_param", "mybatis_concat", "preparedstatement_bind"}
Kinds     == PathKinds \cup SqlKinds \cup {"strong_type_param"}

\* The search for guards finds the prepared statements that the search for executors
\* finds, and a placeholder it finds is one of those that a search without a look at
\* the name finds.
ASSUME TextAssumption ==
  \A t \in DOMAIN Text :
    /\ \A i \in DOMAIN Text[t].guards : Text[t].guards[i].kind \in Kinds
    /\ "prepared" \in Text[t].executors => HasKind(t, {"preparedstatement_bind"})
    /\ HasKind(t, {"mybatis_concat"}) => Text[t].dollar
    /\ HasKind(t, {"mybatis_param"}) => Text[t].hash

-----------------------------------------------------------------------------
(* What the slice offers as guards.                                        *)

GuardsIn(hop) ==
  [i \in DOMAIN Text[hop.text].guards |->
     [guard |-> Text[hop.text].guards[i], file |-> hop.file, source |-> hop.name,
      asserts |-> ""]]

ExtractSanitizersFromSlice(hops) ==
  FlattenSeq([i \in DOMAIN hops |-> GuardsIn(hops[i])])

-----------------------------------------------------------------------------
(* A guard applied to a copy: x = clean(y) in a hop, where clean is a       *)
(* function the slice found a guard in, and y still reaches the sink.       *)

GuardCallees(hops) == {hops[i].name : i \in {j \in DOMAIN hops : Text[hops[j].text].guards # <<>>}} \ {""}

Assignments(hops) == FlattenSeq([i \in DOMAIN hops |-> Text[hops[i].text].assigns])

\* The assignments of a copy that decide, either way.
Deciding(assigns, callees) ==
  {i \in DOMAIN assigns : /\ assigns[i].copy # assigns[i].taint /\ assigns[i].callee \in callees
                          /\ assigns[i].reassigned \/ assigns[i].rejoined}

\* The first of them does.
DetectGuardVariableBypass(hops) ==
  LET assigns == Assignments(hops)
      deciding == Deciding(assigns, GuardCallees(hops))
  IN  \E i \in deciding : (\A j \in deciding : i <= j) /\ ~assigns[i].reassigned

-----------------------------------------------------------------------------
(* The variables a guard has to be about.                                  *)

\* Those the model's own citations say reach the sink.
sinkTaintedVars(checks) ==
  UNION {checks[i].guard.vars : i \in {j \in DOMAIN checks :
           checks[j].guard.kind = "mybatis_concat" /\ checks[j].asserts \in {"", "allows"}}}

EagerMark == {"eager_callee", "eager_guard", "mybatis_xml_eager"}

eagerFns(hops) ==
  {hops[i].name : i \in {j \in DOMAIN hops : hops[j].from \cap EagerMark # {}}} \ {""}

\* A seeded fault: what hangs below an eager hop counts as tainted.
DirectlyEager(hops) == EagerMark

FromEager(hops) == EagerMark \cup eagerFns(hops)

hopTaintVariables(hops) ==
  {hops[i].variable : i \in {j \in DOMAIN hops : hops[j].from \cap FromEager(hops) = {}}} \ {""}

-----------------------------------------------------------------------------
(* The probes.                                                             *)

\* BASE = "..." or startsWith("...") of the first hop that has one.
ExtractBaseLiteralFromSlice(hops) ==
  LET bases == {i \in DOMAIN hops : Text[hops[i].text].base # ""}
  IN  IF bases = {} THEN ""
      ELSE Text[hops[CHOOSE i \in bases : \A j \in bases : i <= j].text].base

PrefixProbe(guard, hops) ==
  CASE guard.separator                           -> "guard_effective"
    [] ExtractBaseLiteralFromSlice(hops) = "/"   -> "not_verifiable"
    [] OTHER                                     -> "guard_bypassable"

ParamProbe(guard, hops, sinkVars) ==
  IF /\ guard.vars \cap sinkVars # {}
     /\ isMybatisMapperContext(hops) \/ executorVisible(hops) = "prepared"
  THEN "guard_effective" ELSE "not_verifiable"

ConcatProbe(hops) ==
  CASE executorVisible(hops) = "raw_concat" -> "guard_bypassable"
    [] executorVisible(hops) = "prepared"   -> "not_verifiable"
    [] isMybatisMapperContext(hops)         -> "guard_bypassable"
    [] OTHER                                -> "not_verifiable"

StrongTypeProbe(guard, relevant) ==
  IF guard.vars \cap relevant # {} THEN "guard_effective" ELSE "not_verifiable"

RelevantVars(hops, sinkVars) == IF sinkVars # {} THEN sinkVars ELSE hopTaintVariables(hops)

CorpusOutcome == [escapes |-> "guard_bypassable", held |-> "guard_effective",
                  opaque |-> "not_verifiable"]

\* Calibrated for path traversal only.
CorpusProbe(guard, types, declared) ==
  IF "path_traversal" \in types \/ declared \in {"", "path_traversal"}
  THEN CorpusOutcome[guard.corpus] ELSE "not_verifiable"

probeDecisiveCheck(guard, claim, hops, sinkVars) ==
  CASE guard.kind = "prefix_startswith"           -> PrefixProbe(guard, hops)
    [] guard.kind = "mybatis_param"               -> ParamProbe(guard, hops, sinkVars)
    [] guard.kind = "mybatis_concat"              -> ConcatProbe(hops)
    [] guard.kind = "preparedstatement_bind"      -> "guard_effective"
    [] guard.kind = "strong_type_param"           ->
         StrongTypeProbe(guard, RelevantVars(hops, sinkVars))
    [] guard.kind \in {"regex", "string_replace"} ->
         CorpusProbe(guard, claim.types, claim.declared)
    [] OTHER                                      -> "not_verifiable"

-----------------------------------------------------------------------------
(* Which guards may speak against the verdict.                             *)

sanitizerClasses(kind) ==
  (IF kind \in PathKinds \cup {"strong_type_param"} THEN {"path_traversal"} ELSE {})
    \cup (IF kind \in SqlKinds \cup {"strong_type_param"} THEN {"sql_injection"} ELSE {})

SanitizerClassFaces == UNION {sanitizerClasses(kind) : kind \in Kinds}

guardRelevant(kind, asserts, types) ==
  asserts # "allows" /\ sanitizerClasses(kind) \cap types # {}

\* A strongly typed parameter is about the case when the probe found it to be.
guardRelevantFor(kind, asserts, types, status) ==
  IF kind = "strong_type_param" THEN status = "guard_effective"
  ELSE guardRelevant(kind, asserts, types)

OnClass(kind, types) ==
  sanitizerClasses(kind) = {} \/ types = {} \/ sanitizerClasses(kind) \cap types # {}

AnyOnClass(guards, status, types) ==
  \E i \in DOMAIN guards : guards[i].status = status /\ OnClass(guards[i].kind, types)

RelevantNv(guards) ==
  Pick(guards, {i \in DOMAIN guards : guards[i].status = "not_verifiable" /\ guards[i].relevant})

\* A seeded fault: what the probe does not know counts as a guard it cannot judge.
AnyNv(guards) == Pick(guards, {i \in DOMAIN guards : guards[i].status = "not_verifiable"})

DecisiveNv(guards) == RelevantNv(guards)

\* Without a payload a true positive is about access, and what guards a payload
\* has nothing to say to it.
EffTypes(claim) == IF claim.payload THEN claim.types ELSE claim.types \ SanitizerClassFaces

tpContradiction(guards, claim) ==
  \/ AnyOnClass(guards, "guard_effective", EffTypes(claim))
  \/ /\ DecisiveNv(guards) # <<>>
     /\ ~AnyOnClass(guards, "guard_bypassable", EffTypes(claim))

fpContradiction(guards, claim) == AnyOnClass(guards, "guard_bypassable", claim.types)

anyInSlice(guards, hops) ==
  \E i \in DOMAIN guards : \E j \in DOMAIN hops :
    guards[i].file # "" /\ guards[i].file = hops[j].file

fpNvOutOfSliceContradiction(guards, hops) ==
  /\ \A i \in DOMAIN guards : guards[i].status # "guard_effective"
  /\ DecisiveNv(guards) # <<>>
  /\ ~anyInSlice(DecisiveNv(guards), hops)

-----------------------------------------------------------------------------
(* The verdict.  A claim is the model's answer: the verdict, whether it     *)
(* gives a payload, the types it names, the type of the report, and the     *)
(* guards it cites.                                                         *)

Citation == [guard : Guard, asserts : Word, file : Word, source : Word]

Claim == [verdict : {"true_positive", "false_positive", "uncertain"}, payload : BOOLEAN,
          types : SUBSET Word, declared : Word, checks : Seq(Citation)]

Evaluated(found, status, types) ==
  [kind |-> found.guard.kind, file |-> found.file, status |-> status,
   relevant |-> guardRelevantFor(found.guard.kind, found.asserts, types, status)]

Probed(founds, claim, hops, sinkVars) ==
  [i \in DOMAIN founds |->
     Evaluated(founds[i], probeDecisiveCheck(founds[i].guard, claim, hops, sinkVars),
               claim.types)]

Codes(founds) == {founds[i].guard.code : i \in DOMAIN founds}

\* Citations of a guard the slice shows are left out.
CitedOnly(checks, codes) ==
  Pick(checks, {i \in DOMAIN checks : checks[i].guard.code \notin codes \cup {""}})

GuardsAgainst(claim, hops, founds) ==
  Probed(founds \o CitedOnly(claim.checks, Codes(founds)), claim, hops,
         sinkTaintedVars(claim.checks))

evaluateGuards(claim, hops) == GuardsAgainst(claim, hops, ExtractSanitizersFromSlice(hops))

Contradicted(guards, claim, hops) ==
  CASE claim.verdict = "true_positive"  -> tpContradiction(guards, claim)
    [] claim.verdict = "false_positive" -> \/ fpContradiction(guards, claim)
                                           \/ fpNvOutOfSliceContradiction(guards, hops)
    [] OTHER                            -> FALSE

\* A bypass settles it: a false positive falls, everything else is kept.
Overturned(claim, hops) ==
  IF DetectGuardVariableBypass(hops) THEN claim.verdict = "false_positive"
  ELSE Contradicted(evaluateGuards(claim, hops), claim, hops)

VerifyVerdict(claim, hops) ==
  IF Overturned(claim, hops) THEN "uncertain" ELSE claim.verdict

=============================================================================
