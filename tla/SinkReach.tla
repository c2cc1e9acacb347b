----------------------------- MODULE SinkReach -----------------------------
(***************************************************************************)
(* CallerHasDangerousSink of src/taint/engine/query.go: does a method      *)
(* reach a dangerous sink, and if the answer is no, why.                   *)
(*                                                                         *)
(* The recursive walk is a stack of frames, one per method under           *)
(* examination.  Every step enters a callee, looks at one edge, or         *)
(* returns.  A method is visited once in the whole walk, whatever the      *)
(* depth it was met at; the keys behind one call come in the order of a    *)
(* map, that is in any order.                                              *)
(***************************************************************************)
EXTENDS CallGraph

CONSTANTS MaxSinkReachDepth,  \* maxSinkReachDepth, 24 in the code
          Repositories        \* the stores a query may find

ASSUME DepthAssumption == MaxSinkReachDepth \in Nat

ASSUME RepositoryAssumption == Repositories \subseteq CallStore

VARIABLES g,          \* the store
          root,       \* the method asked about
          frames,     \* the recursion, the last frame on top
          visited,    \* the methods entered so far
          truncated,  \* the walk was cut at the depth limit somewhere
          answer      \* the reason of the answer, or "none"

walk == <<g, root, frames, visited, truncated, answer>>

Reasons == {"VERIFIED_SAFE", "REFLECTION_UNRESOLVED", "DYNAMIC_PROXY_UNRESOLVED",
            "NATIVE_BLACKBOX_UNRESOLVED", "LAMBDA_UNTRACED", "DANGER_HIT",
            "SINK_SELF", "INDIRECT_DANGER", "DEPTH_TRUNCATED"}

Hits == {"DANGER_HIT", "SINK_SELF", "INDIRECT_DANGER"}

(* One call of callerHasDangerousSinkDFS: the edges from next on are still *)
(* to be looked at, and the keys of the current edge to be entered.        *)
Frame == [mk : Methods, next : Nat \ {0}, keys : SUBSET Methods,
          direct : BOOLEAN, indirect : BOOLEAN, unresolved : BOOLEAN]

NewFrame(m) == [mk |-> m, next |-> 1, keys |-> {},
                direct |-> FALSE, indirect |-> FALSE, unresolved |-> FALSE]

Top == frames[Len(frames)]

Below == SubSeq(frames, 1, Len(frames) - 1)

Replace(f) == [frames EXCEPT ![Len(frames)] = f]

Danger(f) == f.direct \/ f.indirect

(* What a frame that has seen all its edges returns.  A method without an  *)
(* entry in the store returns before any of this.                          *)
Verdict(f) ==
  CASE f.direct -> "DANGER_HIT"
    [] ~f.direct /\ f.indirect -> "INDIRECT_DANGER"
    [] ~Danger(f) /\ f.unresolved ->
         IF HasEdgeType(g, f.mk, "reflection") THEN "REFLECTION_UNRESOLVED"
         ELSE IF \E t \in {"proxy", "interface"} : HasEdgeType(g, f.mk, t)
              THEN "DYNAMIC_PROXY_UNRESOLVED"
         ELSE IF TaintedNative(g, f.mk) THEN "NATIVE_BLACKBOX_UNRESOLVED"
         ELSE "LAMBDA_UNTRACED"
    [] OTHER -> IF truncated THEN "DEPTH_TRUNCATED" ELSE "VERIFIED_SAFE"

-----------------------------------------------------------------------------

WalkInit ==
  /\ g \in Repositories
  /\ root \in Methods
  /\ frames = << >>
  /\ visited = {}
  /\ truncated = FALSE
  /\ answer = "none"

(* CallerHasDangerousSink enters the root at depth 0. *)
Ask ==
  /\ answer = "none" /\ visited = {}
  /\ visited' = {root}
  /\ IF SinkSelf(root)
     THEN answer' = "SINK_SELF" /\ frames' = frames
     ELSE IF root \notin g.listed
     THEN answer' = "VERIFIED_SAFE" /\ frames' = frames
     ELSE frames' = <<NewFrame(root)>> /\ answer' = answer
  /\ UNCHANGED <<g, root, truncated>>

(* Seeded error: a JPA query counts as a sink whatever its arguments. *)
LookAtEdgeAnyQuery ==
  /\ frames # << >> /\ Top.keys = {}
  /\ Top.next <= Len(EdgesOf(g, Top.mk))
  /\ LET f == Top
         e == EdgesOf(g, f.mk)[f.next]
     IN frames' = Replace(
          IF ~GoesOn(e)
          THEN [f EXCEPT !.next = f.next + 1, !.direct = TRUE]
          ELSE [f EXCEPT !.next = f.next + 1, !.keys = CalleeKeys(g, e.to)])
  /\ UNCHANGED <<g, root, visited, truncated, answer>>

(* The next edge of the top frame. *)
LookAtEdge ==
  /\ frames # << >> /\ Top.keys = {}
  /\ Top.next <= Len(EdgesOf(g, Top.mk))
  /\ LET f == Top
         e == EdgesOf(g, f.mk)[f.next]
     IN frames' = Replace(
          IF HitsSink(g, f.mk, e)
          THEN [f EXCEPT !.next = f.next + 1, !.direct = TRUE]
          ELSE IF ~GoesOn(e)
          THEN [f EXCEPT !.next = f.next + 1]
          ELSE [f EXCEPT !.next = f.next + 1,
                         !.keys = CalleeKeys(g, e.to),
                         !.unresolved = \/ f.unresolved
                                        \/ e.type \in Dynamic
                                        \/ e.type = "native" /\ TaintedNative(g, f.mk)])
  /\ UNCHANGED <<g, root, visited, truncated, answer>>

(* Seeded error: the limit is not told. *)
TooDeepUnsaid(m) ==
  /\ Len(frames) > MaxSinkReachDepth
  /\ frames' = Replace([Top EXCEPT !.keys = @ \ {m}])
  /\ UNCHANGED <<visited, truncated>>

(* A callee beyond the depth limit is not examined, visited or not. *)
TooDeep(m) ==
  /\ Len(frames) > MaxSinkReachDepth
  /\ truncated' = TRUE
  /\ frames' = Replace([Top EXCEPT !.keys = @ \ {m}])
  /\ UNCHANGED visited

SeenBefore(m) ==
  /\ Len(frames) <= MaxSinkReachDepth /\ m \in visited
  /\ frames' = Replace([Top EXCEPT !.keys = @ \ {m}])
  /\ UNCHANGED <<visited, truncated>>

(* The callee is a sink itself or has no edges: it returns at once. *)
ReturnsAtOnce(m) ==
  /\ Len(frames) <= MaxSinkReachDepth /\ m \notin visited
  /\ SinkSelf(m) \/ m \notin g.listed
  /\ visited' = visited \cup {m}
  /\ frames' = Replace([Top EXCEPT !.keys = @ \ {m},
                                   !.indirect = @ \/ SinkSelf(m)])
  /\ UNCHANGED truncated

Descend(m) ==
  /\ Len(frames) <= MaxSinkReachDepth /\ m \notin visited
  /\ ~SinkSelf(m) /\ m \in g.listed
  /\ visited' = visited \cup {m}
  /\ frames' = Append(Replace([Top EXCEPT !.keys = @ \ {m}]), NewFrame(m))
  /\ UNCHANGED truncated

Enter ==
  /\ frames # << >>
  /\ \E m \in Top.keys :
       TooDeep(m) \/ SeenBefore(m) \/ ReturnsAtOnce(m) \/ Descend(m)
  /\ UNCHANGED <<g, root, answer>>

(* Seeded error: only what a callee calls itself reaches its caller. *)
ReturnDirectOnly ==
  /\ frames # << >> /\ Top.keys = {}
  /\ Top.next > Len(EdgesOf(g, Top.mk))
  /\ IF Len(frames) = 1
     THEN answer' = Verdict(Top) /\ frames' = << >>
     ELSE /\ frames' = [Below EXCEPT ![Len(frames) - 1].indirect = @ \/ Top.direct]
          /\ answer' = answer
  /\ UNCHANGED <<g, root, visited, truncated>>

(* The top frame returns to the one below, or to the caller. *)
Return ==
  /\ frames # << >> /\ Top.keys = {}
  /\ Top.next > Len(EdgesOf(g, Top.mk))
  /\ IF Len(frames) = 1
     THEN answer' = Verdict(Top) /\ frames' = << >>
     ELSE /\ frames' = [Below EXCEPT ![Len(frames) - 1].indirect = @ \/ Danger(Top)]
          /\ answer' = answer
  /\ UNCHANGED <<g, root, visited, truncated>>

WalkNext == Ask \/ LookAtEdge \/ Enter \/ Return

WalkSpec == WalkInit /\ [][WalkNext]_walk

-----------------------------------------------------------------------------

(* The methods a set leads to in one call. *)
ClosedUnderCalls(S) == \A m \in S : Successors(g, m) \subseteq S

(* S holds the root, is closed under calls, and nothing in it is a sink or *)
(* calls one.                                                              *)
Harmless(S) ==
  /\ root \in S
  /\ ClosedUnderCalls(S)
  /\ \A m \in S : ~SinkSelf(m) /\ ~CallsSink(g, m)

(* Type invariant of the walk. *)
TypeOK ==
  /\ g \in CallStore
  /\ root \in Methods
  /\ frames \in Seq(Frame)
  /\ visited \subseteq Methods
  /\ truncated \in BOOLEAN
  /\ answer \in Reasons \cup {"none"}

(* A method is called safe only if no chain of calls leads from it to a    *)
(* sink: the methods visited are then closed under calls and free of       *)
(* sinks.  The global visited set, the depth limit and the returned        *)
(* booleans must not hide a sink (query.go:1378).                          *)
SafeMeansUnreachable == answer = "VERIFIED_SAFE" => Harmless(visited)

(* A hit is never invented: no set of methods that holds the root and is   *)
(* closed under calls is free of sinks.                                    *)
HitIsReal ==
  answer \in Hits => \A S \in SUBSET Methods : ~Harmless(S)

(* Whatever the answer without a hit, and whatever was left unexamined at  *)
(* the depth limit, no method that was entered calls a sink or is one: an  *)
(* answer of DEPTH_TRUNCATED or UNRESOLVED never covers a sink the walk    *)
(* has seen.                                                               *)
NothingSeenIsLost ==
  answer \in Reasons \ Hits =>
    \A m \in visited : ~SinkSelf(m) /\ ~CallsSink(g, m)
=============================================================================
