---------------------------- MODULE RepoCacheProofs ----------------------------
(***************************************************************************)
(* Theorems about RepoCache: what a scan finds in the directory that       *)
(* CloneSource returned, and when CloneSource fails, for any repositories, *)
(* requests and faults.                                                    *)
(***************************************************************************)
EXTENDS RepoCache, TLAPS

Stages == {"idle", "cleanup", "clone", "cloning", "fetch", "reset", "checkout", "scan",
           "done", "failed"}

Directory == [made : BOOLEAN, git : {"none", "cloning", "broken", "ready"},
              refs : SUBSET Commit, objs : SUBSET Commit,
              local : SUBSET (Commit \cup {NoCommit}), head : Commit \cup {NoCommit},
              whole : BOOLEAN, old : BOOLEAN, by : Req \cup {0}]

Request == [stage : Stages, ask : Asks \cup {NoAsk}, old : SUBSET Dests,
            cloned : BOOLEAN, disturbed : BOOLEAN]

TypeOK ==
  /\ tip \in [Uri -> [Branch -> 1..MaxCommits]]
  /\ dir \in [Dests -> Directory]
  /\ req \in [Req -> Request]
  /\ calls \in Nat /\ faults \in Nat

\* A request under way asks for something, and for a commit only when it was pushed.
Asked ==
  \A r \in Req : req[r].stage # "idle" =>
    req[r].ask \in Asks /\ req[r].ask.commit \in {NoCommit} \cup Pushed(req[r].ask.uri)

\* A repository has a directory.  In the directory of a commit it has the commit, and
\* when HEAD is at it, so are the files: a checkout that is killed leaves HEAD behind.
Good(d, e) ==
  /\ e.git # "none" => e.made
  /\ e.git = "ready" /\ d[2] # NoCommit => d[2] \in e.objs /\ (e.head = d[2] => e.whole)

Stored == \A d \in Dests : Good(d, dir[d])

\* What request q of r relies on in its directory e, when nobody disturbed it since it
\* last set the directory right.
Relies(r, q, e) ==
  /\ q.stage = "cloning" => e.git = "cloning" /\ e.by = r
  /\ q.stage \in {"fetch", "reset"} => e.git # "none"
  /\ q.stage = "checkout" => e.git = "ready" /\ e.whole
  /\ q.stage = "scan" /\ q.ask.commit # NoCommit =>
       e.git = "ready" /\ e.whole /\ e.head = q.ask.commit

Undisturbed == \A r \in Req : ~ req[r].disturbed => Relies(r, req[r], dir[D(r)])

IInv == TypeOK /\ Asked /\ Stored /\ Undisturbed

-----------------------------------------------------------------------------
(* Commits and directories.                                                *)

LEMMA Constants ==
  /\ Main \in Branch /\ "" \notin Uri /\ "" \notin Branch
  /\ MaxCommits \in Nat \ {0} /\ MaxCalls \in Nat /\ MaxFaults \in Nat
  /\ \A a \in Asks : a.uri \in Uri
BY RepoAssumption, Zenon

LEMMA PushedTyped ==
  ASSUME NEW u
  PROVE  Pushed(u) \subseteq Commit /\ Tips(u) \subseteq Pushed(u) /\ NoCommit \notin Pushed(u)
<1>1. NoCommit \notin Commit
  BY Constants DEF NoCommit, Commit
<1>2. QED  BY <1>1 DEF Pushed, Tips

\* Commits stay pushed.
LEMMA PushedGrows ==
  ASSUME TypeOK, NEW u \in Uri, NEW b \in Branch, Push(u, b), NEW v \in Uri
  PROVE  Pushed(v) \subseteq Pushed(v)'
<1>1. MaxCommits \in Nat
  BY Constants
<1>2. \A c \in Branch : tip[v][c] \in Nat /\ tip'[v][c] \in Nat /\ tip[v][c] <= tip'[v][c]
  <2>1. tip' = [tip EXCEPT ![u] = [tip[u] EXCEPT ![b] = @ + 1]]
    BY DEF Push
  <2>2. tip[v] \in [Branch -> 1..MaxCommits] /\ tip[u] \in [Branch -> 1..MaxCommits]
    BY DEF TypeOK
  <2>3. v # u => tip'[v] = tip[v]
    BY <2>1 DEF TypeOK
  <2>4. v = u => tip'[v] = [tip[u] EXCEPT ![b] = @ + 1]
    BY <2>1 DEF TypeOK
  <2>5. QED  BY <1>1, <2>2, <2>3, <2>4
<1>3. \A c \in Commit : c.n \in Nat /\ c.branch \in Branch
  BY <1>1 DEF Commit
<1>4. QED  BY <1>2, <1>3 DEF Pushed

\* The directory a request works in tells what it asked for.
LEMMA DestTyped ==
  ASSUME NEW a \in Asks
  PROVE  /\ a.uri \in Uri
         /\ Dest(a) \in Dests /\ Dest(a)[2] = a.commit
<1>1. a.uri \in Uri
  BY Constants
<1>2. Dest(a) \in Dests
  <2> DEFINE Commits == {NoCommit} \cup {x.commit : x \in Asks}
  <2>1. a.commit \in Commits
    OBVIOUS
  <2> DEFINE Pairs == {<<Name[b.uri], c>> : b \in Asks, c \in Commits}
  <2>2. Dests = Pairs
    BY DEF Dests
  <2> HIDE DEF Commits
  <2>3. <<Name[a.uri], a.commit>> \in Pairs
    BY <2>1
  <2> HIDE DEF Pairs
  <2>4. Dest(a) = <<Name[a.uri], a.commit>>
    BY DEF Dest
  <2>5. QED  BY <2>2, <2>3, <2>4, Zenon
<1>3. Dest(a)[2] = a.commit
  BY DEF Dest
<1>4. QED  BY <1>1, <1>2, <1>3

LEMMA AbsentTyped ==
  /\ Absent \in Directory /\ Absent.git = "none" /\ ~ Absent.made
  /\ Empty \in Directory /\ Empty.git = "none" /\ Empty.made
BY DEF Absent, Empty, Directory

LEMMA CloningTyped ==
  ASSUME NEW r \in Req
  PROVE  LET d == [Empty EXCEPT !.git = "cloning", !.by = r] IN
         d \in Directory /\ d.git = "cloning" /\ d.by = r /\ d.made
BY DEF Absent, Empty, Directory

\* Every repository has its first commit on the branch of HEAD.
LEMMA HeadTyped ==
  ASSUME TypeOK, NEW u \in Uri
  PROVE  (CHOOSE c \in Tips(u) : c.branch = Main) \in Commit
<1> DEFINE c == [uri |-> u, branch |-> Main, n |-> tip[u][Main]]
<1>1. tip[u][Main] \in 1..MaxCommits /\ Main \in Branch
  BY Constants DEF TypeOK
<1>2. c \in Commit /\ c.branch = Main /\ c.uri = u /\ c.n = tip[u][Main]
  BY <1>1 DEF Commit
<1>3. MaxCommits \in Nat
  BY Constants
<1> HIDE DEF c
<1>4. c \in Tips(u)
  BY <1>1, <1>2, <1>3 DEF Tips, Pushed
<1>5. QED  BY <1>2, <1>4, PushedTyped

LEMMA ClonedTyped ==
  ASSUME TypeOK, NEW u \in Uri, NEW d \in Directory
  PROVE  /\ Cloned(d, u) \in Directory
         /\ Cloned(d, u).git = "ready" /\ Cloned(d, u).whole /\ Cloned(d, u).made = d.made
         /\ Cloned(d, u).objs = Pushed(u)
<1> DEFINE h == CHOOSE c \in Tips(u) : c.branch = Main
<1>1. h \in Commit
  BY HeadTyped
<1>2. Tips(u) \in SUBSET Commit /\ Pushed(u) \in SUBSET Commit
  BY PushedTyped
<1> DEFINE d1 == [d EXCEPT !.git = "ready"]
           d2 == [d1 EXCEPT !.refs = Tips(u)]
           d3 == [d2 EXCEPT !.objs = Pushed(u)]
           d4 == [d3 EXCEPT !.local = {h}]
           d5 == [d4 EXCEPT !.head = h]
           d6 == [d5 EXCEPT !.whole = TRUE]
<1>3. Cloned(d, u) = d6
  BY Zenon DEF Cloned
<1> HIDE DEF h
<1>4. d1 \in Directory /\ d1.git = "ready" /\ d1.made = d.made
  BY DEF Directory
<1> HIDE DEF d1
<1>5. d2 \in Directory /\ d2.git = d1.git /\ d2.made = d1.made
  BY <1>2, <1>4 DEF Directory
<1> HIDE DEF d2
<1>6. d3 \in Directory /\ d3.git = d2.git /\ d3.made = d2.made /\ d3.objs = Pushed(u)
  BY <1>2, <1>5 DEF Directory
<1> HIDE DEF d3
<1>7. d4 \in Directory /\ d4.git = d3.git /\ d4.made = d3.made /\ d4.objs = d3.objs
  BY <1>1, <1>6 DEF Directory
<1> HIDE DEF d4
<1>8. d5 \in Directory /\ d5.git = d4.git /\ d5.made = d4.made /\ d5.objs = d4.objs
  BY <1>1, <1>7 DEF Directory
<1> HIDE DEF d5
<1>9. d6 \in Directory /\ d6.git = d5.git /\ d6.made = d5.made /\ d6.objs = d5.objs /\ d6.whole
  BY <1>8 DEF Directory
<1> HIDE DEF d6
<1>10. QED  BY <1>3, <1>4, <1>5, <1>6, <1>7, <1>8, <1>9

LEMMA FetchedTyped ==
  ASSUME NEW u, NEW d \in Directory
  PROVE  /\ Fetched(d, u) \in Directory
         /\ Fetched(d, u).git = d.git /\ Fetched(d, u).whole = d.whole
         /\ Fetched(d, u).made = d.made /\ Fetched(d, u).head = d.head
         /\ Fetched(d, u).by = d.by /\ d.objs \subseteq Fetched(d, u).objs
<1> DEFINE o == (CHOOSE c \in d.refs : TRUE).uri
<1>1. Pushed(u) \subseteq Commit /\ Pushed(o) \subseteq Commit /\ Tips(o) \subseteq Commit
  BY PushedTyped
<1>2. CASE u \in CredUri
  BY <1>1, <1>2 DEF Fetched, Directory
<1>3. CASE u \notin CredUri
  <2> DEFINE e == [d EXCEPT !.objs = @ \cup Pushed(o)]
             f == [e EXCEPT !.refs = Tips(o)]
  <2>1. Fetched(d, u) = f
    BY <1>3, Zenon DEF Fetched
  <2> HIDE DEF o
  <2>2. /\ e \in Directory /\ e.git = d.git /\ e.whole = d.whole /\ e.made = d.made
        /\ e.head = d.head /\ e.by = d.by /\ e.objs = d.objs \cup Pushed(o)
    BY <1>1 DEF Directory
  <2> HIDE DEF e
  <2>3. /\ f \in Directory /\ f.git = e.git /\ f.whole = e.whole /\ f.made = e.made
        /\ f.head = e.head /\ f.by = e.by /\ f.objs = e.objs
    BY <1>1, <2>2 DEF Directory
  <2> HIDE DEF f
  <2>4. QED  BY <2>1, <2>2, <2>3
<1>4. QED  BY <1>2, <1>3

LEMMA ResetTyped ==
  ASSUME NEW d \in Directory
  PROVE  /\ Reset(d) \in Directory /\ Reset(d).whole
         /\ Reset(d).git = d.git /\ Reset(d).made = d.made /\ Reset(d).head = d.head
         /\ Reset(d).by = d.by /\ Reset(d).objs = d.objs
BY DEF Reset, Directory

LEMMA ChosenTyped ==
  ASSUME NEW d \in Directory, NEW a
  PROVE  /\ Chosen(d, a) \subseteq Commit \cup {NoCommit}
         /\ a.commit # NoCommit => Chosen(d, a) = {a.commit} \cap d.objs
BY DEF Chosen, LocalOf, RemoteOf, Directory

LEMMA CheckedOutTyped ==
  ASSUME NEW d \in Directory, NEW c \in Commit \cup {NoCommit}, NEW a
  PROVE  /\ CheckedOut(d, c, a) \in Directory /\ CheckedOut(d, c, a).head = c
         /\ CheckedOut(d, c, a).git = d.git /\ CheckedOut(d, c, a).whole = d.whole
         /\ CheckedOut(d, c, a).made = d.made /\ CheckedOut(d, c, a).by = d.by
         /\ CheckedOut(d, c, a).objs = d.objs
BY DEF CheckedOut, Directory

-----------------------------------------------------------------------------
(* Steps.                                                                  *)

Working(q) == q.stage \notin {"idle", "cleanup", "done", "failed"}

\* What r does to directory e, of name d, leaves the others in it what they rely on.
Keeps(r, d, e, f) ==
  /\ e.git # "none" => f.git # "none"
  /\ e.git = "cloning" /\ e.by # r => f.git = "cloning" /\ f.by = e.by
  /\ e.git = "ready" /\ e.whole => f.git = "ready" /\ f.whole
  /\ e.git = "ready" /\ d[2] # NoCommit /\ e.head = d[2] => f.head = d[2]

\* The other requests stay where they are, and stay disturbed.
Others(r) ==
  \A s \in Req \ {r} : /\ req'[s].stage = req[s].stage /\ req'[s].ask = req[s].ask
                       /\ req[s].disturbed => req'[s].disturbed

LEMMA KeepsRelied ==
  ASSUME NEW r, NEW s, s # r, NEW q, NEW p, NEW d, NEW e, NEW f,
         q.ask.commit # NoCommit => d[2] = q.ask.commit,
         p.stage = q.stage, p.ask = q.ask, Relies(s, q, e), Keeps(r, d, e, f)
  PROVE  Relies(s, p, f)
BY DEF Relies, Keeps

LEMMA RestRelies ==
  ASSUME NEW s, NEW q, ~ Working(q), NEW e
  PROVE  Relies(s, q, e)
BY DEF Working, Relies

LEMMA DirectoryOf ==
  ASSUME TypeOK, Asked, NEW r \in Req, req[r].stage # "idle"
  PROVE  /\ D(r) \in Dests /\ D(r)[2] = req[r].ask.commit /\ dir[D(r)] \in Directory
         /\ req[r].ask \in Asks /\ req[r].ask.uri \in Uri
BY DestTyped DEF D, Asked, TypeOK

\* A step of r that changes one directory.
LEMMA OneDirectory ==
  ASSUME IInv, NEW r \in Req, req[r].stage # "idle",
         NEW f \in Directory, Good(D(r), f), dir' = [dir EXCEPT ![D(r)] = f],
         req' \in [Req -> Request], req'[r].ask = req[r].ask, Others(r),
         tip' = tip, calls' \in Nat, faults' \in Nat,
         \/ Keeps(r, D(r), dir[D(r)], f)
         \/ \A s \in Using(D(r)) \ {r} : req'[s].disturbed,
         ~ req'[r].disturbed => Relies(r, req'[r], f)
  PROVE  IInv'
<1>1. TypeOK /\ Asked /\ Stored /\ Undisturbed
  BY DEF IInv
<1>2. D(r) \in Dests
  BY <1>1, DirectoryOf
<1>3. dir'[D(r)] = f /\ \A d \in Dests : d # D(r) => dir'[d] = dir[d]
  BY <1>1, <1>2 DEF TypeOK
<1>4. TypeOK'
  BY <1>1, <1>2 DEF TypeOK
<1>5. Asked'
  <2>1. \A s \in Req : req'[s].ask = req[s].ask /\ (req'[s].stage # "idle" => req[s].stage # "idle")
    BY DEF Others
  <2>2. \A u : Pushed(u)' = Pushed(u)
    BY DEF Pushed
  <2>3. QED  BY <1>1, <2>1, <2>2 DEF Asked
<1>6. Stored'
  BY <1>1, <1>3 DEF Stored
<1>7. Undisturbed'
  <2> SUFFICES ASSUME NEW s \in Req, ~ req'[s].disturbed
               PROVE  Relies(s, req'[s], dir'[Dest(req'[s].ask)])
    BY DEF Undisturbed, D
  <2>1. CASE s = r
    BY <1>3, <2>1 DEF D
  <2>2. CASE s # r
    <3>1. req'[s].stage = req[s].stage /\ req'[s].ask = req[s].ask /\ ~ req[s].disturbed
      BY <2>2 DEF Others
    <3>2. CASE ~ Working(req[s])
      BY <3>1, <3>2, RestRelies DEF Working
    <3>3. CASE Working(req[s]) /\ D(s) # D(r)
      <4>1. req[s].stage # "idle"
        BY <3>3 DEF Working
      <4>2. D(s) \in Dests
        BY <1>1, <4>1, DirectoryOf
      <4>3. dir'[Dest(req'[s].ask)] = dir[D(s)]
        BY <1>3, <3>1, <3>3, <4>2 DEF D
      <4>4. Relies(s, req[s], dir[D(s)])
        BY <1>1, <3>1 DEF Undisturbed
      <4>5. QED  BY <3>1, <4>3, <4>4 DEF Relies
    <3>4. CASE Working(req[s]) /\ D(s) = D(r)
      <4>1. s \in Using(D(r))
        BY <3>4 DEF Working, Using
      <4>2. Keeps(r, D(s), dir[D(s)], f)
        BY <2>2, <3>4, <4>1
      <4>3. D(s)[2] = req[s].ask.commit
        BY <1>1, <3>4, DirectoryOf DEF Working
      <4>4. Relies(s, req[s], dir[D(s)])
        BY <1>1, <3>1 DEF Undisturbed
      <4>5. Relies(s, req'[s], f)
        BY <2>2, <3>1, <4>2, <4>3, <4>4, KeepsRelied
      <4>6. dir'[Dest(req'[s].ask)] = f
        BY <1>3, <3>1, <3>4 DEF D
      <4>7. QED  BY <4>5, <4>6
    <3>5. QED  BY <3>2, <3>3, <3>4
  <2>3. QED  BY <2>1, <2>2
<1>8. QED  BY <1>4, <1>5, <1>6, <1>7 DEF IInv

\* A step of r that changes none.
LEMMA NoDirectory ==
  ASSUME IInv, NEW r \in Req, req[r].stage # "idle", dir' = dir,
         req' \in [Req -> Request], req'[r].ask = req[r].ask, Others(r),
         tip' = tip, calls' \in Nat, faults' \in Nat,
         ~ req'[r].disturbed => Relies(r, req'[r], dir[D(r)])
  PROVE  IInv'
<1> DEFINE f == dir[D(r)]
<1>1. TypeOK /\ Asked /\ Stored
  BY DEF IInv
<1>2. f \in Directory /\ D(r) \in Dests
  BY <1>1, DirectoryOf
<1>3. dir' = [dir EXCEPT ![D(r)] = f]
  BY <1>1, <1>2 DEF TypeOK
<1>4. Good(D(r), f) /\ Keeps(r, D(r), dir[D(r)], f)
  BY <1>1, <1>2 DEF Stored, Keeps
<1> HIDE DEF f
<1>5. ~ req'[r].disturbed => Relies(r, req'[r], f)
  BY DEF f
<1>6. QED  BY <1>2, <1>3, <1>4, <1>5, OneDirectory

\* A request that only goes on.
LEMMA ToTyped ==
  ASSUME TypeOK, NEW r \in Req, NEW st \in Stages, To(r, st)
  PROVE  /\ req' \in [Req -> Request]
         /\ req'[r].stage = st /\ req'[r].ask = req[r].ask
         /\ req'[r].disturbed = req[r].disturbed
         /\ Others(r)
<1> DEFINE q == [req[r] EXCEPT !.stage = st]
<1>1. req[r] \in Request
  BY DEF TypeOK
<1>2. q \in Request /\ q.stage = st /\ q.ask = req[r].ask /\ q.disturbed = req[r].disturbed
  BY <1>1 DEF Request
<1>3. req' = [req EXCEPT ![r] = q]
  BY DEF To
<1> HIDE DEF q
<1>4. req' \in [Req -> Request] /\ req'[r] = q /\ \A s \in Req \ {r} : req'[s] = req[s]
  BY <1>2, <1>3 DEF TypeOK
<1>5. QED  BY <1>2, <1>4 DEF Others

\* A request that ends and leaves its directory changed.
LEMMA FailsDisturbingTyped ==
  ASSUME TypeOK, NEW r \in Req, FailsDisturbing(r)
  PROVE  /\ req' \in [Req -> Request]
         /\ req'[r].stage = "failed" /\ req'[r].ask = req[r].ask
         /\ Others(r)
         /\ \A s \in Using(D(r)) \ {r} : req'[s].disturbed
<1>1. \A s \in Req : req[s] \in Request
  BY DEF TypeOK
<1> DEFINE q(s) == [req[s] EXCEPT !.disturbed = TRUE]
           p == [req[r] EXCEPT !.stage = "failed"]
<1>2. p \in Request /\ p.stage = "failed" /\ p.ask = req[r].ask
  BY <1>1 DEF Request, Stages
<1>3. \A s \in Req : /\ q(s) \in Request /\ q(s).stage = req[s].stage
                     /\ q(s).ask = req[s].ask /\ q(s).disturbed
  BY <1>1 DEF Request
<1>4. req' = [s \in Req |-> IF s = r THEN p ELSE IF s \in Using(D(r)) THEN q(s) ELSE req[s]]
  BY DEF FailsDisturbing
<1> HIDE DEF p, q
<1>5. req' \in [Req -> Request]
  BY <1>1, <1>2, <1>3, <1>4
<1>6. req'[r] = p
  BY <1>4
<1>7. \A s \in Req \ {r} : req'[s] = IF s \in Using(D(r)) THEN q(s) ELSE req[s]
  BY <1>4
<1>8. Using(D(r)) \subseteq Req
  BY DEF Using
<1>9. Others(r)
  BY <1>3, <1>7 DEF Others
<1>10. \A s \in Using(D(r)) \ {r} : req'[s].disturbed
  BY <1>3, <1>7, <1>8
<1>11. QED  BY <1>2, <1>5, <1>6, <1>9, <1>10

-----------------------------------------------------------------------------
(* The actions.                                                            *)

LEMMA InitIInv == Init => IInv
<1> SUFFICES ASSUME Init PROVE IInv
  OBVIOUS
<1>1. Idle \in Request /\ Idle.stage = "idle"
  BY DEF Idle, Request, Stages
<1>2. tip \in [Uri -> [Branch -> 1..MaxCommits]]
  <2>1. MaxCommits \in Nat \ {0}
    BY Constants, Zenon
  <2>2. 1 \in 1..MaxCommits
    BY <2>1
  <2>3. QED  BY <2>2 DEF Init
<1>3. TypeOK
  BY <1>1, <1>2, AbsentTyped DEF Init, TypeOK
<1>4. Asked
  BY <1>1 DEF Init, Asked
<1>5. Stored
  BY AbsentTyped DEF Init, Stored, Good
<1>6. Undisturbed
  BY <1>1 DEF Init, Undisturbed, Relies
<1>7. QED  BY <1>3, <1>4, <1>5, <1>6 DEF IInv

LEMMA BeginIInv ==
  ASSUME IInv, NEW r \in Req, NEW ask \in Asks, Begin(r, ask)
  PROVE  IInv'
<1>1. TypeOK /\ Asked /\ Stored /\ Undisturbed
  BY DEF IInv
<1> DEFINE stale == {d \in Dests : dir[d].old}
           q == [Idle EXCEPT !.stage = "cleanup", !.ask = ask, !.old = stale]
           q1 == [Idle EXCEPT !.stage = "cleanup"]
           q2 == [q1 EXCEPT !.ask = ask]
           q3 == [q2 EXCEPT !.old = stale]
<1>2. q1 \in Request /\ q1.stage = "cleanup"
  BY DEF Idle, Request, Stages
<1>3. q \in Request /\ q.stage = "cleanup" /\ q.ask = ask
  <2>1. q = q3
    BY Zenon
  <2> HIDE DEF q, q1
  <2>2. q2 \in Request /\ q2.stage = "cleanup" /\ q2.ask = ask
    BY <1>2 DEF Request
  <2> HIDE DEF q2
  <2>3. q3 \in Request /\ q3.stage = "cleanup" /\ q3.ask = ask
    BY <2>2 DEF Request
  <2>4. QED  BY <2>1, <2>3
<1>4. req' = [req EXCEPT ![r] = q] /\ UNCHANGED <<tip, dir, faults>> /\ calls' = calls + 1
      /\ ask.commit \in {NoCommit} \cup Pushed(ask.uri)
  BY DEF Begin
<1> HIDE DEF q
<1>5. req'[r] = q /\ \A s \in Req \ {r} : req'[s] = req[s]
  BY <1>1, <1>4 DEF TypeOK
<1>6. TypeOK'
  BY <1>1, <1>3, <1>4 DEF TypeOK
<1>7. Asked'
  <2>1. \A u : Pushed(u)' = Pushed(u)
    BY <1>4 DEF Pushed
  <2>2. QED  BY <1>1, <1>3, <1>4, <1>5, <2>1 DEF Asked
<1>8. Stored'
  BY <1>1, <1>4 DEF Stored
<1>9. Undisturbed'
  <2> SUFFICES ASSUME NEW s \in Req, ~ req'[s].disturbed
               PROVE  Relies(s, req'[s], dir'[Dest(req'[s].ask)])
    BY DEF Undisturbed, D
  <2>1. CASE s = r
    BY <1>3, <1>5, <2>1 DEF Relies
  <2>2. CASE s # r
    <3>1. req'[s] = req[s] /\ dir' = dir
      BY <1>4, <1>5, <2>2
    <3>2. QED  BY <1>1, <3>1 DEF Undisturbed, D
  <2>3. QED  BY <2>1, <2>2
<1>10. QED  BY <1>6, <1>7, <1>8, <1>9 DEF IInv

\* The directory that is removed is lost to those who work in it.
LEMMA RemoveStaleIInv ==
  ASSUME IInv, NEW r \in Req, NEW d \in Dests, RemoveStale(r, d)
  PROVE  IInv'
<1>1. TypeOK /\ Asked /\ Stored /\ Undisturbed
  BY DEF IInv
<1> DEFINE q(s) == [req[s] EXCEPT !.disturbed = TRUE]
           p == [req[r] EXCEPT !.old = @ \ {d}]
<1>2. \A s \in Req : req[s] \in Request
  BY <1>1 DEF TypeOK
<1>3. p \in Request /\ p.stage = req[r].stage /\ p.ask = req[r].ask
  BY <1>2 DEF Request
<1>4. \A s \in Req : /\ q(s) \in Request /\ q(s).stage = req[s].stage
                     /\ q(s).ask = req[s].ask /\ q(s).disturbed
  BY <1>2 DEF Request
<1>5. /\ req' = [s \in Req |-> IF s = r THEN p
                            ELSE IF dir[d].old /\ s \in Using(d) THEN q(s) ELSE req[s]]
      /\ dir' = [dir EXCEPT ![d] = IF @.old THEN Absent ELSE @]
      /\ req[r].stage = "cleanup" /\ UNCHANGED <<tip, calls, faults>>
  BY DEF RemoveStale
<1> HIDE DEF p, q
<1>6. \A s \in Req : req'[s].stage = req[s].stage /\ req'[s].ask = req[s].ask
  BY <1>3, <1>4, <1>5
<1>7. \A e \in Dests : dir'[e] = IF e = d /\ dir[d].old THEN Absent ELSE dir[e]
  BY <1>1, <1>5 DEF TypeOK
<1>8. TypeOK'
  <2>1. req' \in [Req -> Request]
    BY <1>2, <1>3, <1>4, <1>5
  <2>2. dir' \in [Dests -> Directory]
    BY <1>1, <1>5, AbsentTyped DEF TypeOK
  <2>3. QED  BY <1>1, <1>5, <2>1, <2>2 DEF TypeOK
<1>9. Asked'
  <2>1. \A u : Pushed(u)' = Pushed(u)
    BY <1>5 DEF Pushed
  <2>2. QED  BY <1>1, <1>6, <2>1 DEF Asked
<1>10. Stored'
  BY <1>1, <1>7, AbsentTyped DEF Stored, Good
<1>11. Undisturbed'
  <2> SUFFICES ASSUME NEW s \in Req, ~ req'[s].disturbed
               PROVE  Relies(s, req'[s], dir'[Dest(req'[s].ask)])
    BY DEF Undisturbed, D
  <2>1. CASE ~ Working(req[s])
    BY <1>6, <2>1, RestRelies DEF Working
  <2>2. CASE Working(req[s])
    <3>1. s # r
      BY <1>5, <2>2 DEF Working
    <3>2. ~ (dir[d].old /\ s \in Using(d)) /\ req'[s] = req[s]
      BY <1>4, <1>5, <3>1
    <3>3. D(s) \in Dests
      BY <1>1, <2>2, DirectoryOf DEF Working
    <3>4. dir'[D(s)] = dir[D(s)]
      BY <1>7, <2>2, <3>2, <3>3 DEF Using, Working
    <3>5. QED  BY <1>1, <3>2, <3>4 DEF Undisturbed, D
  <2>3. QED  BY <2>1, <2>2
<1>12. QED  BY <1>8, <1>9, <1>10, <1>11 DEF IInv

LEMMA PushIInv ==
  ASSUME IInv, NEW u \in Uri, NEW b \in Branch, Push(u, b)
  PROVE  IInv'
<1>1. TypeOK /\ Asked /\ Stored /\ Undisturbed
  BY DEF IInv
<1>2. UNCHANGED <<dir, req, calls, faults>>
  BY DEF Push
<1>3. tip' \in [Uri -> [Branch -> 1..MaxCommits]]
  <2> DEFINE t == [tip[u] EXCEPT ![b] = @ + 1]
  <2>1. tip[u] \in [Branch -> 1..MaxCommits] /\ tip[u][b] < MaxCommits /\ MaxCommits \in Nat
    BY <1>1, Constants DEF Push, TypeOK
  <2>2. t \in [Branch -> 1..MaxCommits]
    BY <2>1
  <2>3. tip' = [tip EXCEPT ![u] = t]
    BY DEF Push
  <2> HIDE DEF t
  <2>4. QED  BY <1>1, <2>2, <2>3 DEF TypeOK
<1>4. Asked'
  <2>1. \A a \in Asks : a.uri \in Uri
    BY Constants
  <2>2. \A v \in Uri : Pushed(v) \subseteq Pushed(v)'
    BY <1>1, PushedGrows
  <2>3. QED  BY <1>1, <1>2, <2>1, <2>2 DEF Asked
<1>5. TypeOK' /\ Stored' /\ Undisturbed'
  BY <1>1, <1>2, <1>3 DEF TypeOK, Stored, Undisturbed, D
<1>6. QED  BY <1>4, <1>5 DEF IInv

LEMMA AgeIInv ==
  ASSUME IInv, NEW d \in Dests, Age(d)
  PROVE  IInv'
<1>1. TypeOK /\ Asked /\ Stored /\ Undisturbed
  BY DEF IInv
<1> DEFINE f == [dir[d] EXCEPT !.old = TRUE]
<1>2. /\ f \in Directory /\ f.git = dir[d].git /\ f.made = dir[d].made /\ f.by = dir[d].by
      /\ f.whole = dir[d].whole /\ f.head = dir[d].head /\ f.objs = dir[d].objs
  BY <1>1 DEF TypeOK, Directory
<1>3. dir' = [dir EXCEPT ![d] = f] /\ UNCHANGED <<tip, req, calls, faults>>
  BY DEF Age
<1> HIDE DEF f
<1>4. \A e \in Dests : dir'[e] = IF e = d THEN f ELSE dir[e]
  BY <1>1, <1>3 DEF TypeOK
<1>5. TypeOK'
  BY <1>1, <1>2, <1>3 DEF TypeOK
<1>6. Asked'
  <2>1. \A u : Pushed(u)' = Pushed(u)
    BY <1>3 DEF Pushed
  <2>2. QED  BY <1>1, <1>3, <2>1 DEF Asked
<1>7. Stored'
  BY <1>1, <1>2, <1>4 DEF Stored, Good
<1>8. Undisturbed'
  <2> SUFFICES ASSUME NEW s \in Req, ~ req[s].disturbed
               PROVE  Relies(s, req[s], dir'[D(s)])
    BY <1>3 DEF Undisturbed, D
  <2>1. CASE req[s].stage = "idle"
    BY <2>1, RestRelies DEF Working
  <2>2. CASE req[s].stage # "idle"
    <3>1. D(s) \in Dests
      BY <1>1, <2>2, DirectoryOf
    <3>2. Relies(s, req[s], dir[D(s)])
      BY <1>1 DEF Undisturbed
    <3>3. QED  BY <1>2, <1>4, <3>1, <3>2 DEF Relies
  <2>3. QED  BY <2>1, <2>2
<1>9. QED  BY <1>5, <1>6, <1>7, <1>8 DEF IInv

\* A command that cannot do its work, or fails before it did any.
LEMMA EndsIInv ==
  ASSUME IInv, NEW r \in Req, req[r].stage # "idle", NEW st \in {"failed", "done"},
         To(r, st), UNCHANGED <<tip, dir, calls>>, faults' \in Nat
  PROVE  IInv'
<1>1. TypeOK
  BY DEF IInv
<1>2. st \in Stages
  BY DEF Stages
<1>3. /\ req' \in [Req -> Request] /\ req'[r].ask = req[r].ask /\ Others(r)
      /\ ~ Working(req'[r])
  BY <1>1, <1>2, ToTyped DEF Working
<1>4. Relies(r, req'[r], dir[D(r)])
  BY <1>3, RestRelies
<1>5. calls' \in Nat
  BY <1>1 DEF TypeOK
<1>6. QED  BY <1>3, <1>4, <1>5, NoDirectory

LEMMA RefusedIInv ==
  ASSUME IInv, NEW r \in Req, req[r].stage # "idle", Refused(r)
  PROVE  IInv'
<1>1. faults' \in Nat
  BY DEF Refused, IInv, TypeOK
<1>2. QED  BY <1>1, EndsIInv DEF Refused

LEMMA MakeDirIInv ==
  ASSUME IInv, NEW r \in Req, MakeDir(r)
  PROVE  IInv'
<1> DEFINE e == dir[D(r)]
           f == IF e.made THEN e ELSE Empty
           st == IF e.git = "none" THEN "clone" ELSE "fetch"
<1>1. TypeOK /\ Asked /\ Stored /\ Undisturbed
  BY DEF IInv
<1>2. /\ req[r].stage # "idle" /\ dir' = [dir EXCEPT ![D(r)] = f] /\ To(r, st)
      /\ UNCHANGED <<tip, calls, faults>>
  BY DEF MakeDir
<1>3. e \in Directory /\ D(r) \in Dests /\ Good(D(r), e)
  BY <1>1, <1>2, DirectoryOf DEF Stored
<1>4. f \in Directory /\ Good(D(r), f)
  BY <1>3, AbsentTyped DEF Good
<1>5. Keeps(r, D(r), e, f)
  BY <1>3 DEF Keeps, Good
<1>6. /\ req' \in [Req -> Request] /\ req'[r].ask = req[r].ask /\ Others(r)
      /\ req'[r].stage = st
  <2>1. st \in Stages
    BY DEF Stages
  <2> HIDE DEF st
  <2>2. QED  BY <1>1, <1>2, <2>1, ToTyped
<1>7. Relies(r, req'[r], f)
  BY <1>3, <1>6 DEF Relies, Good
<1>8. calls' \in Nat /\ faults' \in Nat
  BY <1>1, <1>2 DEF TypeOK
<1> HIDE DEF e, f, st
<1>9. Keeps(r, D(r), dir[D(r)], f)
  BY <1>5 DEF e
<1>10. QED  BY <1>2, <1>4, <1>6, <1>7, <1>8, <1>9, OneDirectory

LEMMA CloneBeginsIInv ==
  ASSUME IInv, NEW r \in Req, CloneBegins(r)
  PROVE  IInv'
<1> DEFINE f == [Empty EXCEPT !.git = "cloning", !.by = r]
           p == [req[r] EXCEPT !.stage = "cloning"]
           q == [p EXCEPT !.cloned = TRUE]
           w == [q EXCEPT !.disturbed = FALSE]
<1>1. TypeOK
  BY DEF IInv
<1>2. req[r].stage # "idle"
  BY DEF CloneBegins
<1>3. CASE dir[D(r)].git # "none"
  BY <1>2, <1>3, RefusedIInv DEF CloneBegins
<1>4. CASE dir[D(r)].git = "none"
  <2>1. dir' = [dir EXCEPT ![D(r)] = f] /\ UNCHANGED <<tip, calls, faults>>
    BY <1>4 DEF CloneBegins
  <2>2. req' = [req EXCEPT ![r].stage = "cloning", ![r].cloned = TRUE, ![r].disturbed = FALSE]
    BY <1>4 DEF CloneBegins
  <2>3. req[r] \in Request
    BY <1>1 DEF TypeOK
  <2>4. p \in Request /\ p.stage = "cloning" /\ p.ask = req[r].ask
    BY <2>3 DEF Request, Stages
  <2>5. q \in Request /\ q.stage = p.stage /\ q.ask = p.ask
    <3> HIDE DEF p
    <3>1. QED  BY <2>4 DEF Request
  <2>6. w \in Request /\ w.stage = q.stage /\ w.ask = q.ask
    <3> HIDE DEF q
    <3>1. QED  BY <2>5 DEF Request
  <2>7. req'[r] = w /\ \A s \in Req \ {r} : req'[s] = req[s]
    BY <1>1, <2>2, Zenon DEF TypeOK
  <2>8. req' \in [Req -> Request]
    BY <1>1, <2>2, <2>6, <2>7, Zenon DEF TypeOK
  <2> HIDE DEF w, q, p
  <2>9. f \in Directory /\ f.git = "cloning" /\ f.by = r /\ f.made
    BY CloningTyped
  <2> HIDE DEF f
  <2>10. Good(D(r), f) /\ Keeps(r, D(r), dir[D(r)], f) /\ Relies(r, w, f)
    BY <1>4, <2>4, <2>5, <2>6, <2>9 DEF Good, Keeps, Relies
  <2>11. Others(r) /\ req'[r].ask = req[r].ask
    BY <2>4, <2>5, <2>6, <2>7 DEF Others
  <2>12. calls' \in Nat /\ faults' \in Nat
    BY <1>1, <2>1 DEF TypeOK
  <2>13. QED  BY <1>2, <2>1, <2>7, <2>8, <2>9, <2>10, <2>11, <2>12, OneDirectory
<1>5. QED  BY <1>3, <1>4

LEMMA CloneEndsIInv ==
  ASSUME IInv, NEW r \in Req, CloneEnds(r)
  PROVE  IInv'
<1> DEFINE e == dir[D(r)]
           f == Cloned(e, req[r].ask.uri)
<1>1. TypeOK /\ Asked /\ Stored
  BY DEF IInv
<1>2. req[r].stage # "idle"
  BY DEF CloneEnds
<1>3. CASE ~ Owns(r)
  BY <1>2, <1>3, RefusedIInv DEF CloneEnds
<1>4. CASE Owns(r)
  <2>1. /\ dir' = [dir EXCEPT ![D(r)] = f] /\ To(r, "checkout")
        /\ UNCHANGED <<tip, calls, faults>> /\ e.git = "cloning" /\ e.by = r
    BY <1>4 DEF CloneEnds, Owns
  <2>2. /\ D(r) \in Dests /\ D(r)[2] = req[r].ask.commit /\ e \in Directory
        /\ req[r].ask.uri \in Uri
    BY <1>1, <1>2, DirectoryOf
  <2>3. e.made
    BY <1>1, <2>1, <2>2 DEF Stored, Good
  <2>4. /\ f \in Directory /\ f.git = "ready" /\ f.whole /\ f.made
        /\ f.objs = Pushed(req[r].ask.uri)
    BY <1>1, <2>2, <2>3, ClonedTyped
  <2>5. req[r].ask.commit \in {NoCommit} \cup Pushed(req[r].ask.uri)
    BY <1>1, <1>2 DEF Asked
  <2>6. /\ req' \in [Req -> Request] /\ req'[r].ask = req[r].ask /\ Others(r)
        /\ req'[r].stage = "checkout"
    BY <1>1, <2>1, ToTyped DEF Stages
  <2>7. Keeps(r, D(r), e, f)
    BY <2>1, <2>4 DEF Keeps
  <2>8. calls' \in Nat /\ faults' \in Nat
    BY <1>1, <2>1 DEF TypeOK
  <2> HIDE DEF f
  <2>9. Good(D(r), f) /\ Relies(r, req'[r], f)
    BY <2>2, <2>4, <2>5, <2>6 DEF Good, Relies
  <2>10. QED  BY <1>2, <2>1, <2>4, <2>6, <2>7, <2>8, <2>9, OneDirectory
<1>5. QED  BY <1>3, <1>4

\* A command of r that fails and changes the directory for everyone in it.
LEMMA BreaksIInv ==
  ASSUME IInv, NEW r \in Req, req[r].stage # "idle", NEW f \in Directory, Good(D(r), f),
         dir' = [dir EXCEPT ![D(r)] = f], FailsDisturbing(r), UNCHANGED <<tip, calls>>,
         faults' \in Nat
  PROVE  IInv'
<1>1. TypeOK
  BY DEF IInv
<1>2. /\ req' \in [Req -> Request] /\ req'[r].ask = req[r].ask /\ Others(r)
      /\ req'[r].stage = "failed" /\ \A s \in Using(D(r)) \ {r} : req'[s].disturbed
  BY <1>1, FailsDisturbingTyped
<1>3. Relies(r, req'[r], f)
  BY <1>2, RestRelies DEF Working
<1>4. calls' \in Nat
  BY <1>1 DEF TypeOK
<1>5. QED  BY <1>2, <1>3, <1>4, OneDirectory

LEMMA UnluckyTyped ==
  ASSUME IInv, Unlucky
  PROVE  faults' \in Nat /\ faults' > faults
BY DEF IInv, TypeOK, Unlucky

LEMMA CloneFailsIInv ==
  ASSUME IInv, NEW r \in Req, CloneFails(r)
  PROVE  IInv'
<1>1. Good(D(r), Empty)
  BY AbsentTyped DEF Good
<1>2. QED  BY <1>1, AbsentTyped, UnluckyTyped, BreaksIInv DEF CloneFails

LEMMA CloneKilledIInv ==
  ASSUME IInv, NEW r \in Req, CloneKilled(r)
  PROVE  IInv'
<1> DEFINE e == dir[D(r)]
           f == [e EXCEPT !.git = "broken"]
<1>1. TypeOK /\ Asked /\ Stored
  BY DEF IInv
<1>2. req[r].stage # "idle" /\ Owns(r)
  BY DEF CloneKilled
<1>3. D(r) \in Dests /\ e \in Directory
  BY <1>1, <1>2, DirectoryOf
<1>4. e.made
  BY <1>1, <1>2, <1>3 DEF Owns, Stored, Good
<1>5. f \in Directory /\ f.git = "broken" /\ f.made
  BY <1>3, <1>4 DEF Directory
<1>6. dir' = [dir EXCEPT ![D(r)] = f]
  BY DEF CloneKilled
<1> HIDE DEF f
<1>7. Good(D(r), f)
  BY <1>5 DEF Good
<1>8. QED  BY <1>2, <1>5, <1>6, <1>7, UnluckyTyped, BreaksIInv DEF CloneKilled

LEMMA FetchIInv ==
  ASSUME IInv, NEW r \in Req, Fetch(r)
  PROVE  IInv'
<1> DEFINE e == dir[D(r)]
           f == IF e.git = "ready" THEN Fetched(e, req[r].ask.uri) ELSE e
<1>1. TypeOK /\ Asked /\ Stored /\ Undisturbed
  BY DEF IInv
<1>2. req[r].stage = "fetch"
  BY DEF Fetch
<1>3. CASE Refused(r)
  BY <1>2, <1>3, RefusedIInv
<1>4. CASE /\ dir' = [dir EXCEPT ![D(r)] = f] /\ To(r, "reset")
           /\ UNCHANGED <<tip, calls, faults>>
  <2>1. D(r) \in Dests /\ e \in Directory /\ Good(D(r), e)
    BY <1>1, <1>2, DirectoryOf DEF Stored
  <2>2. /\ f \in Directory /\ f.git = e.git /\ f.whole = e.whole /\ f.made = e.made
        /\ f.head = e.head /\ f.by = e.by /\ e.objs \subseteq f.objs
    BY <2>1, FetchedTyped
  <2>3. /\ req' \in [Req -> Request] /\ req'[r].ask = req[r].ask /\ Others(r)
        /\ req'[r].stage = "reset" /\ req'[r].disturbed = req[r].disturbed
    BY <1>1, <1>4, ToTyped DEF Stages
  <2> HIDE DEF f
  <2>4. Good(D(r), f)
    BY <2>1, <2>2 DEF Good
  <2>5. Keeps(r, D(r), e, f)
    BY <2>2 DEF Keeps
  <2>6. ~ req[r].disturbed => e.git # "none"
    BY <1>1, <1>2 DEF Undisturbed, Relies
  <2>7. ~ req'[r].disturbed => Relies(r, req'[r], f)
    BY <2>2, <2>3, <2>6 DEF Relies
  <2>8. calls' \in Nat /\ faults' \in Nat /\ tip' = tip
    BY <1>1, <1>4 DEF TypeOK
  <2>9. req[r].stage # "idle"
    BY <1>2
  <2>10. QED  BY <1>4, <2>2, <2>3, <2>4, <2>5, <2>7, <2>8, <2>9, OneDirectory
<1>5. QED  BY <1>3, <1>4 DEF Fetch

LEMMA FetchFailsIInv ==
  ASSUME IInv, NEW r \in Req, FetchFails(r)
  PROVE  IInv'
BY UnluckyTyped, EndsIInv DEF FetchFails

\* After the reset the files are those of HEAD, unless git went up to another
\* repository, which it does only where the directory was taken away.
LEMMA ResetHardIInv ==
  ASSUME IInv, NEW r \in Req, ResetHard(r)
  PROVE  IInv'
<1> DEFINE e == dir[D(r)]
           f == IF GoesUp(e) THEN e ELSE Reset(e)
           p == [req[r] EXCEPT !.stage = "checkout"]
           w == [p EXCEPT !.disturbed = @ /\ GoesUp(e)]
<1>1. TypeOK /\ Asked /\ Stored /\ Undisturbed
  BY DEF IInv
<1>2. req[r].stage = "reset"
  BY DEF ResetHard
<1>3. CASE Refused(r)
  BY <1>2, <1>3, RefusedIInv
<1>4. CASE /\ dir' = [dir EXCEPT ![D(r)] = f]
           /\ req' = [req EXCEPT ![r].stage = "checkout", ![r].disturbed = @ /\ GoesUp(e)]
           /\ UNCHANGED <<tip, calls, faults>> /\ (e.git = "ready" \/ GoesUp(e))
  <2>1. D(r) \in Dests /\ e \in Directory /\ Good(D(r), e)
    BY <1>1, <1>2, DirectoryOf DEF Stored
  <2>2. /\ f \in Directory /\ f.git = e.git /\ f.made = e.made /\ f.head = e.head
        /\ f.by = e.by /\ f.objs = e.objs /\ (e.whole => f.whole) /\ (~ GoesUp(e) => f.whole)
    BY <2>1, ResetTyped
  <2>3. req[r] \in Request
    BY <1>1 DEF TypeOK
  <2>4. /\ p \in Request /\ p.stage = "checkout" /\ p.ask = req[r].ask
        /\ p.disturbed = req[r].disturbed
    BY <2>3 DEF Request, Stages
  <2>5. (p.disturbed /\ GoesUp(e)) \in BOOLEAN
    BY Zenon
  <2>6. /\ w \in Request /\ w.stage = p.stage /\ w.ask = p.ask
        /\ w.disturbed = (p.disturbed /\ GoesUp(e))
    <3> DEFINE b == p.disturbed /\ GoesUp(e)
    <3>1. b \in BOOLEAN /\ w = [p EXCEPT !.disturbed = b]
      BY <2>5, Zenon
    <3> HIDE DEF b, p, w
    <3>2. w \in Request /\ w.stage = p.stage /\ w.ask = p.ask
      BY <2>4, <3>1 DEF Request
    <3>3. DOMAIN p = {"stage", "ask", "old", "cloned", "disturbed"}
      BY <2>4 DEF Request
    <3>4. w.disturbed = b
      BY <3>1, <3>3, Zenon
    <3>5. QED  BY <3>2, <3>4, Zenon DEF b
  <2>7. req'[r] = w /\ \A s \in Req \ {r} : req'[s] = req[s]
    BY <1>1, <1>4, Zenon DEF TypeOK
  <2>8. req' \in [Req -> Request]
    BY <1>1, <1>4, <2>6, <2>7, Zenon DEF TypeOK
  <2> HIDE DEF w, p, f
  <2>9. Others(r) /\ req'[r].ask = req[r].ask
    BY <2>4, <2>6, <2>7 DEF Others
  <2>10. Good(D(r), f) /\ Keeps(r, D(r), e, f)
    BY <2>1, <2>2 DEF Good, Keeps
  <2>11. ~ req[r].disturbed => e.git # "none"
    BY <1>1, <1>2 DEF Undisturbed, Relies
  <2>12. ~ w.disturbed => ~ GoesUp(e)
    BY <2>4, <2>6, <2>11 DEF GoesUp
  <2>13. ~ req'[r].disturbed => Relies(r, req'[r], f)
    BY <1>4, <2>2, <2>4, <2>6, <2>7, <2>12 DEF Relies
  <2>14. calls' \in Nat /\ faults' \in Nat /\ tip' = tip
    BY <1>1, <1>4 DEF TypeOK
  <2>15. req[r].stage # "idle"
    BY <1>2
  <2>16. QED  BY <1>4, <2>2, <2>8, <2>9, <2>10, <2>13, <2>14, <2>15, OneDirectory
<1>5. QED  BY <1>3, <1>4 DEF ResetHard

LEMMA LockHeldIInv ==
  ASSUME IInv, NEW r \in Req, LockHeld(r)
  PROVE  IInv'
<1>1. req[r].stage # "idle" /\ Refused(r)
  BY DEF LockHeld
<1>2. QED  BY <1>1, RefusedIInv

\* A checkout sets the directory right, whoever disturbed it before: where HEAD is
\* at the commit already, so are the files.
LEMMA CheckoutIInv ==
  ASSUME IInv, NEW r \in Req, Checkout(r)
  PROVE  IInv'
<1> DEFINE e == dir[D(r)]
           a == req[r].ask
           p == [req[r] EXCEPT !.stage = "scan"]
           w == [p EXCEPT !.disturbed = FALSE]
<1>1. TypeOK /\ Asked /\ Stored /\ Undisturbed
  BY DEF IInv
<1>2. req[r].stage = "checkout"
  BY DEF Checkout
<1>3. CASE Refused(r)
  BY <1>2, <1>3, RefusedIInv
<1>4. ASSUME NEW c \in Chosen(e, a), ~ Overwrites(e, c), e.git = "ready",
             dir' = [dir EXCEPT ![D(r)] = CheckedOut(@, c, a)],
             req' = [req EXCEPT ![r].stage = "scan", ![r].disturbed = FALSE],
             UNCHANGED <<tip, calls, faults>>
      PROVE  IInv'
  <2> DEFINE f == CheckedOut(e, c, a)
  <2>1. D(r) \in Dests /\ D(r)[2] = a.commit /\ e \in Directory /\ Good(D(r), e)
    BY <1>1, <1>2, DirectoryOf DEF Stored
  <2>2. c \in Commit \cup {NoCommit} /\ (a.commit # NoCommit => c = a.commit)
    BY <1>4, <2>1, ChosenTyped
  <2>3. /\ f \in Directory /\ f.head = c /\ f.git = e.git /\ f.whole = e.whole
        /\ f.made = e.made /\ f.by = e.by /\ f.objs = e.objs
    BY <2>1, <2>2, CheckedOutTyped
  <2>4. dir' = [dir EXCEPT ![D(r)] = f]
    BY <1>4
  <2>5. req[r] \in Request
    BY <1>1 DEF TypeOK
  <2>6. p \in Request /\ p.stage = "scan" /\ p.ask = a
    BY <2>5 DEF Request, Stages
  <2>7. w \in Request /\ w.stage = p.stage /\ w.ask = p.ask
    <3> HIDE DEF p
    <3>1. QED  BY <2>6 DEF Request
  <2>8. req'[r] = w /\ \A s \in Req \ {r} : req'[s] = req[s]
    BY <1>1, <1>4, Zenon DEF TypeOK
  <2>9. req' \in [Req -> Request]
    BY <1>1, <1>4, <2>7, <2>8, Zenon DEF TypeOK
  <2> HIDE DEF w, p, f
  <2>10. a.commit # NoCommit => e.whole
    BY <1>4, <2>1, <2>2 DEF Overwrites, Good
  <2>11. Good(D(r), f)
    BY <2>1, <2>3, <2>10 DEF Good
  <2>12. Keeps(r, D(r), e, f)
    BY <2>1, <2>2, <2>3 DEF Keeps
  <2>13. Relies(r, req'[r], f)
    BY <1>4, <2>2, <2>3, <2>6, <2>7, <2>8, <2>10 DEF Relies
  <2>14. Others(r) /\ req'[r].ask = req[r].ask
    BY <2>6, <2>7, <2>8 DEF Others
  <2>15. calls' \in Nat /\ faults' \in Nat /\ tip' = tip /\ req[r].stage # "idle"
    BY <1>1, <1>2, <1>4 DEF TypeOK
  <2>16. QED  BY <2>3, <2>4, <2>9, <2>11, <2>12, <2>13, <2>14, <2>15, OneDirectory
<1>5. QED  BY <1>3, <1>4 DEF Checkout

\* A checkout that is killed was on its way to another commit than HEAD's.
LEMMA CheckoutKilledIInv ==
  ASSUME IInv, NEW r \in Req, CheckoutKilled(r)
  PROVE  IInv'
<1> DEFINE e == dir[D(r)]
           f == [e EXCEPT !.whole = FALSE]
<1>1. TypeOK /\ Asked /\ Stored
  BY DEF IInv
<1>2. req[r].stage # "idle" /\ Chosen(e, req[r].ask) \ {e.head} # {}
  BY DEF CheckoutKilled
<1>3. D(r) \in Dests /\ e \in Directory /\ D(r)[2] = req[r].ask.commit /\ Good(D(r), e)
  BY <1>1, <1>2, DirectoryOf DEF Stored
<1>4. /\ f \in Directory /\ f.git = e.git /\ f.made = e.made /\ f.head = e.head
      /\ f.objs = e.objs
  BY <1>3 DEF Directory
<1>5. dir' = [dir EXCEPT ![D(r)] = f]
  BY DEF CheckoutKilled
<1> HIDE DEF f
<1>6. D(r)[2] # NoCommit => e.head # D(r)[2]
  BY <1>2, <1>3, ChosenTyped
<1>7. Good(D(r), f)
  BY <1>3, <1>4, <1>6 DEF Good
<1>8. QED  BY <1>2, <1>4, <1>5, <1>7, UnluckyTyped, BreaksIInv DEF CheckoutKilled

LEMMA ScanEndsIInv ==
  ASSUME IInv, NEW r \in Req, ScanEnds(r)
  PROVE  IInv'
<1>1. req[r].stage # "idle" /\ To(r, "done") /\ UNCHANGED <<tip, dir, calls, faults>>
  BY DEF ScanEnds
<1>2. faults' \in Nat
  BY <1>1 DEF IInv, TypeOK
<1>3. QED  BY <1>1, <1>2, EndsIInv

LEMMA NextIInv ==
  ASSUME IInv, [Next]_vars
  PROVE  IInv'
<1>1. CASE UNCHANGED vars
  <2>1. \A u : Pushed(u)' = Pushed(u)
    BY <1>1 DEF vars, Pushed
  <2>2. QED
    BY <1>1, <2>1 DEF vars, IInv, TypeOK, Asked, Stored, Undisturbed, D
<1>2. ASSUME NEW r \in Req, NEW a \in Asks, Begin(r, a)
      PROVE  IInv'
  BY <1>2, BeginIInv
<1>3. ASSUME NEW r \in Req, CloneSource(r)
      PROVE  IInv'
  <2>1. CASE \E d \in Dests : RemoveStale(r, d)
    BY <2>1, RemoveStaleIInv
  <2>2. CASE MakeDir(r)
    BY <2>2, MakeDirIInv
  <2>3. CASE CloneBegins(r)
    BY <2>3, CloneBeginsIInv
  <2>4. CASE CloneEnds(r)
    BY <2>4, CloneEndsIInv
  <2>5. CASE CloneFails(r) \/ CloneKilled(r)
    BY <2>5, CloneFailsIInv, CloneKilledIInv
  <2>6. CASE Fetch(r) \/ FetchFails(r)
    BY <2>6, FetchIInv, FetchFailsIInv
  <2>7. CASE ResetHard(r) \/ LockHeld(r)
    BY <2>7, ResetHardIInv, LockHeldIInv
  <2>8. CASE Checkout(r) \/ CheckoutKilled(r)
    BY <2>8, CheckoutIInv, CheckoutKilledIInv
  <2>9. QED
    BY <1>3, <2>1, <2>2, <2>3, <2>4, <2>5, <2>6, <2>7, <2>8 DEF CloneSource
<1>4. ASSUME NEW r \in Req, ScanEnds(r)
      PROVE  IInv'
  BY <1>4, ScanEndsIInv
<1>5. ASSUME NEW u \in Uri, NEW b \in Branch, Push(u, b)
      PROVE  IInv'
  BY <1>5, PushIInv
<1>6. ASSUME NEW d \in Dests, Age(d)
      PROVE  IInv'
  BY <1>6, AgeIInv
<1>7. QED
  BY <1>1, <1>2, <1>3, <1>4, <1>5, <1>6 DEF Next

LEMMA Invariance == Spec => []IInv
BY InitIInv, NextIInv, PTL DEF Spec

-----------------------------------------------------------------------------
(* What follows.                                                           *)

\* The cache keeps to its directories and its requests.
THEOREM RepoCacheTypes == Spec => []TypeOK
<1>1. IInv => TypeOK
  BY DEF IInv
<1>2. QED  BY <1>1, Invariance, PTL

\* For any repositories, requests and faults: while the scan of a commit goes on in a
\* directory that no clean-up removed, the directory is at that commit and complete,
\* whatever other calls of CloneSource do in it.
THEOREM CommitIsScanned == Spec => []CommitScanned
<1>1. IInv => CommitScanned
  BY DEF IInv, Undisturbed, Relies, CommitScanned
<1>2. QED  BY <1>1, Invariance, PTL

\* What a request is allowed to fail of.
Cause(r) ==
  \/ faults' > faults
  \/ req[r].disturbed
  \/ req[r].stage = "clone"
  \/ dir[D(r)].git \in {"cloning", "broken"}
  \/ \E s \in Using(D(r)) \ {r} : req[s].stage # "scan"

\* A checkout of a commit by an undisturbed request is not refused.
LEMMA CheckoutWorks ==
  ASSUME IInv, NEW r \in Req, req[r].stage = "checkout", ~ req[r].disturbed,
         req[r].ask.commit # NoCommit
  PROVE  /\ dir[D(r)].git = "ready"
         /\ \E c \in Chosen(dir[D(r)], req[r].ask) : ~ Overwrites(dir[D(r)], c)
<1>1. TypeOK /\ Asked /\ Stored /\ Undisturbed
  BY DEF IInv
<1>2. D(r) \in Dests /\ D(r)[2] = req[r].ask.commit /\ dir[D(r)] \in Directory
  BY <1>1, DirectoryOf
<1>3. dir[D(r)].git = "ready" /\ dir[D(r)].whole
  BY <1>1 DEF Undisturbed, Relies
<1>4. req[r].ask.commit \in Chosen(dir[D(r)], req[r].ask)
  BY <1>1, <1>2, <1>3, ChosenTyped DEF Stored, Good
<1>5. QED  BY <1>3, <1>4 DEF Overwrites

LEMMA OwnFailure ==
  ASSUME IInv, NEW r \in Req, CloneSource(r), req[r].stage # "failed",
         req'[r].stage = "failed", req[r].ask.commit # NoCommit
  PROVE  Cause(r)
<1>1. TypeOK /\ Asked /\ Stored /\ Undisturbed
  BY DEF IInv
<1>2. CASE \E d \in Dests : RemoveStale(r, d)
  <2>1. req'[r] = [req[r] EXCEPT !.old = req'[r].old] \/ req'[r].stage = req[r].stage
    <3>1. PICK d \in Dests : RemoveStale(r, d)
      BY <1>2
    <3>2. req'[r] = [req[r] EXCEPT !.old = @ \ {d}] /\ req[r] \in Request
      BY <1>1, <3>1 DEF RemoveStale, TypeOK
    <3>3. QED  BY <3>2 DEF Request
  <2>2. req[r] \in Request
    BY <1>1 DEF TypeOK
  <2>3. req'[r].stage = req[r].stage
    BY <2>1, <2>2 DEF Request
  <2>4. QED  BY <2>3
<1>3. CASE MakeDir(r)
  <2>1. \E st \in {"clone", "fetch"} : To(r, st)
    BY <1>3 DEF MakeDir
  <2>2. req'[r].stage \in {"clone", "fetch"}
    BY <1>1, <2>1, ToTyped DEF Stages
  <2>3. QED  BY <2>2
<1>4. CASE CloneBegins(r)
  BY <1>4 DEF CloneBegins, Cause
<1>5. CASE CloneEnds(r)
  <2>1. Owns(r) => To(r, "checkout")
    BY <1>5 DEF CloneEnds
  <2>2. ~ Owns(r)
    BY <1>1, <2>1, ToTyped DEF Stages
  <2>3. QED  BY <1>1, <1>5, <2>2 DEF CloneEnds, Undisturbed, Relies, Owns, Cause
<1>6. CASE CloneFails(r) \/ CloneKilled(r) \/ FetchFails(r) \/ CheckoutKilled(r)
  BY <1>6, UnluckyTyped DEF CloneFails, CloneKilled, FetchFails, CheckoutKilled, Cause
<1>7. CASE Fetch(r)
  <2>1. ~ (dir[D(r)].git = "none" /\ ~ GoesUp(dir[D(r)])) => To(r, "reset")
    BY <1>7 DEF Fetch
  <2>2. dir[D(r)].git = "none"
    BY <1>1, <2>1, ToTyped DEF Stages
  <2>3. QED  BY <1>1, <1>7, <2>2 DEF Fetch, Undisturbed, Relies, Cause
<1>8. CASE ResetHard(r)
  <2>1. req[r].stage = "reset" /\ (req[r].disturbed \/ dir[D(r)].git # "none")
    BY <1>1, <1>8 DEF ResetHard, Undisturbed, Relies
  <2>2. dir[D(r)].git \in {"none", "cloning", "broken", "ready"}
    BY <1>1, <2>1, DirectoryOf DEF Directory
  <2>3. dir[D(r)].git # "ready"
    <3>1. SUFFICES ASSUME dir[D(r)].git = "ready" PROVE FALSE
      OBVIOUS
    <3>2. req' = [req EXCEPT ![r].stage = "checkout",
                             ![r].disturbed = @ /\ GoesUp(dir[D(r)])]
      BY <1>8, <3>1 DEF ResetHard
    <3>3. req[r] \in Request /\ r \in DOMAIN req
      BY <1>1 DEF TypeOK
    <3>4. DOMAIN req[r] = {"stage", "ask", "old", "cloned", "disturbed"}
      BY <3>3 DEF Request
    <3>5. req'[r].stage = "checkout"
      BY <3>2, <3>3, <3>4, Zenon
    <3>6. QED  BY <3>5
  <2>4. QED  BY <2>1, <2>2, <2>3 DEF Cause
<1>9. CASE LockHeld(r)
  BY <1>9 DEF LockHeld, Cause
<1>10. CASE Checkout(r)
  <2>1. req[r].stage = "checkout"
    BY <1>10 DEF Checkout
  <2>2. CASE req[r].disturbed
    BY <2>2 DEF Cause
  <2>3. CASE ~ req[r].disturbed
    <3>1. req' = [req EXCEPT ![r].stage = "scan", ![r].disturbed = FALSE]
      BY <1>10, <2>1, <2>3, CheckoutWorks DEF Checkout
    <3>2. req[r] \in Request /\ r \in DOMAIN req
      BY <1>1 DEF TypeOK
    <3>3. DOMAIN req[r] = {"stage", "ask", "old", "cloned", "disturbed"}
      BY <3>2 DEF Request
    <3>4. req'[r].stage = "scan"
      BY <3>1, <3>2, <3>3, Zenon
    <3>5. QED  BY <3>4
  <2>4. QED  BY <2>2, <2>3
<1>11. QED
  BY <1>2, <1>3, <1>4, <1>5, <1>6, <1>7, <1>8, <1>9, <1>10 DEF CloneSource

\* No step makes another request fail.
LEMMA OthersStay ==
  ASSUME IInv, NEW r \in Req, CloneSource(r), NEW s \in Req \ {r}
  PROVE  req'[s].stage = req[s].stage
<1>1. \A t \in Req : req[t] \in Request
  BY DEF IInv, TypeOK
<1>2. req \in [Req -> Request]
  BY DEF IInv, TypeOK
<1>3. CASE \E st : To(r, st)
  BY <1>2, <1>3 DEF To
<1>4. CASE FailsDisturbing(r)
  BY <1>2, <1>4, FailsDisturbingTyped DEF IInv, Others
<1>5. CASE \E d \in Dests : RemoveStale(r, d)
  BY <1>1, <1>5 DEF RemoveStale, Request
<1>6. CASE req'[s] = req[s]
  BY <1>6
<1>7. QED
  BY <1>2, <1>3, <1>4, <1>5, <1>6, Zenon
  DEF CloneSource, MakeDir, CloneBegins, CloneEnds, CloneFails, CloneKilled, Fetch, FetchFails,
      ResetHard, LockHeld, Checkout, CheckoutKilled, Refused

FailsFor(r) ==
  req[r].stage # "failed" /\ req'[r].stage = "failed" /\ req[r].ask.commit # NoCommit => Cause(r)

LEMMA NextFails ==
  ASSUME IInv, Next, NEW r \in Req
  PROVE  FailsFor(r)
<1>1. TypeOK
  BY DEF IInv
<1>2. ASSUME NEW s \in Req, NEW a \in Asks, Begin(s, a)
      PROVE  FailsFor(r)
  <2>1. req' = [req EXCEPT ![s] = [Idle EXCEPT !.stage = "cleanup", !.ask = a,
                                              !.old = {d \in Dests : dir[d].old}]]
    BY <1>2 DEF Begin
  <2>2. DOMAIN Idle = {"stage", "ask", "old", "cloned", "disturbed"}
    BY DEF Idle
  <2>3. r \in DOMAIN req /\ s \in DOMAIN req
    BY <1>1 DEF TypeOK
  <2>4. CASE r = s
    <3>1. req'[r].stage = "cleanup"
      BY <2>1, <2>2, <2>3, <2>4, Zenon
    <3>2. QED  BY <3>1 DEF FailsFor
  <2>5. CASE r # s
    <3>1. req'[r] = req[r]
      BY <2>1, <2>3, <2>5, Zenon
    <3>2. QED  BY <3>1 DEF FailsFor
  <2>6. QED  BY <2>4, <2>5
<1>3. ASSUME NEW s \in Req, CloneSource(s)
      PROVE  FailsFor(r)
  BY <1>3, OwnFailure, OthersStay DEF FailsFor
<1>4. ASSUME NEW s \in Req, ScanEnds(s)
      PROVE  FailsFor(r)
  <2>1. req'[s].stage = "done" /\ \A t \in Req \ {s} : req'[t].stage = req[t].stage
    BY <1>1, <1>4, ToTyped DEF ScanEnds, Stages, Others
  <2>2. QED  BY <2>1 DEF FailsFor
<1>5. ASSUME NEW u \in Uri, NEW b \in Branch, Push(u, b)
      PROVE  FailsFor(r)
  BY <1>5 DEF Push, FailsFor
<1>6. ASSUME NEW d \in Dests, Age(d)
      PROVE  FailsFor(r)
  BY <1>6 DEF Age, FailsFor
<1>7. QED
  BY <1>2, <1>3, <1>4, <1>5, <1>6 DEF Next

\* For any repositories, requests and faults: CloneSource for a commit fails only when
\* a command of its own failed, or another call is or was at work in its directory
\* since it looked; never for what calls that are over left behind.
THEOREM FailsOnlyForCause == Spec => FailsForCause
<1>1. ASSUME IInv, [Next]_vars
      PROVE  [\A r \in Req : FailsFor(r)]_vars
  BY <1>1, NextFails
<1>2. IInv /\ [Next]_vars =>
        [\A r \in Req :
           /\ req[r].stage # "failed" /\ req'[r].stage = "failed"
           /\ req[r].ask.commit # NoCommit
           => \/ faults' > faults
              \/ req[r].disturbed
              \/ req[r].stage = "clone"
              \/ dir[D(r)].git \in {"cloning", "broken"}
              \/ \E s \in Using(D(r)) \ {r} : req[s].stage # "scan"]_vars
  BY <1>1 DEF FailsFor, Cause
<1>3. QED  BY <1>2, Invariance, PTL DEF Spec, FailsForCause
================================================================================
