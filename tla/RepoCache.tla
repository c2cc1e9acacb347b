------------------------------ MODULE RepoCache ------------------------------
(***************************************************************************)
(* The cache of cloned repositories: CloneSource for concurrent requests,  *)
(* each followed by the scan that reads the directory it returned, and the *)
(* removal of old directories at the start of every CloneSource.           *)
(*                                                                         *)
(* git is external: a repository is its commits, by branch, and a command  *)
(* does its work or fails, or is killed when its time is over and leaves   *)
(* its work half done.                                                     *)
(***************************************************************************)
EXTENDS Integers, Sequences, FiniteSets

CONSTANTS
  Uri,            \* repositories
  Name,           \* [Uri -> last segment of its path, without .git]
  Branch,
  Main,           \* the branch that HEAD of every repository is on
  Req,            \* calls of CloneSource
  Asks,           \* what they may ask for: uri, branch or "", commit or NoCommit
  MaxCommits,     \* bound on the commits of a branch
  MaxCalls,       \* bound on the calls made
  MaxFaults,      \* bound on the commands that fail or are killed
  CredUri,        \* repositories whose address takes the administrator's credentials
  InsideRepo      \* the cache lies in the working tree of another repository

\* A commit is of one repository and one branch, by the number it has there.
Commit   == [uri : Uri, branch : Branch, n : 1..MaxCommits]
NoCommit == [uri |-> "", branch |-> "", n |-> 0]

ASSUME RepoAssumption ==
  /\ DOMAIN Name = Uri /\ Main \in Branch
  /\ "" \notin Uri /\ "" \notin Branch
  /\ MaxCommits \in Nat \ {0} /\ MaxCalls \in Nat /\ MaxFaults \in Nat
  /\ CredUri \subseteq Uri /\ InsideRepo \in BOOLEAN
  /\ \A a \in Asks : /\ a.uri \in Uri /\ a.branch \in Branch \cup {""}
                     /\ a.commit = NoCommit \/ a.commit.uri = a.uri

\* The directory: the name of the repository and the commit, cut to 8 characters
\* (assumed to tell the commits asked for apart), or "latest".
\* A seeded fault: the commit is not part of the name.
DestByName(ask) == <<Name[ask.uri], NoCommit>>

Dest(ask) == <<Name[ask.uri], ask.commit>>

Dests == {<<Name[a.uri], c>> : a \in Asks, c \in {NoCommit} \cup {x.commit : x \in Asks}}

VARIABLES
  tip,    \* commits pushed to each branch of each repository
  dir,    \* the directories of the cache
  req,    \* what each request is doing
  calls,  \* calls made so far
  faults  \* commands failed or killed so far

vars == <<tip, dir, req, calls, faults>>

-----------------------------------------------------------------------------
(* Directories.                                                            *)

\* No directory.
Absent == [made |-> FALSE, git |-> "none", refs |-> {}, objs |-> {}, local |-> {},
           head |-> NoCommit, whole |-> TRUE, old |-> FALSE, by |-> 0]

\* MkdirAll.
Empty == [Absent EXCEPT !.made = TRUE]

Pushed(u) == {c \in Commit : c.uri = u /\ c.n <= tip[u][c.branch]}
Tips(u)   == {c \in Pushed(u) : c.n = tip[u][c.branch]}

\* git clone: every branch, a local branch for HEAD.
Cloned(d, u) ==
  LET head == CHOOSE c \in Tips(u) : c.branch = Main IN
  [d EXCEPT !.git = "ready", !.refs = Tips(u), !.objs = Pushed(u),
            !.local = {head}, !.head = head, !.whole = TRUE]

\* git fetch: with the address and its credentials, the commits of HEAD and no ref;
\* with --all, every branch of the remote the directory was cloned from, and its refs.
Fetched(d, u) ==
  IF u \in CredUri
  THEN [d EXCEPT !.objs = @ \cup {c \in Pushed(u) : c.branch = Main}]
  ELSE LET origin == (CHOOSE c \in d.refs : TRUE).uri IN
       [d EXCEPT !.objs = @ \cup Pushed(origin), !.refs = Tips(origin)]

\* git reset --hard and clean -fdx: the files are those of HEAD.
Reset(d) == [d EXCEPT !.whole = TRUE]

\* git checkout of a commit, or of a branch: the local one, else one made from the
\* ref of the remote.
LocalOf(d, b)  == {c \in d.local : c.branch = b}
RemoteOf(d, b) == {c \in d.refs : c.branch = b}

Chosen(d, ask) ==
  IF ask.commit # NoCommit THEN {ask.commit} \cap d.objs
  ELSE IF ask.branch = "" THEN {d.head}
  ELSE IF LocalOf(d, ask.branch) # {} THEN LocalOf(d, ask.branch)
  ELSE RemoteOf(d, ask.branch)

\* A checkout that would overwrite files that are not those of HEAD is refused.
Overwrites(d, c) == ~ d.whole /\ c # d.head

CheckedOut(d, c, ask) ==
  [d EXCEPT !.head = c, !.local = IF ask.commit = NoCommit THEN @ \cup {c} ELSE @]

-----------------------------------------------------------------------------
NoAsk == [uri |-> "", branch |-> "", commit |-> NoCommit]
Idle  == [stage |-> "idle", ask |-> NoAsk, old |-> {}, cloned |-> FALSE, disturbed |-> FALSE]

Init ==
  /\ tip = [u \in Uri |-> [b \in Branch |-> 1]]
  /\ dir = [d \in Dests |-> Absent]
  /\ req = [r \in Req |-> Idle]
  /\ calls = 0 /\ faults = 0

D(r) == Dest(req[r].ask)

To(r, stage) == req' = [req EXCEPT ![r].stage = stage]

Using(d) == {s \in Req : req[s].stage \notin {"idle", "cleanup", "done", "failed"} /\ D(s) = d}

\* CloneSource begins with cleanupStaleRepos: the time is taken once.  A commit asked
\* for is one the platform scanned.
Begin(r, ask) ==
  /\ req[r].stage \in {"idle", "done", "failed"}
  /\ calls < MaxCalls /\ calls' = calls + 1
  /\ ask.commit = NoCommit \/ ask.commit \in Pushed(ask.uri)
  /\ req' = [req EXCEPT ![r] = [Idle EXCEPT !.stage = "cleanup", !.ask = ask,
                                            !.old = {d \in Dests : dir[d].old}]]
  /\ UNCHANGED <<tip, dir, faults>>

\* The loop comes to a directory not modified for longer than the TTL and removes
\* it, whoever may be working in it; RemoveAll ends when nothing is left.
RemoveStale(r, d) ==
  /\ req[r].stage = "cleanup" /\ d \in req[r].old
  /\ dir' = [dir EXCEPT ![d] = IF @.old THEN Absent ELSE @]
  /\ req' = [s \in Req |->
       IF s = r THEN [req[s] EXCEPT !.old = @ \ {d}]
       ELSE IF dir[d].old /\ s \in Using(d) THEN [req[s] EXCEPT !.disturbed = TRUE]
       ELSE req[s]]
  /\ UNCHANGED <<tip, calls, faults>>

\* MkdirAll; .git is there or not.
MakeDir(r) ==
  /\ req[r].stage = "cleanup" /\ req[r].old = {}
  /\ dir' = [dir EXCEPT ![D(r)] = IF @.made THEN @ ELSE Empty]
  /\ To(r, IF dir[D(r)].git = "none" THEN "clone" ELSE "fetch")
  /\ UNCHANGED <<tip, calls, faults>>

\* A command that cannot do its work fails, and so does the request.
Refused(r) ==
  /\ To(r, "failed")
  /\ UNCHANGED <<tip, dir, calls, faults>>

\* git clone makes its directory .git, or refuses a directory that is not empty.
CloneBegins(r) ==
  /\ req[r].stage = "clone"
  /\ IF dir[D(r)].git # "none"
     THEN Refused(r)
     ELSE /\ dir' = [dir EXCEPT ![D(r)] = [Empty EXCEPT !.git = "cloning", !.by = r]]
          /\ req' = [req EXCEPT ![r].stage = "cloning", ![r].cloned = TRUE, ![r].disturbed = FALSE]
          /\ UNCHANGED <<tip, calls, faults>>

\* Its directory is still its own.
Owns(r) == dir[D(r)].git = "cloning" /\ dir[D(r)].by = r

CloneEnds(r) ==
  /\ req[r].stage = "cloning"
  /\ IF Owns(r)
     THEN /\ dir' = [dir EXCEPT ![D(r)] = Cloned(@, req[r].ask.uri)]
          /\ To(r, "checkout")
          /\ UNCHANGED <<tip, calls, faults>>
     ELSE Refused(r)

\* r ends, and whoever uses its directory finds it changed.
FailsDisturbing(r) ==
  req' = [s \in Req |->
    IF s = r THEN [req[s] EXCEPT !.stage = "failed"]
    ELSE IF s \in Using(D(r)) THEN [req[s] EXCEPT !.disturbed = TRUE]
    ELSE req[s]]

Unlucky == faults < MaxFaults /\ faults' = faults + 1

\* A clone that fails removes what it made, one that is killed does not.
CloneFails(r) ==
  /\ req[r].stage = "cloning" /\ Owns(r) /\ Unlucky
  /\ dir' = [dir EXCEPT ![D(r)] = Empty]
  /\ FailsDisturbing(r)
  /\ UNCHANGED <<tip, calls>>

CloneKilled(r) ==
  /\ req[r].stage = "cloning" /\ Owns(r) /\ Unlucky
  /\ dir' = [dir EXCEPT ![D(r)].git = "broken"]
  /\ FailsDisturbing(r)
  /\ UNCHANGED <<tip, calls>>

\* In a directory without .git, git works in the repository around it, if any.
GoesUp(d) == d.made /\ d.git = "none" /\ InsideRepo

\* git fetch in a directory that is there.
Fetch(r) ==
  /\ req[r].stage = "fetch"
  /\ LET d == dir[D(r)] IN
     IF d.git = "none" /\ ~ GoesUp(d)
     THEN Refused(r)
     ELSE /\ dir' = [dir EXCEPT ![D(r)] = IF @.git = "ready" THEN Fetched(@, req[r].ask.uri) ELSE @]
          /\ To(r, "reset")
          /\ UNCHANGED <<tip, calls, faults>>

FetchFails(r) ==
  /\ req[r].stage = "fetch" /\ Unlucky
  /\ To(r, "failed")
  /\ UNCHANGED <<tip, dir, calls>>

\* A seeded fault: the files are not put back before the checkout.
NoResetHard(r) ==
  /\ req[r].stage = "reset"
  /\ IF dir[D(r)].git # "ready"
     THEN Refused(r)
     ELSE To(r, "checkout") /\ UNCHANGED <<tip, dir, calls, faults>>

\* git reset --hard, then clean: HEAD must be at a commit.
ResetHard(r) ==
  /\ req[r].stage = "reset"
  /\ LET d == dir[D(r)] IN
     IF d.git # "ready" /\ ~ GoesUp(d)
     THEN Refused(r)
     ELSE /\ dir' = [dir EXCEPT ![D(r)] = IF GoesUp(d) THEN @ ELSE Reset(@)]
          /\ req' = [req EXCEPT ![r].stage = "checkout", ![r].disturbed = @ /\ GoesUp(d)]
          /\ UNCHANGED <<tip, calls, faults>>

\* git refuses while another command holds the lock of the index.
LockHeld(r) ==
  /\ req[r].stage \in {"reset", "checkout"}
  /\ \E s \in Using(D(r)) \ {r} : req[s].stage \in {"reset", "checkout"}
  /\ Refused(r)

\* git checkout of the commit, or of the branch, or of nothing.
Checkout(r) ==
  /\ req[r].stage = "checkout"
  /\ LET d == dir[D(r)] IN
     \/ /\ d.git # "ready" \/ \A c \in Chosen(d, req[r].ask) : Overwrites(d, c)
        /\ Refused(r)
     \/ /\ d.git = "ready"
        /\ \E c \in Chosen(d, req[r].ask) :
             /\ ~ Overwrites(d, c)
             /\ dir' = [dir EXCEPT ![D(r)] = CheckedOut(@, c, req[r].ask)]
        /\ req' = [req EXCEPT ![r].stage = "scan", ![r].disturbed = FALSE]
        /\ UNCHANGED <<tip, calls, faults>>

\* Killed between files and HEAD: HEAD is where it was, some files are not its own.
CheckoutKilled(r) ==
  /\ req[r].stage = "checkout" /\ Unlucky
  /\ dir[D(r)].git = "ready"
  /\ Chosen(dir[D(r)], req[r].ask) \ {dir[D(r)].head} # {}
  /\ dir' = [dir EXCEPT ![D(r)].whole = FALSE]
  /\ FailsDisturbing(r)
  /\ UNCHANGED <<tip, calls>>

\* The scan of the directory is over.
ScanEnds(r) ==
  /\ req[r].stage = "scan"
  /\ To(r, "done")
  /\ UNCHANGED <<tip, dir, calls, faults>>

-----------------------------------------------------------------------------
\* A commit is pushed to a branch.
Push(u, b) ==
  /\ tip[u][b] < MaxCommits
  /\ tip' = [tip EXCEPT ![u][b] = @ + 1]
  /\ UNCHANGED <<dir, req, calls, faults>>

\* The TTL passes for a directory.  The request that made it is over by then: git
\* has half an hour, and a scan takes less than the TTL.
Age(d) ==
  /\ dir[d].made /\ ~ dir[d].old
  /\ \A r \in Using(d) : ~ req[r].cloned
  /\ dir' = [dir EXCEPT ![d].old = TRUE]
  /\ UNCHANGED <<tip, req, calls, faults>>

CloneSource(r) ==
  \/ \E d \in Dests : RemoveStale(r, d)
  \/ MakeDir(r)
  \/ CloneBegins(r) \/ CloneEnds(r) \/ CloneFails(r) \/ CloneKilled(r)
  \/ Fetch(r) \/ FetchFails(r)
  \/ ResetHard(r) \/ LockHeld(r)
  \/ Checkout(r) \/ CheckoutKilled(r)

Next ==
  \/ \E r \in Req, a \in Asks : Begin(r, a)
  \/ \E r \in Req : CloneSource(r) \/ ScanEnds(r)
  \/ \E u \in Uri, b \in Branch : Push(u, b)
  \/ \E d \in Dests : Age(d)

Spec == Init /\ [][Next]_vars

-----------------------------------------------------------------------------
(* Properties.                                                             *)

\* While the scan of a commit goes on, the files of its directory are those of that
\* commit, whatever other requests clone, fetch, reset, check out or break there:
\* unless the clean-up of another request removed the directory, which it may.
CommitScanned ==
  \A r \in Req : req[r].stage = "scan" /\ req[r].ask.commit # NoCommit /\ ~ req[r].disturbed =>
    LET d == dir[D(r)] IN d.git = "ready" /\ d.head = req[r].ask.commit /\ d.whole

\* A call for a commit fails only when a command of its own failed or was killed, or
\* another call cloned its directory since it looked, changed it under it since it
\* last set it right, is cloning it, or is at work in it, or was killed cloning it.
\* What calls that are over left behind otherwise never makes it fail.
FailsForCause ==
  [][\A r \in Req :
       /\ req[r].stage # "failed" /\ req'[r].stage = "failed"
       /\ req[r].ask.commit # NoCommit
       => \/ faults' > faults
          \/ req[r].disturbed
          \/ req[r].stage = "clone"
          \/ dir[D(r)].git \in {"cloning", "broken"}
          \/ \E s \in Using(D(r)) \ {r} : req[s].stage # "scan"]_vars

=============================================================================
