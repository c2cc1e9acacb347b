---------------------------- MODULE CodescanFetch ----------------------------
(***************************************************************************)
(* The client of the codescan platform: how the bugs of a task are fetched *)
(* page by page and one by one by concurrent workers, how they are         *)
(* summarised, and the three caches with a time to live that concurrent    *)
(* requests share.                                                         *)
(*                                                                         *)
(* The platform is external: a list of bugs that may change between two    *)
(* requests, and replies that may be lost or mean nothing.  A page carries *)
(* the version of the list it was cut from, for the properties only.       *)
(***************************************************************************)
EXTENDS Integers, Sequences, FiniteSets, SequencesExt

CONSTANTS
  Bug,          \* bug ids
  Req,          \* requests to the client, of any kind
  Level,        \* [Bug -> level]: 5, 3, 1 or another number
  Rule,         \* [Bug -> rule code], "" when it has none
  Initial,      \* the list of the task at first
  ListPageSize, \* listPageSize
  FetchWorkers,
  Asks,         \* what is asked for: sets of levels and of rule keys, {} for all,
                \* and a limit, 0 for none
  MaxFaults,    \* bound on the replies that are lost or mean nothing
  MaxChanges,   \* bound on the changes of the list
  MaxExpiries   \* bound on the cache entries that expire

ASSUME FetchAssumption ==
  /\ Level \in [Bug -> Int] /\ DOMAIN Rule = Bug
  /\ Initial \in Seq(Bug)
  /\ ListPageSize \in Nat \ {0} /\ FetchWorkers \in Nat \ {0}
  /\ \A a \in Asks : a.limit \in Nat
  /\ MaxFaults \in Nat /\ MaxChanges \in Nat /\ MaxExpiries \in Nat

UnknownRuleKey == "__UNKNOWN__"
LevelOrder == <<5, 3, 1>>

VARIABLES
  lists,         \* the list of the task, one entry per version
  listPageCache, \* pages, by number
  detailCache,   \* what is cached for a bug: "bug" or "blank", or "none"
  summaryCache,  \* the cached summary, or NoSummary
  req,           \* what each request is doing
  faults,        \* replies spoilt so far
  expiries       \* cache entries expired so far

caches == <<listPageCache, detailCache, summaryCache>>
vars == <<lists, caches, req, faults, expiries>>

-----------------------------------------------------------------------------
(* Pages.                                                                  *)

CeilDiv(a, b) == (a + b - 1) \div b

MaxPages == CeilDiv(Len(Initial) + MaxChanges, ListPageSize) + 1
Pages == 1..MaxPages

Now == lists[Len(lists)]

Cut(list, p) ==
  SubSeq(list, (p - 1) * ListPageSize + 1,
         IF p * ListPageSize < Len(list) THEN p * ListPageSize ELSE Len(list))

\* An object with data: the bugs of the page and their number in all.
PageOf(p) == [bugs |-> Cut(Now, p), count |-> Len(Now), version |-> Len(lists)]

\* No object, or one that is not a page: neither bugs nor a number.
Blank  == [bugs |-> <<>>, count |-> 0, version |-> 0]
NoPage == [bugs |-> <<>>, count |-> -1, version |-> 0]

\* How httpGetJSON and unwrap may end for an address: with the data, with an
\* error, with JSON that is no object, or with an object that is not the data.
Replies == IF faults < MaxFaults THEN {"data", "error", "noObject", "otherObject"} ELSE {"data"}

Spoils(reply) == faults' = IF reply = "data" THEN faults ELSE faults + 1

\* fetchListPage: only an object is cached.
CachesPage(reply) == reply \in {"data", "otherObject"}

PageRead(reply, p) == IF reply = "data" THEN PageOf(p) ELSE Blank

StorePage(reply, p) ==
  listPageCache' = IF CachesPage(reply)
                   THEN [listPageCache EXCEPT ![p] = PageRead(reply, p)]
                   ELSE listPageCache

-----------------------------------------------------------------------------
(* What a request asks for.                                                *)

RuleKey(b) == IF Rule[b] = "" THEN UnknownRuleKey ELSE Rule[b]

Matches(b, ask) ==
  /\ ask.levels = {} \/ Level[b] \in ask.levels
  /\ ask.rules = {} \/ RuleKey(b) \in ask.rules

\* The first of a bug's entries is kept, and no more than the limit.
Targets(list, ask) ==
  LET firsts == {i \in DOMAIN list : /\ Matches(list[i], ask)
                                     /\ \A j \in 1..(i - 1) : list[j] # list[i]}
      all == [k \in 1..Cardinality(firsts) |->
                list[CHOOSE i \in firsts : Cardinality({j \in firsts : j < i}) = k - 1]]
  IN  IF ask.limit = 0 \/ ask.limit >= Len(all) THEN all ELSE SubSeq(all, 1, ask.limit)

\* A seeded fault: the last page is missed when it is not full.
NumFullPages(first) ==
  LET n == first.count \div ListPageSize IN IF n < 1 THEN 1 ELSE n

\* The number of pages, by the first of them.
NumPages(first) ==
  LET n == CeilDiv(first.count, ListPageSize) IN IF n < 1 THEN 1 ELSE n

NumAsked(r) ==
  IF req[r].pages[1] = NoPage THEN 1 ELSE NumPages(req[r].pages[1])

AllBugs(r) == FlattenSeq([p \in 1..NumAsked(r) |-> req[r].pages[p].bugs])

-----------------------------------------------------------------------------
(* Requests.                                                               *)

NoSummary == [total |-> -1, counts |-> {}, version |-> 0]
All == [levels |-> {}, rules |-> {}, limit |-> 0]

Idle == [stage |-> "idle", ask |-> All, next |-> 1, busy |-> {},
         pages |-> [p \in Pages |-> NoPage], targets |-> <<>>, missed |-> {},
         out |-> <<>>, summary |-> NoSummary]

Init ==
  /\ lists = <<Initial>>
  /\ listPageCache = [p \in Pages |-> NoPage]
  /\ detailCache = [b \in Bug |-> "none"]
  /\ summaryCache = NoSummary
  /\ req = [r \in Req |-> Idle]
  /\ faults = 0
  /\ expiries = 0

\* GET .../all-bugs, or the request of the callback, which has no filter.
BeginFetch(r) ==
  /\ req[r].stage = "idle"
  /\ \E ask \in Asks :
       req' = [req EXCEPT ![r] = [Idle EXCEPT !.stage = "pages", !.ask = ask]]
  /\ UNCHANGED <<lists, caches, faults, expiries>>

\* fetchListPage looks into the cache first.  The first page is read by the request
\* itself, the loop over the others takes a permit for a worker.
StartPage(r) ==
  /\ req[r].stage = "pages"
  /\ req[r].next <= NumAsked(r)
  /\ Cardinality(req[r].busy) < FetchWorkers
  /\ LET p == req[r].next IN
       req' = [req EXCEPT
         ![r].next = p + 1,
         ![r].busy = IF listPageCache[p] = NoPage THEN @ \cup {p} ELSE @,
         ![r].pages[p] = listPageCache[p]]
  /\ UNCHANGED <<lists, caches, faults, expiries>>

\* A page is answered.  An error on the first is the client's answer, another page
\* that fails is left out.
PageReadBy(r, p) ==
  /\ req[r].stage = "pages"
  /\ p \in req[r].busy
  /\ \E reply \in Replies :
       /\ Spoils(reply)
       /\ StorePage(reply, p)
       /\ req' = [req EXCEPT
            ![r].stage = IF p = 1 /\ reply = "error" THEN "failed" ELSE @,
            ![r].busy = @ \ {p},
            ![r].pages[p] = IF reply = "error" THEN NoPage ELSE PageRead(reply, p)]
  /\ UNCHANGED <<lists, detailCache, summaryCache, expiries>>

\* wg.Wait: the pages that came are put together in their order.
PagesDone(r) ==
  /\ req[r].stage = "pages"
  /\ req[r].next > NumAsked(r)
  /\ req[r].busy = {}
  /\ LET targets == Targets(AllBugs(r), req[r].ask) IN
       req' = [req EXCEPT
         ![r].stage = IF targets = <<>> THEN "done" ELSE "details",
         ![r].targets = targets,
         ![r].next = 1]
  /\ UNCHANGED <<lists, caches, faults, expiries>>

\* fetchOneDetail by a worker: an object is cached, also one that is no bug.
StartDetail(r) ==
  /\ req[r].stage = "details"
  /\ req[r].next <= Len(req[r].targets)
  /\ Cardinality(req[r].busy) < FetchWorkers
  /\ LET b == req[r].targets[req[r].next] IN
       req' = [req EXCEPT
         ![r].next = @ + 1,
         ![r].busy   = IF detailCache[b] = "none" THEN @ \cup {b} ELSE @,
         ![r].missed = IF detailCache[b] = "blank" THEN @ \cup {b} ELSE @]
  /\ UNCHANGED <<lists, caches, faults, expiries>>

\* A bug that is gone from the platform is answered with an error.
DetailRead(r, b) ==
  /\ req[r].stage = "details"
  /\ b \in req[r].busy
  /\ \E reply \in Replies :
       LET got == IF reply = "data" /\ b \notin ToSet(Now) THEN "error" ELSE reply IN
       /\ Spoils(reply)
       /\ detailCache' = [detailCache EXCEPT ![b] =
            CASE got = "data" -> "bug" [] got = "otherObject" -> "blank" [] OTHER -> @]
       /\ req' = [req EXCEPT
            ![r].busy = @ \ {b},
            ![r].missed = IF got = "data" THEN @ ELSE @ \cup {b}]
  /\ UNCHANGED <<lists, listPageCache, summaryCache, expiries>>

\* The details in the order of the list, those that failed left out.
FetchDone(r) ==
  /\ req[r].stage = "details"
  /\ req[r].next > Len(req[r].targets)
  /\ req[r].busy = {}
  /\ req' = [req EXCEPT ![r].stage = "done",
                        ![r].out = SelectSeq(req[r].targets, LAMBDA b : b \notin req[r].missed)]
  /\ UNCHANGED <<lists, caches, faults, expiries>>

-----------------------------------------------------------------------------
(* SummarizeBugs.                                                          *)

\* GET .../bug-summary
BeginSummary(r) ==
  /\ req[r].stage = "idle"
  /\ req' = [req EXCEPT ![r] =
       IF summaryCache # NoSummary
       THEN [Idle EXCEPT !.stage = "summarised", !.summary = summaryCache]
       ELSE [Idle EXCEPT !.stage = "sum"]]
  /\ UNCHANGED <<lists, caches, faults, expiries>>

\* The groups by level and rule, counted over the entries; levels outside
\* levelOrder are in the total only.
Summarised(bugs, version) ==
  [total   |-> Len(bugs),
   counts  |-> {c \in [level : ToSet(LevelOrder), rule : {RuleKey(b) : b \in Bug},
                       count : 1..Len(bugs)] :
                  c.count = Cardinality({i \in DOMAIN bugs : /\ Level[bugs[i]] = c.level
                                                             /\ RuleKey(bugs[i]) = c.rule})},
   version |-> version]

\* The version of the list that all the pages read so far were cut from, or 0.
CommonVersion(r, upTo) ==
  IF \A p \in 1..upTo : req[r].pages[p].version = req[r].pages[1].version
  THEN req[r].pages[1].version ELSE 0

\* One page after the other, past the caches of pages, until one is not full.
SummaryPage(r) ==
  /\ req[r].stage = "sum"
  /\ \E reply \in Replies :
       LET p    == req[r].next
           page == PageRead(reply, p)
           bugs == FlattenSeq([q \in 1..(p - 1) |-> req[r].pages[q].bugs]) \o page.bugs
           version == IF p = 1 THEN page.version
                      ELSE IF page.version = CommonVersion(r, p - 1) THEN page.version ELSE 0
           more == Len(page.bugs) = ListPageSize
           sum  == Summarised(bugs, version)
       IN /\ Spoils(reply)
          /\ req' = [req EXCEPT
               ![r].stage = IF reply = "error" THEN "failed"
                            ELSE IF more THEN "sum" ELSE "summarised",
               ![r].pages[p] = page,
               ![r].next = p + 1,
               ![r].summary = IF more \/ reply = "error" THEN @ ELSE sum]
          /\ summaryCache' = IF more \/ reply = "error" THEN summaryCache ELSE sum
  /\ UNCHANGED <<lists, listPageCache, detailCache, expiries>>

-----------------------------------------------------------------------------
(* Time and the platform.                                                  *)

Expires == expiries < MaxExpiries /\ expiries' = expiries + 1

ExpirePage(p) ==
  /\ listPageCache[p] # NoPage
  /\ listPageCache' = [listPageCache EXCEPT ![p] = NoPage]
  /\ Expires
  /\ UNCHANGED <<lists, detailCache, summaryCache, req, faults>>

ExpireDetail(b) ==
  /\ detailCache[b] # "none"
  /\ detailCache' = [detailCache EXCEPT ![b] = "none"]
  /\ Expires
  /\ UNCHANGED <<lists, listPageCache, summaryCache, req, faults>>

ExpireSummary ==
  /\ summaryCache # NoSummary
  /\ summaryCache' = NoSummary
  /\ Expires
  /\ UNCHANGED <<lists, listPageCache, detailCache, req, faults>>

\* A bug is found or resolved, at any place of the list.
ListChanges ==
  /\ Len(lists) <= MaxChanges
  /\ \E i \in 1..(Len(Now) + 1) :
       \/ \E b \in Bug \ ToSet(Now) : lists' = Append(lists, InsertAt(Now, i, b))
       \/ i <= Len(Now) /\ lists' = Append(lists, RemoveAt(Now, i))
  /\ UNCHANGED <<caches, req, faults, expiries>>

Fetching(r) ==
  \/ StartPage(r) \/ PagesDone(r)
  \/ \E p \in Pages : PageReadBy(r, p)
  \/ StartDetail(r) \/ FetchDone(r)
  \/ \E b \in Bug : DetailRead(r, b)
  \/ SummaryPage(r)

Next ==
  \/ \E r \in Req : BeginFetch(r) \/ BeginSummary(r) \/ Fetching(r)
  \/ \E p \in Pages : ExpirePage(p)
  \/ \E b \in Bug : ExpireDetail(b)
  \/ ExpireSummary
  \/ ListChanges

Spec == Init /\ [][Next]_vars

-----------------------------------------------------------------------------
(* Properties.                                                             *)

Version(r) == req[r].pages[1].version
Lost(r) == {p \in 1..NumAsked(r) : req[r].pages[p].version = 0}

\* The pages the answer of r was made from are all of one list.
OfOneList(r) ==
  /\ req[r].stage = "done"
  /\ Version(r) > 0
  /\ \A p \in 1..NumAsked(r) \ Lost(r) : req[r].pages[p].version = Version(r)

\* The list without the entries of pages that did not come.
Listed(r) ==
  LET list == lists[Version(r)] IN
  SelectSeq(list, LAMBDA b : \A p \in Lost(r) : b \notin ToSet(Cut(list, p)))

\* No bug is answered twice.  And an answer whose pages, cached or fetched by any
\* worker, were cut from one list is that list as asked for, in its order, without
\* exactly the pages and the details that were not to be had: a failure takes what
\* it was about, without an error, and nothing else.
AnswerAccounts ==
  \A r \in Req :
    /\ IsInjective(req[r].out)
    /\ OfOneList(r) =>
         req[r].out = SelectSeq(Targets(Listed(r), req[r].ask),
                                LAMBDA b : b \notin req[r].missed)

\* The number a summary shows for a level and a rule is the number of bugs that a
\* request with that filter asks the details of, when both are of one list, however
\* the two were interleaved and whichever caches they used.
SummaryAgrees ==
  \A r, s \in Req :
    /\ OfOneList(r) /\ Lost(r) = {} /\ req[r].ask.limit = 0
    /\ req[s].stage = "summarised" /\ req[s].summary.version = Version(r)
    => \A c \in req[s].summary.counts :
         req[r].ask = [levels |-> {c.level}, rules |-> {c.rule}, limit |-> 0]
           => Len(req[r].targets) = c.count

\* What is answered and what is counted are one selection of one list.
SelectionAccounted == AnswerAccounts /\ SummaryAgrees

=============================================================================
