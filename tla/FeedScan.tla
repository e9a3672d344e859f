------------------------------ MODULE FeedScan ------------------------------
(***************************************************************************)
(* The feed loop of the scheduler and the handlers of the feed page, for   *)
(* one account.  A tick runs the feed searches that are due, stores the    *)
(* posts it finds and classifies a batch of the unclassified ones; the     *)
(* user dismisses posts and imports their authors as prospects.  An import *)
(* is four statements without a transaction: other requests, the loop and  *)
(* faults come in between.                                                 *)
(***************************************************************************)
EXTENDS Naturals, Sequences, FiniteSets, Listings

CONSTANTS
  Workers,      \* server instances running the feed loop
  Requests,     \* HTTP requests that may import an author at the same time
  Searches,     \* the account's feed searches, all enabled
  Posts,        \* the posts LinkedIn may return
  Finds,        \* per search: the items LinkedIn answers with, in its order
  NoId,         \* an item without an id
  MaxResults,   \* feed_searches.max_results
  Author,       \* per post: the profile of its author, NoAuthor without a URL
  NoAuthor,
  Campaigns,    \* the account's campaigns at the start
  Active,       \* those of them whose status is 'active'
  SearchLimit,  \* Config.BatchSize: searches run in one tick, at most
  ClassifyBatch,  \* feedClassifyBatch
  Faults,       \* the kinds of fault the environment may cause
  MaxFaults,    \* bound: how many faults happen in one behaviour
  MaxClicks,    \* bound: how many requests the user sends
  MaxDeletes    \* bound: how many campaigns and prospects are deleted

\* "search": the account or the search call fails; "busy": the classifier fails with
\* a transient error; "model": with any other; "db": a statement.
FaultKinds == {"crash", "search", "busy", "model", "db"}
UserStatus == {"relevant", "irrelevant", "dismissed", "new"}
Status == UserStatus \cup {"imported", "absent"}
Authors == {Author[p] : p \in Posts} \ {NoAuthor}

ASSUME FeedAssumption ==
  /\ Finds \in [Searches -> Seq(Posts \cup {NoId})] /\ NoId \notin Posts /\ MaxResults \in Nat \ {0}
  /\ DOMAIN Author = Posts
  /\ IsFiniteSet(Searches) /\ IsFiniteSet(Posts)
  /\ Active \subseteq Campaigns
  /\ SearchLimit \in Nat \ {0} /\ ClassifyBatch \in Nat \ {0}
  /\ Faults \subseteq FaultKinds
  /\ MaxFaults \in Nat /\ MaxClicks \in Nat /\ MaxDeletes \in Nat

VARIABLES
  due,       \* the searches whose last run is older than FeedRediscover
  post,      \* the feed_posts table; link is imported_prospect_id, 0 is NULL
  seen,      \* the posts in the table by first_seen_at
  campaigns, \* the campaigns that exist
  prospect,  \* per author: the id and the campaign of the prospects row, id 0 for none
  born,      \* how many prospects were created
  pc, todo, scan, batch, verdict,  \* per worker: position, searches left, the one
                                   \* that runs with its hits, posts left, answer
  req,       \* per request: position, post and what it has read
  budget, clicks, deletes,  \* faults, requests and deletions left
  decision,  \* history: the status the user set last, "none" before
  overtaken, \* history: posts decided on while a worker had them listed
  unlinked,  \* history: posts whose prospect was deleted after the import
  torn       \* history: authors whose import broke off between its writes

tables == <<due, post, seen, campaigns, prospect, born>>
worker == <<pc, todo, scan, batch, verdict>>
bounds == <<budget, clicks, deletes>>
ghost  == <<decision, overtaken, unlinked, torn>>
vars   == <<tables, worker, req, bounds, ghost>>

Absent == [status |-> "absent", classified |-> FALSE, link |-> 0]
NoScan == [search |-> {}, hits |-> {}]
NoProspect == [id |-> 0, home |-> {}]
NoRequest == [at |-> "idle", post |-> {}, target |-> {}, id |-> 0]

\* Variant: ai_relevant alone, so that a decision does not take a post off the list.
UnscoredByVerdict(p) == post[p].status # "absent" /\ ~post[p].classified
\* The WHERE clause of ListUnscoredFeedPosts.
Unscored(p) == post[p].status = "new" /\ ~post[p].classified

Init ==
  /\ due = Searches
  /\ post = [p \in Posts |-> Absent]
  /\ seen = <<>>
  /\ campaigns = Campaigns
  /\ prospect = [a \in Authors |-> NoProspect] /\ born = 0
  /\ pc = [w \in Workers |-> "idle"]
  /\ todo = [w \in Workers |-> {}]
  /\ scan = [w \in Workers |-> NoScan]
  /\ batch = [w \in Workers |-> <<>>]
  /\ verdict = [w \in Workers |-> "new"]
  /\ req = [r \in Requests |-> NoRequest]
  /\ budget = MaxFaults /\ clicks = MaxClicks /\ deletes = MaxDeletes
  /\ decision = [p \in Posts |-> "none"]
  /\ overtaken = {} /\ unlinked = {} /\ torn = {}

Fault(kind) == kind \in Faults /\ budget > 0 /\ budget' = budget - 1
NoFault     == UNCHANGED budget
Goto(w, where) == pc' = [pc EXCEPT ![w] = where]

-----------------------------------------------------------------------------
(* The loop: discovery                                                     *)

\* ListDueFeedSearches; which of the due ones come first is left open, and an error
\* leaves nothing to search.
ListSearches(w) ==
  /\ pc[w] = "idle" /\ Goto(w, "search")
  /\ \/ /\ NoFault
        /\ \E S \in SUBSET due :
             /\ Cardinality(S) <= SearchLimit
             /\ S # due => Cardinality(S) = SearchLimit
             /\ todo' = [todo EXCEPT ![w] = S]
     \/ Fault("db") /\ UNCHANGED todo
  /\ UNCHANGED <<tables, scan, batch, verdict, req, clicks, deletes, ghost>>

\* SearchPosts: the items with an id, as many as the search asks for.
Hits(s) ==
  LET items == {i \in DOMAIN Finds[s] : Finds[s][i] # NoId}
  IN {Finds[s][i] : i \in {k \in items : Cardinality({l \in items : l < k}) < MaxResults}}

\* runFeedSearch up to the call; a search that fails is not stamped.
Search(w, s) ==
  /\ pc[w] = "search" /\ s \in todo[w]
  /\ todo' = [todo EXCEPT ![w] = @ \ {s}]
  /\ \/ /\ NoFault /\ Goto(w, "insert")
        /\ scan' = [scan EXCEPT ![w] = [search |-> {s}, hits |-> Hits(s)]]
     \/ Fault("search") /\ UNCHANGED <<pc, scan>>
  /\ UNCHANGED <<tables, batch, verdict, req, clicks, deletes, ghost>>

\* The rows InsertFeedPost inserts: ON CONFLICT DO NOTHING.
Stored(p) == {q \in {p} : post[q].status = "absent"}

Insert(w, p) ==
  /\ pc[w] = "insert" /\ p \in scan[w].hits
  /\ scan' = [scan EXCEPT ![w].hits = @ \ {p}]
  /\ \/ /\ NoFault
        /\ post' = [q \in Posts |-> IF q \in Stored(p)
                      THEN [Absent EXCEPT !.status = "new"] ELSE post[q]]
        /\ seen' = IF p \in Elements(seen) THEN seen ELSE Append(seen, p)
     \/ Fault("db") /\ UNCHANGED <<post, seen>>
  /\ UNCHANGED <<due, campaigns, prospect, born, pc, todo, batch, verdict, req,
                 clicks, deletes, ghost>>

\* TouchFeedSearch stamps last_run_at.
Touched(ran) == due \ ran

Touch(w) ==
  /\ pc[w] = "insert" /\ scan[w].hits = {} /\ Goto(w, "search")
  /\ scan' = [scan EXCEPT ![w] = NoScan]
  /\ \/ NoFault /\ due' = Touched(scan[w].search)
     \/ Fault("db") /\ UNCHANGED due
  /\ UNCHANGED <<post, seen, campaigns, prospect, born, todo, batch, verdict, req,
                 clicks, deletes, ghost>>

-----------------------------------------------------------------------------
(* The loop: classification                                                *)

\* Variant: OFFSET instead of LIMIT.
BatchAfterLimit == {SubSeq(q, ClassifyBatch + 1, Len(q)) :
                      q \in Answers(seen, {p \in Posts : Unscored(p)}, Len(seen))}
\* The rows ListUnscoredFeedPosts returns.
NextBatch == Answers(seen, {p \in Posts : Unscored(p)}, ClassifyBatch)

\* An error of the listing, or of the accounts', ends the tick, as no rows do.
ListUnscored(w) ==
  /\ pc[w] = "search" /\ todo[w] = {}
  /\ \/ /\ NoFault
        /\ \E list \in NextBatch :
             /\ batch' = [batch EXCEPT ![w] = list]
             /\ Goto(w, IF list = <<>> THEN "idle" ELSE "classify")
     \/ Fault("db") /\ Goto(w, "idle") /\ UNCHANGED batch
  /\ UNCHANGED <<tables, todo, scan, verdict, req, clicks, deletes, ghost>>

\* Variant: the batch goes on with the same post.
NextPostKept(w) ==
  /\ UNCHANGED batch
  /\ Goto(w, IF Len(batch[w]) = 1 THEN "idle" ELSE "classify")
\* On to the next post of the batch, or the tick is over.
NextPost(w) ==
  /\ batch' = [batch EXCEPT ![w] = Tail(@)]
  /\ Goto(w, IF Len(batch[w]) = 1 THEN "idle" ELSE "classify")

\* ClassifyPost: a transient error leaves the post as it is.
Classify(w) ==
  /\ pc[w] = "classify"
  /\ \/ /\ NoFault /\ Goto(w, "store")
        /\ \E v \in {"relevant", "irrelevant"} : verdict' = [verdict EXCEPT ![w] = v]
        /\ UNCHANGED batch
     \/ Fault("busy") /\ NextPost(w) /\ UNCHANGED verdict
     \/ Fault("model") /\ Goto(w, "park") /\ UNCHANGED <<batch, verdict>>
  /\ UNCHANGED <<tables, todo, scan, req, clicks, deletes, ghost>>

\* SetFeedPostClassification: WHERE id only.
Classified(p, v) == [post EXCEPT ![p].status = v, ![p].classified = TRUE]

Store(w) ==
  /\ pc[w] = "store" /\ NextPost(w)
  /\ verdict' = [verdict EXCEPT ![w] = "new"]
  /\ \/ /\ NoFault
        /\ post' = Classified(Head(batch[w]), verdict[w])
     \/ Fault("db") /\ UNCHANGED post
  /\ UNCHANGED <<due, seen, campaigns, prospect, born, todo, scan, req, clicks, deletes, ghost>>

\* MarkFeedPostClassifyFailed: WHERE id only.
Dismissed(p) == [post EXCEPT ![p].status = "dismissed"]

Park(w) ==
  /\ pc[w] = "park" /\ NextPost(w)
  /\ \/ NoFault /\ post' = Dismissed(Head(batch[w]))
     \/ Fault("db") /\ UNCHANGED post
  /\ UNCHANGED <<due, seen, campaigns, prospect, born, todo, scan, verdict, req,
                 clicks, deletes, ghost>>

-----------------------------------------------------------------------------
(* The feed page                                                           *)

\* The user's decision on p, and whether a worker is about to overwrite it.
Decide(p, status) ==
  /\ decision' = [decision EXCEPT ![p] = status]
  /\ overtaken' = IF \E w \in Workers : p \in Elements(batch[w])
                    THEN overtaken \cup {p} ELSE overtaken \ {p}

\* SetFeedPostStatus.
WithStatus(p, status) == [post EXCEPT ![p].status = status]

SetFeedStatus(p, status) ==
  /\ post[p].status # "absent"
  /\ clicks > 0 /\ clicks' = clicks - 1
  /\ post' = WithStatus(p, status)
  /\ Decide(p, status)
  /\ UNCHANGED <<due, seen, campaigns, prospect, born, worker, req, budget, deletes,
                 unlinked, torn>>

Answer(r) == req' = [req EXCEPT ![r] = NoRequest]

\* ImportFeedAuthor, first statement: GetFeedPost.  A post without a profile URL, or
\* one that is not there, is refused.
GetPost(r, p) ==
  /\ req[r].at = "idle" /\ post[p].status # "absent" /\ Author[p] # NoAuthor
  /\ clicks > 0 /\ clicks' = clicks - 1
  /\ req' = [req EXCEPT ![r].at = "pick", ![r].post = {p}]
  /\ UNCHANGED <<tables, worker, budget, deletes, ghost>>

\* pickImportCampaign: an active campaign, else any; without one the request ends.
Candidates == IF Active \cap campaigns # {} THEN Active \cap campaigns ELSE campaigns
PickCampaign(r) ==
  /\ req[r].at = "pick"
  /\ \/ /\ NoFault
        /\ \/ \E c \in Candidates :
                req' = [req EXCEPT ![r].at = "create", ![r].target = {c}]
           \/ campaigns = {} /\ Answer(r)
     \/ Fault("db") /\ Answer(r)
  /\ UNCHANGED <<tables, worker, clicks, deletes, ghost>>

AuthorOf(r) == Author[CHOOSE p \in req[r].post : TRUE]

\* CreateProspect: the author's row stays where it is (ON CONFLICT leaves id and
\* campaign_id alone), a new one needs its campaign to exist still.
CreateProspect(r) ==
  LET a == AuthorOf(r)
      known == prospect[a].id # 0
      id == IF known THEN prospect[a].id ELSE born + 1
  IN /\ req[r].at = "create"
     /\ \/ /\ NoFault /\ (known \/ req[r].target \subseteq campaigns)
           /\ prospect' = IF known THEN prospect
                          ELSE [prospect EXCEPT ![a] = [id |-> id, home |-> req[r].target]]
           /\ born' = IF known THEN born ELSE id
           /\ req' = [req EXCEPT ![r].at = "mark", ![r].target = {}, ![r].id = id]
        \/ /\ \/ NoFault /\ ~known /\ ~(req[r].target \subseteq campaigns)
              \/ Fault("db")
           /\ Answer(r) /\ UNCHANGED <<prospect, born>>
     /\ UNCHANGED <<due, post, seen, campaigns, worker, clicks, deletes, ghost>>

\* Variant: imported_prospect_id without its foreign key.
LinkableAlways(a, id) == TRUE
\* The foreign key of feed_posts.imported_prospect_id.
Linkable(a, id) == prospect[a].id = id

\* SetFeedPostImported.
Imported(p, id) == [post EXCEPT ![p].status = "imported", ![p].link = id]

MarkImported(r) ==
  LET linked == Linkable(AuthorOf(r), req[r].id)
  IN /\ req[r].at = "mark" /\ Answer(r)
     /\ \/ /\ NoFault /\ linked
           /\ \E p \in req[r].post : post' = Imported(p, req[r].id) /\ Decide(p, "imported")
           /\ torn' = torn \ {AuthorOf(r)}
        \/ NoFault /\ ~linked /\ UNCHANGED <<post, decision, overtaken, torn>>
        \/ /\ Fault("db") /\ torn' = torn \cup {AuthorOf(r)}
           /\ UNCHANGED <<post, decision, overtaken>>
     /\ UNCHANGED <<due, seen, campaigns, prospect, born, worker, clicks, deletes, unlinked>>

\* Rows a that go: the posts that link to them keep their status and lose the link.
Delete(gone) ==
  LET ids == {prospect[a].id : a \in gone} \ {0}
      freed == {p \in Posts : post[p].link \in ids}
  IN /\ deletes > 0 /\ deletes' = deletes - 1
     /\ prospect' = [a \in Authors |-> IF a \in gone THEN NoProspect ELSE prospect[a]]
     /\ post' = [p \in Posts |-> IF p \in freed THEN [post[p] EXCEPT !.link = 0] ELSE post[p]]
     /\ unlinked' = unlinked \cup freed
     /\ torn' = torn \ gone
     /\ UNCHANGED <<due, seen, born, worker, req, budget, clicks, decision, overtaken>>

\* ProspectsHandler.Delete and CampaignsHandler.Delete, which cascades.
DeleteProspect(a) == prospect[a].id # 0 /\ Delete({a}) /\ UNCHANGED campaigns
DeleteCampaign(c) == /\ c \in campaigns /\ campaigns' = campaigns \ {c}
                     /\ Delete({a \in Authors : prospect[a].home = {c}})

-----------------------------------------------------------------------------
(* Crashes and time                                                        *)

Crash(w) ==
  /\ pc[w] # "idle" /\ Fault("crash") /\ Goto(w, "idle")
  /\ todo' = [todo EXCEPT ![w] = {}] /\ scan' = [scan EXCEPT ![w] = NoScan]
  /\ batch' = [batch EXCEPT ![w] = <<>>] /\ verdict' = [verdict EXCEPT ![w] = "new"]
  /\ UNCHANGED <<tables, req, clicks, deletes, ghost>>

CrashRequest(r) ==
  /\ req[r].at # "idle" /\ Fault("crash") /\ Answer(r)
  /\ torn' = IF req[r].at = "mark" THEN torn \cup {AuthorOf(r)} ELSE torn
  /\ UNCHANGED <<tables, worker, clicks, deletes, decision, overtaken, unlinked>>

\* FeedRediscover passes.
SearchDue(s) == /\ s \notin due /\ due' = due \cup {s}
                /\ UNCHANGED <<post, seen, campaigns, prospect, born, worker, req,
                               bounds, ghost>>

WorkerStep(w) ==
  \/ ListSearches(w) \/ ListUnscored(w) \/ Touch(w) \/ Classify(w) \/ Store(w) \/ Park(w)
  \/ \E s \in Searches : Search(w, s)
  \/ \E p \in Posts : Insert(w, p)

Next ==
  \/ \E w \in Workers : WorkerStep(w) \/ Crash(w)
  \/ \E p \in Posts, status \in UserStatus : SetFeedStatus(p, status)
  \/ \E r \in Requests :
       \/ PickCampaign(r) \/ CreateProspect(r) \/ MarkImported(r) \/ CrashRequest(r)
       \/ \E p \in Posts : GetPost(r, p)
  \/ \E a \in Authors : DeleteProspect(a)
  \/ \E c \in Campaigns : DeleteCampaign(c)
  \/ \E s \in Searches : SearchDue(s)

Spec == Init /\ [][Next]_vars

\* runLoop ticks as long as the process lives, and a panic of one tick is recovered.
Fairness == \A w \in Workers : WF_vars(WorkerStep(w))
FairSpec == Spec /\ Fairness
=============================================================================
