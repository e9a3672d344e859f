----------------------------- MODULE JobScoring -----------------------------
(***************************************************************************)
(* The jobs loop of the scheduler and the status buttons of the jobs page, *)
(* for one account.  A tick runs the saved searches that are due, stores   *)
(* their hits, then fetches, ranks and stores a batch of unscored          *)
(* postings; instances, crashes, failing calls and the user's clicks       *)
(* interleave with every statement.                                        *)
(***************************************************************************)
EXTENDS Naturals, Sequences, FiniteSets, Listings

CONSTANTS
  Workers,      \* server instances running the jobs loop
  Searches,     \* the account's saved searches, all enabled
  Postings,     \* the postings LinkedIn may return
  Finds,        \* per search: the items LinkedIn answers with, in its order
  NoId,         \* an item without an id
  Promoted,     \* the postings that are advertisements
  MaxResults,   \* job_searches.max_results
  SearchLimit,  \* Config.BatchSize: searches run in one tick, at most
  ScoreBatch,   \* jobsScoreBatch
  Faults,       \* the kinds of fault the environment may cause
  MaxFaults,    \* bound: how many faults happen in one behaviour
  MaxDecisions  \* bound: how often the user sets a status

\* "search": the account or the search call fails; "jd": GetJob fails; "busy": the
\* ranker fails with a transient error; "rank": with any other; "db": a statement.
FaultKinds == {"crash", "search", "jd", "busy", "rank", "db"}
UserStatus == {"applied", "saved", "dismissed", "scored", "new"}

ASSUME JobAssumption ==
  /\ Finds \in [Searches -> Seq(Postings \cup {NoId})]
  /\ NoId \notin Postings /\ Promoted \subseteq Postings /\ MaxResults \in Nat \ {0}
  /\ IsFiniteSet(Searches) /\ IsFiniteSet(Postings)
  /\ SearchLimit \in Nat \ {0} /\ ScoreBatch \in Nat \ {0}
  /\ Faults \subseteq FaultKinds
  /\ MaxFaults \in Nat /\ MaxDecisions \in Nat

VARIABLES
  order,    \* the searches by last_run_at, NULLS FIRST
  due,      \* the searches whose last run is older than JobsRediscover
  posting,  \* the job_postings table: status, and whether ai_score is set
  seen,     \* the postings in the table by first_seen_at
  pc, todo, hits, batch,  \* per worker: position, searches, hits, postings left
  budget, clicks,         \* faults and decisions left
  decision,   \* history: the status the user set last, "none" before
  overtaken,  \* history: postings decided on while a worker had them listed
  ranked,     \* history: how often the ranker was paid for a score
  repay       \* history: postings that may have to be ranked again

tables == <<order, due, posting, seen>>
worker == <<pc, todo, hits, batch>>
ghost  == <<decision, overtaken, ranked, repay>>
vars   == <<tables, worker, budget, clicks, ghost>>

Status == UserStatus \cup {"absent"}

\* Variants: each without one half of the WHERE clause.
UnscoredByStatus(j) == posting[j].status = "new"
UnscoredByScore(j) == ~posting[j].scored
\* The WHERE clause of ListUnscoredJobPostings.
Unscored(j) == posting[j].status = "new" /\ ~posting[j].scored

Init ==
  /\ order \in {s \in [1..Cardinality(Searches) -> Searches] : Elements(s) = Searches}
  /\ due = Searches
  /\ posting = [j \in Postings |-> [status |-> "absent", scored |-> FALSE]]
  /\ seen = <<>>
  /\ pc = [w \in Workers |-> "idle"]
  /\ todo = [w \in Workers |-> <<>>]
  /\ hits = [w \in Workers |-> {}]
  /\ batch = [w \in Workers |-> <<>>]
  /\ budget = MaxFaults /\ clicks = MaxDecisions
  /\ decision = [j \in Postings |-> "none"]
  /\ overtaken = {}
  /\ ranked = [j \in Postings |-> 0]
  /\ repay = {}

Fault(kind) == kind \in Faults /\ budget > 0 /\ budget' = budget - 1
NoFault     == UNCHANGED budget
Goto(w, where) == pc' = [pc EXCEPT ![w] = where]

-----------------------------------------------------------------------------
(* Discovery                                                               *)

\* Variant: ORDER BY last_run_at DESC.
DueNewestFirst ==
  LET n == Len(order) IN Answers([i \in 1..n |-> order[n + 1 - i]], due, SearchLimit)
\* ListDueJobSearches.
DueInOrder == Answers(order, due, SearchLimit)

\* The tick starts with ListDueJobSearches; an error leaves nothing to search.
ListSearches(w) ==
  /\ pc[w] = "idle" /\ Goto(w, "search")
  /\ \/ NoFault /\ \E list \in DueInOrder : todo' = [todo EXCEPT ![w] = list]
     \/ Fault("db") /\ todo' = [todo EXCEPT ![w] = <<>>]
  /\ UNCHANGED <<tables, hits, batch, clicks, ghost>>

\* SearchJobs: the items with an id, as many as the search asks for; advertisements
\* count, although runJobSearch does not store them.
Hits(s) ==
  LET items == {i \in DOMAIN Finds[s] : Finds[s][i] # NoId}
  IN {Finds[s][i] : i \in {k \in items : Cardinality({l \in items : l < k}) < MaxResults}}

\* runJobSearch up to the call; a search that fails is not stamped.
Search(w) ==
  /\ pc[w] = "search" /\ todo[w] # <<>>
  /\ \/ /\ NoFault /\ Goto(w, "insert")
        /\ hits' = [hits EXCEPT ![w] = Hits(Head(todo[w])) \ Promoted]
        /\ UNCHANGED todo
     \/ /\ Fault("search")
        /\ todo' = [todo EXCEPT ![w] = Tail(@)]
        /\ UNCHANGED <<pc, hits>>
  /\ UNCHANGED <<tables, batch, clicks, ghost>>

\* Variant: no ON CONFLICT clause and no unique constraint.
StoredAgain(j) == {j}
\* The rows InsertJobPosting inserts: ON CONFLICT DO NOTHING.
Stored(j) == {i \in {j} : posting[i].status = "absent"}

Insert(w, j) ==
  /\ pc[w] = "insert" /\ j \in hits[w]
  /\ hits' = [hits EXCEPT ![w] = @ \ {j}]
  /\ \/ /\ NoFault
        /\ posting' = [i \in Postings |-> IF i \in Stored(j)
                         THEN [status |-> "new", scored |-> FALSE] ELSE posting[i]]
        /\ seen' = IF j \in Stored(j) THEN Append(seen, j) ELSE seen
     \/ Fault("db") /\ UNCHANGED <<posting, seen>>
  /\ UNCHANGED <<order, due, pc, todo, batch, clicks, ghost>>

\* TouchJobSearch stamps last_run_at: the search goes to the end of the list.
Touched(s) ==
  LET n == Len(order)
      was == CHOOSE i \in 1..n : order[i] = s
  IN [i \in 1..n |-> IF i = n THEN s ELSE IF i < was THEN order[i] ELSE order[i + 1]]

Touch(w) ==
  LET s == Head(todo[w])
  IN /\ pc[w] = "insert" /\ hits[w] = {} /\ Goto(w, "search")
     /\ todo' = [todo EXCEPT ![w] = Tail(@)]
     /\ \/ /\ NoFault
           /\ due' = due \ {s}
           /\ order' = Touched(s)
        \/ Fault("db") /\ UNCHANGED <<due, order>>
     /\ UNCHANGED <<posting, seen, hits, batch, clicks, ghost>>

-----------------------------------------------------------------------------
(* Scoring                                                                 *)

\* Variant: OFFSET instead of LIMIT.
BatchAfterLimit == {SubSeq(q, ScoreBatch + 1, Len(q)) :
                      q \in Answers(seen, {j \in Postings : Unscored(j)}, Len(seen))}
\* The rows ListUnscoredJobPostings returns.
NextBatch == Answers(seen, {j \in Postings : Unscored(j)}, ScoreBatch)

\* An error of the listing or of the account ends the tick, as no rows do.
ListUnscored(w) ==
  /\ pc[w] = "search" /\ todo[w] = <<>>
  /\ \/ /\ NoFault
        /\ \E list \in NextBatch :
             /\ batch' = [batch EXCEPT ![w] = list]
             /\ Goto(w, IF list = <<>> THEN "idle" ELSE "fetch")
             /\ repay' = repay \cup
                  {j \in Elements(list) : \E v \in Workers : j \in Elements(batch[v])}
     \/ Fault("db") /\ Goto(w, "idle") /\ UNCHANGED <<batch, repay>>
  /\ UNCHANGED <<tables, todo, hits, clicks, decision, overtaken, ranked>>

\* On to the next posting of the batch, or the tick is over.
NextPosting(w) ==
  /\ batch' = [batch EXCEPT ![w] = Tail(@)]
  /\ Goto(w, IF Len(batch[w]) = 1 THEN "idle" ELSE "fetch")

\* GetJob; whatever its error, the posting is parked.
Fetch(w) ==
  /\ pc[w] = "fetch"
  /\ \/ NoFault /\ Goto(w, "rank")
     \/ Fault("jd") /\ Goto(w, "park")
  /\ UNCHANGED <<tables, todo, hits, batch, clicks, ghost>>

\* RankJob: a transient error leaves the posting as it is.
Rank(w) ==
  /\ pc[w] = "rank"
  /\ \/ /\ NoFault /\ Goto(w, "store")
        /\ ranked' = [ranked EXCEPT ![Head(batch[w])] = @ + 1]
        /\ UNCHANGED batch
     \/ Fault("busy") /\ NextPosting(w) /\ UNCHANGED ranked
     \/ Fault("rank") /\ Goto(w, "park") /\ UNCHANGED <<batch, ranked>>
  /\ UNCHANGED <<tables, todo, hits, clicks, decision, overtaken, repay>>

\* SetJobPostingScore: WHERE id only.
Scored(j) == [posting EXCEPT ![j] = [status |-> "scored", scored |-> TRUE]]

Store(w) ==
  LET j == Head(batch[w])
  IN /\ pc[w] = "store" /\ NextPosting(w)
     /\ \/ /\ NoFault
           /\ posting' = Scored(j)
           /\ UNCHANGED repay
        \/ Fault("db") /\ repay' = repay \cup {j} /\ UNCHANGED posting
     /\ UNCHANGED <<order, due, seen, todo, hits, clicks, decision, overtaken, ranked>>

\* MarkJobPostingScoreFailed and SetJobPostingStatus: WHERE id only.
WithStatus(j, status) == [posting EXCEPT ![j].status = status]

\* failJobScore.
Park(w) ==
  /\ pc[w] = "park" /\ NextPosting(w)
  /\ \/ NoFault /\ posting' = WithStatus(Head(batch[w]), "dismissed")
     \/ Fault("db") /\ UNCHANGED posting
  /\ UNCHANGED <<order, due, seen, todo, hits, clicks, ghost>>

-----------------------------------------------------------------------------
(* The environment                                                         *)

Crash(w) ==
  /\ pc[w] # "idle" /\ Fault("crash") /\ Goto(w, "idle")
  /\ todo' = [todo EXCEPT ![w] = <<>>]
  /\ hits' = [hits EXCEPT ![w] = {}]
  /\ batch' = [batch EXCEPT ![w] = <<>>]
  /\ repay' = IF pc[w] = "store" THEN repay \cup {Head(batch[w])} ELSE repay
  /\ UNCHANGED <<tables, clicks, decision, overtaken, ranked>>

\* JobsRediscover passes.
SearchDue(s) ==
  /\ s \notin due /\ due' = due \cup {s}
  /\ UNCHANGED <<order, posting, seen, worker, budget, clicks, ghost>>

\* SetJobStatus: the user clicks a button of a posting on the page.
SetJobStatus(j, status) ==
  /\ posting[j].status # "absent"
  /\ clicks > 0 /\ clicks' = clicks - 1
  /\ posting' = WithStatus(j, status)
  /\ decision' = [decision EXCEPT ![j] = status]
  /\ overtaken' = IF \E w \in Workers : j \in Elements(batch[w])
                    THEN overtaken \cup {j} ELSE overtaken \ {j}
  /\ UNCHANGED <<order, due, seen, worker, budget, ranked, repay>>

WorkerStep(w) ==
  \/ ListSearches(w) \/ Search(w) \/ (\E j \in Postings : Insert(w, j)) \/ Touch(w)
  \/ ListUnscored(w) \/ Fetch(w) \/ Rank(w) \/ Store(w) \/ Park(w)

Next ==
  \/ \E w \in Workers : WorkerStep(w) \/ Crash(w)
  \/ \E s \in Searches : SearchDue(s)
  \/ \E j \in Postings, status \in UserStatus : SetJobStatus(j, status)

Spec == Init /\ [][Next]_vars

\* Every instance keeps ticking, and time passes; nothing is assumed of the user.
Fairness ==
  /\ \A w \in Workers : WF_vars(WorkerStep(w))
  /\ \A s \in Searches : WF_vars(SearchDue(s))
FairSpec == Spec /\ Fairness
=============================================================================
