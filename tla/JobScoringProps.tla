--------------------------- MODULE JobScoringProps ---------------------------
(* What the jobs loop promises its user, and what it costs. *)
EXTENDS JobScoring

\* Every variable has its type; a worker has postings listed exactly while it
\* scores, and `seen` lists the rows of the table, each once.
TypeOK ==
  /\ order \in [1..Cardinality(Searches) -> Searches] /\ Elements(order) = Searches
  /\ due \subseteq Searches
  /\ posting \in [Postings -> [status: Status, scored: BOOLEAN]]
  /\ Elements(seen) = {j \in Postings : posting[j].status # "absent"}
  /\ Len(seen) = Cardinality(Elements(seen))
  /\ pc \in [Workers -> {"idle", "search", "insert", "fetch", "rank", "store", "park"}]
  /\ \A w \in Workers :
       /\ Elements(todo[w]) \subseteq Searches /\ Len(todo[w]) <= SearchLimit
       /\ hits[w] \subseteq Postings
       /\ Elements(batch[w]) \subseteq Postings /\ Len(batch[w]) <= ScoreBatch
       /\ batch[w] # <<>> <=> pc[w] \in {"fetch", "rank", "store", "park"}
  /\ budget \in Nat /\ clicks \in Nat
  /\ decision \in [Postings -> UserStatus \cup {"none"}]
  /\ overtaken \subseteq Postings /\ repay \subseteq Postings
  /\ ranked \in [Postings -> Nat]

\* What the user decided stands: SetJobPostingScore and MarkJobPostingScoreFailed
\* write by id only, and searches find a posting again and again, yet a decision is
\* overwritten only when it was taken while a worker had the posting in its batch.
DecisionStands ==
  \A j \in Postings \ overtaken :
    decision[j] \notin {"none", "new"} => posting[j].status = decision[j]

\* A posting is paid for once: a second score is ranked only after a crash or a
\* failing statement lost the first, or when two instances overlap.
PaidOnce == \A j \in Postings : ranked[j] > 1 => j \in repay

\* The queue drains: a posting that needs a score gets one, is parked or is decided
\* on, although a transient error sends it back and a batch is limited.
Drains == \A j \in Postings : Unscored(j) ~> ~Unscored(j)

\* No saved search starves: failing ones keep their place at the head of the list,
\* and a tick runs only SearchLimit of them, yet each that is due is run.
SearchesRun == \A s \in Searches : s \in due ~> s \notin due
=============================================================================
