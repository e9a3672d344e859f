---------------------------- MODULE FeedScanProps ----------------------------
(* What the feed loop and the feed page promise. *)
EXTENDS FeedScan

\* Every variable has its type; a link is an id that was given out once.
TypeOK ==
  /\ due \subseteq Searches /\ campaigns \subseteq Campaigns /\ born \in Nat
  /\ post \in [Posts -> [status : Status, classified : BOOLEAN, link : 0..born]]
  /\ seen \in Seq(Posts) /\ Cardinality(Elements(seen)) = Len(seen)
  /\ prospect \in [Authors -> [id : 0..born, home : SUBSET Campaigns]]
  /\ pc \in [Workers -> {"idle", "search", "insert", "classify", "store", "park"}]
  /\ \A w \in Workers : (batch[w] # <<>>) = (pc[w] \in {"classify", "store", "park"})
  /\ \A r \in Requests : req[r].at \in {"idle", "pick", "create", "mark"}

\* What the user decided about a post - dismissed it, took it as a lead, imported its
\* author - is not overwritten by the classifier or by another search that finds the
\* post, unless a worker had the post listed already when the user decided
\* (ListUnscoredFeedPosts, SetFeedPostClassification, InsertFeedPost).
DecisionStands ==
  \A p \in Posts : p \notin overtaken /\ decision[p] \notin {"none", "new"}
                     => post[p].status = decision[p]

\* An import shows on both sides although it takes four statements: a post that says
\* 'imported' links to the prospect of its author unless that prospect was deleted, no
\* link dangles, every prospect belongs to a campaign that exists, and a prospect that
\* came from the feed is linked by a post unless its import broke off
\* (ImportFeedAuthor, DeleteProspect, DeleteCampaign).
ImportLinked ==
  /\ \A p \in Posts :
       /\ post[p].link # 0 => post[p].link = prospect[Author[p]].id
       /\ post[p].status = "imported" => post[p].link # 0 \/ p \in unlinked
  /\ \A a \in Authors : prospect[a].id # 0 =>
       /\ prospect[a].home # {} /\ prospect[a].home \subseteq campaigns
       /\ \/ a \in torn
          \/ \E p \in Posts : post[p].link = prospect[a].id
          \/ \E r \in Requests : req[r].at = "mark" /\ req[r].id = prospect[a].id

\* A post that waits for the classifier is classified, parked or decided on by the
\* user in the end, through crashes, errors of the model and statements that fail.
FeedDrains == \A p \in Posts : Unscored(p) ~> ~Unscored(p)
=============================================================================
