--------------------------- MODULE FeedScanProofs ---------------------------
(***************************************************************************)
(* For any number of instances, requests, searches, posts and faults: the  *)
(* user's decisions about posts stand, and an import, although it takes    *)
(* four statements, shows in the post and in the prospect.                 *)
(***************************************************************************)
EXTENDS FeedScanProps, ListingsProofs

-----------------------------------------------------------------------------
(* Types                                                                   *)

Waiting == {"classify", "store", "park"}

RowsType ==
  /\ due \subseteq Searches /\ campaigns \subseteq Campaigns /\ born \in Nat
  /\ post \in [Posts -> [status : Status, classified : BOOLEAN, link : 0..born]]
  /\ prospect \in [Authors -> [id : 0..born, home : SUBSET Campaigns]]

SeenType == seen \in Seq(Posts) /\ Cardinality(Elements(seen)) = Len(seen)

LoopType ==
  /\ pc \in [Workers -> {"idle", "search", "insert"} \cup Waiting]
  /\ scan \in [Workers -> [search : SUBSET Searches, hits : SUBSET Posts]]
  /\ batch \in [Workers -> Seq(Posts)]
  /\ verdict \in [Workers -> {"relevant", "irrelevant", "new"}]
  /\ \A w \in Workers : batch[w] # <<>> <=> pc[w] \in Waiting

\* A request knows the post it is about, and later the campaign and the prospect.
RequestType(r) ==
  /\ req[r].at \in {"idle", "pick", "create", "mark"} /\ req[r].id \in 0..born
  /\ req[r].at # "idle" =>
       \E p \in Posts : req[r].post = {p} /\ Author[p] \in Authors
  /\ req[r].at = "create" => \E c \in Campaigns : req[r].target = {c}
  /\ req[r].at = "mark" => req[r].id # 0

Request == [at : {"idle", "pick", "create", "mark"}, post : SUBSET Posts,
            target : SUBSET Campaigns, id : Nat]

RequestsType == req \in [Requests -> Request] /\ \A r \in Requests : RequestType(r)

HistoryType ==
  /\ decision \in [Posts -> UserStatus \cup {"none", "imported"}]

Typed == RowsType /\ SeenType /\ LoopType /\ RequestsType /\ HistoryType

\* The types are those of TypeOK.
LEMMA TypedIsTypeOK == Typed => TypeOK
  BY DEF Typed, RowsType, SeenType, LoopType, RequestsType, RequestType, Waiting, TypeOK

\* The author of a request's post.
LEMMA AuthorOfPost ==
  ASSUME NEW r \in Requests, NEW p \in Posts, req[r].post = {p}
  PROVE  AuthorOf(r) = Author[p] /\ AuthorOf(r)' = Author[CHOOSE q \in req'[r].post : TRUE]
  BY DEF AuthorOf

\* The tables start empty.
LEMMA InitTyped == Init => Typed
  <1> SUFFICES ASSUME Init PROVE Typed
    OBVIOUS
  <1>1. RowsType
    BY DEF Init, RowsType, Absent, NoProspect, Status
  <1>2. SeenType
    <2>1. seen = <<>> /\ <<>> \in Seq(Posts) /\ Len(<<>>) = 0
      BY DEF Init
    <2>2. Cardinality(Elements(<<>>)) = 0
      BY NoElements, FS_EmptySet
    <2> QED
      BY <2>1, <2>2 DEF SeenType
  <1>3. LoopType
    BY DEF Init, LoopType, NoScan, Waiting
  <1>4. RequestsType
    BY DEF Init, RequestsType, RequestType, Request, NoRequest
  <1>5. HistoryType
    BY DEF Init, HistoryType
  <1> QED
    BY <1>1, <1>2, <1>3, <1>4, <1>5 DEF Typed

\* On to the next post of the batch.
LEMMA NextPostType ==
  ASSUME LoopType, NEW w \in Workers, pc[w] \in Waiting, NextPost(w), UNCHANGED scan,
         verdict' \in [Workers -> {"relevant", "irrelevant", "new"}]
  PROVE  /\ LoopType' /\ Head(batch[w]) \in Elements(batch[w])
         /\ Head(batch[w]) \in Posts
         /\ \A v \in Workers : Elements(batch'[v]) \subseteq Elements(batch[v])
  <1>1. batch[w] \in Seq(Posts) /\ batch[w] # <<>>
    BY DEF LoopType
  <1>2. /\ Tail(batch[w]) \in Seq(Posts) /\ Head(batch[w]) \in Elements(batch[w])
        /\ Len(Tail(batch[w])) = Len(batch[w]) - 1
        /\ Elements(Tail(batch[w])) \subseteq Elements(batch[w])
    BY <1>1, TailElements
  <1>3. Len(batch[w]) \in Nat /\ Head(batch[w]) \in Posts
    BY <1>1
  <1>4. Tail(batch[w]) = <<>> <=> Len(batch[w]) = 1
    <2>1. Tail(batch[w]) = <<>> <=> Len(Tail(batch[w])) = 0
      BY <1>2, EmptyByLength
    <2> QED
      BY <1>2, <1>3, <2>1
  <1>5. /\ batch' = [batch EXCEPT ![w] = Tail(batch[w])]
        /\ pc' = [pc EXCEPT ![w] = IF Len(batch[w]) = 1 THEN "idle" ELSE "classify"]
    BY DEF NextPost, Goto
  <1>6. batch' \in [Workers -> Seq(Posts)]
    BY <1>2, <1>5 DEF LoopType
  <1>7. pc' \in [Workers -> {"idle", "search", "insert"} \cup Waiting]
    BY <1>5 DEF LoopType, Waiting
  <1>8. \A v \in Workers : batch'[v] # <<>> <=> pc'[v] \in Waiting
    BY <1>4, <1>5 DEF LoopType, Waiting
  <1>9. \A v \in Workers : Elements(batch'[v]) \subseteq Elements(batch[v])
    BY <1>2, <1>5 DEF LoopType
  <1> QED
    BY <1>2, <1>3, <1>6, <1>7, <1>8, <1>9 DEF LoopType

\* The loop keeps the types.
LEMMA LoopTyped ==
  ASSUME Typed, NEW w \in Workers, WorkerStep(w) \/ Crash(w)
  PROVE  Typed'
  <1> USE DEF tables, ghost
  <1>1. RowsType /\ SeenType /\ LoopType /\ RequestsType /\ HistoryType
    BY DEF Typed
  <1>2. UNCHANGED <<campaigns, prospect, born, req, decision>>
    BY DEF WorkerStep, ListSearches, ListUnscored, Touch, Classify, Store, Park, Search,
       Insert, Crash
  <1>3. RequestsType' /\ HistoryType'
    BY <1>1, <1>2 DEF RequestsType, RequestType, HistoryType
  <1>4. ASSUME UNCHANGED <<post, seen>>, due' \subseteq Searches, LoopType' PROVE Typed'
    BY <1>1, <1>2, <1>3, <1>4 DEF Typed, RowsType, SeenType
  <1>5. CASE ListSearches(w)
    BY <1>1, <1>4, <1>5 DEF ListSearches, Goto, LoopType, RowsType, Waiting
  <1>6. ASSUME NEW s \in Searches, Search(w, s) PROVE Typed'
    <2>1. Hits(s) \subseteq Posts
      <3>1. \A i \in DOMAIN Finds[s] : Finds[s][i] # NoId => Finds[s][i] \in Posts
        BY FeedAssumption
      <3> QED
        BY <3>1 DEF Hits
    <2>2. [search |-> {s}, hits |-> Hits(s)] \in [search : SUBSET Searches, hits : SUBSET Posts]
      BY <2>1
    <2>3. /\ pc[w] = "search" /\ UNCHANGED <<due, post, seen, batch, verdict>>
          /\ \/ pc' = [pc EXCEPT ![w] = "insert"]
                /\ scan' = [scan EXCEPT ![w] = [search |-> {s}, hits |-> Hits(s)]]
             \/ UNCHANGED <<pc, scan>>
      BY <1>6 DEF Search, Goto
    <2>4. LoopType'
      BY <1>1, <2>2, <2>3 DEF LoopType, Waiting
    <2> QED
      BY <1>1, <1>4, <2>3, <2>4 DEF RowsType
  <1>7. ASSUME NEW p \in Posts, Insert(w, p) PROVE Typed'
    <2>1. LoopType' /\ due' \subseteq Searches
      BY <1>1, <1>7 DEF Insert, LoopType, RowsType
    <2>2. CASE UNCHANGED <<post, seen>>
      BY <1>4, <2>1, <2>2
    <2>3. CASE /\ post' = [q \in Posts |-> IF q \in Stored(p)
                             THEN [Absent EXCEPT !.status = "new"] ELSE post[q]]
               /\ seen' = IF p \in Elements(seen) THEN seen ELSE Append(seen, p)
      <3>1. RowsType'
        <4>1. [Absent EXCEPT !.status = "new"] \in
                [status : Status, classified : BOOLEAN, link : 0..born]
          <5>1. Absent \in [status : Status, classified : BOOLEAN, link : 0..born]
            BY <1>1 DEF RowsType, Absent, Status
          <5>2. "new" \in Status
            BY DEF Status, UserStatus
          <5> QED
            BY <5>1, <5>2
        <4>2. post' \in [Posts -> [status : Status, classified : BOOLEAN, link : 0..born]]
          BY <1>1, <2>3, <4>1 DEF RowsType
        <4> QED
          BY <1>1, <1>2, <2>1, <4>2 DEF RowsType
      <3>2. SeenType'
        <4>1. CASE p \in Elements(seen)
          BY <1>1, <2>3, <4>1 DEF SeenType
        <4>2. CASE p \notin Elements(seen)
          <5>1. /\ seen' = Append(seen, p) /\ seen' \in Seq(Posts)
                /\ Len(seen') = Len(seen) + 1
            BY <1>1, <2>3, <4>2, AppendElements DEF SeenType
          <5>2. Elements(seen') = Elements(seen) \cup {p}
            BY <1>1, <5>1, AppendedElements DEF SeenType
          <5>3. IsFiniteSet(Elements(seen))
            <6>1. Elements(seen) \subseteq Posts
              BY <1>1, ElementsOf DEF SeenType
            <6> QED
              BY <6>1, FeedAssumption, FS_Subset
          <5>4. Cardinality(Elements(seen')) = Cardinality(Elements(seen)) + 1
            BY <4>2, <5>2, <5>3, FS_AddElement
          <5> QED
            BY <1>1, <5>1, <5>4 DEF SeenType
        <4> QED
          BY <4>1, <4>2
      <3> QED
        BY <1>3, <2>1, <3>1, <3>2 DEF Typed
    <2> QED
      BY <1>7, <2>2, <2>3 DEF Insert
  <1>8. CASE Touch(w)
    <2>1. LoopType'
      BY <1>1, <1>8 DEF Touch, Goto, LoopType, NoScan, Waiting
    <2>2. due' \subseteq Searches /\ UNCHANGED <<post, seen>>
      BY <1>1, <1>8 DEF Touch, Touched, RowsType
    <2> QED
      BY <1>4, <2>1, <2>2
  <1>9. CASE ListUnscored(w)
    <2>1. UNCHANGED <<post, seen, due, scan, verdict>> /\ pc[w] = "search"
      BY <1>9 DEF ListUnscored
    <2>2. CASE Goto(w, "idle") /\ UNCHANGED batch
      BY <1>1, <1>4, <2>1, <2>2 DEF Goto, LoopType, RowsType, Waiting
    <2>3. ASSUME NEW list \in NextBatch, batch' = [batch EXCEPT ![w] = list],
                 Goto(w, IF list = <<>> THEN "idle" ELSE "classify")
          PROVE  Typed'
      <3>1. list \in Seq(Elements(seen) \cap {p \in Posts : Unscored(p)})
        BY <2>3, FeedAssumption, AnswersAreRows DEF NextBatch
      <3>2. list \in Seq(Posts)
        BY <3>1
      <3>3. LoopType'
        BY <1>1, <2>1, <2>3, <3>2 DEF Goto, LoopType, Waiting
      <3> QED
        BY <1>1, <1>4, <2>1, <3>3 DEF RowsType
    <2> QED
      BY <1>9, <2>2, <2>3 DEF ListUnscored
  <1>10. CASE Classify(w)
    <2>1. UNCHANGED <<post, seen, due, scan>> /\ pc[w] = "classify"
      BY <1>10 DEF Classify
    <2>2. verdict' \in [Workers -> {"relevant", "irrelevant", "new"}]
      BY <1>1, <1>10 DEF Classify, LoopType
    <2>3. CASE NextPost(w)
      BY <1>1, <1>4, <2>1, <2>2, <2>3, NextPostType DEF RowsType, Waiting
    <2>4. CASE UNCHANGED batch /\ (Goto(w, "store") \/ Goto(w, "park"))
      <3>1. LoopType'
        BY <1>1, <2>1, <2>2, <2>4 DEF Goto, LoopType, Waiting
      <3> QED
        BY <1>1, <1>4, <2>1, <3>1 DEF RowsType
    <2> QED
      BY <1>10, <2>3, <2>4 DEF Classify
  <1>11. CASE Store(w) \/ Park(w)
    <2> DEFINE p == Head(batch[w])
    <2>1. pc[w] \in Waiting /\ NextPost(w) /\ UNCHANGED <<due, seen, scan>>
      BY <1>11 DEF Store, Park, Waiting
    <2>2. verdict' \in [Workers -> {"relevant", "irrelevant", "new"}]
      BY <1>1, <1>11 DEF Store, Park, LoopType
    <2>3. LoopType' /\ p \in Posts
      BY <1>1, <2>1, <2>2, NextPostType
    <2>4. post' \in [Posts -> [status : Status, classified : BOOLEAN, link : 0..born]]
      <3>1. verdict[w] \in Status /\ "dismissed" \in Status
        BY <1>1 DEF LoopType, Status, UserStatus
      <3>2. post' = Classified(p, verdict[w]) \/ post' = Dismissed(p) \/ UNCHANGED post
        BY <1>11 DEF Store, Park
      <3> QED
        BY <1>1, <2>3, <3>1, <3>2 DEF RowsType, Classified, Dismissed
    <2> QED
      BY <1>1, <1>2, <1>3, <2>1, <2>3, <2>4 DEF Typed, RowsType, SeenType
  <1>12. CASE Crash(w)
    <2>1. LoopType'
      BY <1>1, <1>12 DEF Crash, Goto, LoopType, NoScan, Waiting
    <2> QED
      BY <1>1, <1>4, <1>12, <2>1 DEF Crash, RowsType
  <1> QED
    BY <1>5, <1>6, <1>7, <1>8, <1>9, <1>10, <1>11, <1>12 DEF WorkerStep

\* The page keeps the types.
LEMMA PageTyped ==
  ASSUME Typed,
         \/ \E p \in Posts, status \in UserStatus : SetFeedStatus(p, status)
         \/ \E r \in Requests :
              \/ PickCampaign(r) \/ CreateProspect(r) \/ MarkImported(r) \/ CrashRequest(r)
              \/ \E p \in Posts : GetPost(r, p)
         \/ \E a \in Authors : DeleteProspect(a)
         \/ \E c \in Campaigns : DeleteCampaign(c)
         \/ \E s \in Searches : SearchDue(s)
  PROVE  Typed'
  <1> USE DEF tables, ghost, worker
  <1>1. RowsType /\ SeenType /\ LoopType /\ RequestsType /\ HistoryType
    BY DEF Typed
  <1>2. UNCHANGED <<seen, pc, scan, batch, verdict>>
    BY DEF SetFeedStatus, PickCampaign, CreateProspect, MarkImported, CrashRequest, GetPost,
       DeleteProspect, DeleteCampaign, Delete, SearchDue
  <1>3. SeenType' /\ LoopType'
    BY <1>1, <1>2 DEF SeenType, LoopType
  <1>4. ASSUME RowsType', RequestsType', HistoryType' PROVE Typed'
    BY <1>3, <1>4 DEF Typed
  <1>5. ASSUME NEW p \in Posts, NEW status \in UserStatus, SetFeedStatus(p, status) PROVE Typed'
    <2>1. RowsType'
      BY <1>1, <1>5 DEF SetFeedStatus, WithStatus, RowsType, Status
    <2>2. HistoryType'
      BY <1>1, <1>5 DEF SetFeedStatus, Decide, HistoryType
    <2>3. RequestsType'
      BY <1>1, <1>5 DEF SetFeedStatus, RequestsType, RequestType
    <2> QED
      BY <1>4, <2>1, <2>2, <2>3
  <1>6. ASSUME NEW r \in Requests, Answer(r), RowsType', HistoryType', born' = born PROVE Typed'
    <2>1. RequestsType'
      BY <1>1, <1>6 DEF Answer, RequestsType, RequestType, Request, NoRequest, RowsType
    <2> QED
      BY <1>4, <1>6, <2>1
  <1>7. ASSUME NEW r \in Requests, NEW p \in Posts, GetPost(r, p) PROVE Typed'
    <2>1. Author[p] \in Authors
      BY <1>7 DEF GetPost, Authors
    <2>2. RequestsType'
      BY <1>1, <1>7, <2>1 DEF GetPost, RequestsType, RequestType, Request
    <2> QED
      BY <1>1, <1>4, <1>7, <2>2 DEF GetPost, RowsType, HistoryType
  <1>8. ASSUME NEW r \in Requests, PickCampaign(r) PROVE Typed'
    <2>1. RowsType' /\ HistoryType' /\ born' = born
      BY <1>1, <1>8 DEF PickCampaign, RowsType, HistoryType
    <2>2. ASSUME NEW c \in Candidates,
                 req' = [req EXCEPT ![r].at = "create", ![r].target = {c}]
          PROVE  Typed'
      <3>1. c \in Campaigns
        BY <1>1 DEF Candidates, RowsType
      <3>2. RequestsType'
        BY <1>1, <1>8, <2>1, <2>2, <3>1
        DEF PickCampaign, RequestsType, RequestType, Request
      <3> QED
        BY <1>4, <2>1, <3>2
    <2> QED
      BY <1>6, <1>8, <2>1, <2>2 DEF PickCampaign
  <1>9. ASSUME NEW r \in Requests, CreateProspect(r) PROVE Typed'
    <2> DEFINE a == AuthorOf(r)
    <2>1. /\ req[r].at = "create" /\ UNCHANGED <<due, post, seen, campaigns, decision>>
          /\ req[r].target \in SUBSET Campaigns
      BY <1>1, <1>9 DEF CreateProspect, RequestsType, Request
    <2>2. a \in Authors
      BY <1>1, <2>1, AuthorOfPost DEF RequestsType, RequestType
    <2>3. HistoryType'
      BY <1>1, <2>1 DEF HistoryType
    <2>4. CASE Answer(r) /\ UNCHANGED <<prospect, born>>
      BY <1>1, <1>6, <2>1, <2>3, <2>4 DEF RowsType
    <2>5. ASSUME NEW id, id = (IF prospect[a].id # 0 THEN prospect[a].id ELSE born + 1),
                 prospect' = IF prospect[a].id # 0 THEN prospect
                             ELSE [prospect EXCEPT ![a] = [id |-> id, home |-> req[r].target]],
                 born' = (IF prospect[a].id # 0 THEN born ELSE id),
                 req' = [req EXCEPT ![r].at = "mark", ![r].target = {}, ![r].id = id]
          PROVE  Typed'
      <3>1. /\ born \in Nat /\ born' \in Nat /\ born <= born' /\ id \in 0..born' /\ id # 0
            /\ prospect[a].id \in 0..born
        BY <1>1, <2>2, <2>5 DEF RowsType
      <3>2. \A n : n \in 0..born => n \in 0..born'
        BY <3>1
      <3>3. RowsType'
        <4>1. post' \in [Posts -> [status : Status, classified : BOOLEAN, link : 0..born']]
          BY <1>1, <2>1, <3>2 DEF RowsType
        <4>2. prospect' \in [Authors -> [id : 0..born', home : SUBSET Campaigns]]
          BY <1>1, <2>1, <2>2, <2>5, <3>1, <3>2 DEF RowsType
        <4> QED
          BY <1>1, <2>1, <3>1, <4>1, <4>2 DEF RowsType
      <3>4. RequestsType'
        <4>1. req' \in [Requests -> Request]
          <5>1. id \in Nat /\ req \in [Requests -> Request]
            BY <1>1, <3>1 DEF RequestsType
          <5>2. [req[r] EXCEPT !.at = "mark", !.target = {}, !.id = id] \in Request
            BY <5>1 DEF Request
          <5>3. req' = [req EXCEPT ![r] = [req[r] EXCEPT !.at = "mark", !.target = {}, !.id = id]]
            BY <2>5, <5>1 DEF Request
          <5> QED
            BY <5>1, <5>2, <5>3
        <4>2. ASSUME NEW q \in Requests, q # r PROVE RequestType(q)'
          BY <1>1, <2>5, <3>2, <4>2 DEF RequestsType, RequestType
        <4>3. RequestType(r)'
          BY <1>1, <2>1, <2>5, <3>1 DEF RequestsType, RequestType, Request
        <4> QED
          BY <4>1, <4>2, <4>3 DEF RequestsType
      <3> QED
        BY <1>4, <2>3, <3>3, <3>4
    <2> QED
      BY <1>9, <2>4, <2>5 DEF CreateProspect
  <1>10. ASSUME NEW r \in Requests, MarkImported(r) PROVE Typed'
    <2>1. /\ req[r].at = "mark" /\ Answer(r) /\ UNCHANGED <<due, campaigns, prospect, born>>
      BY <1>10 DEF MarkImported
    <2>2. CASE UNCHANGED <<post, decision>>
      BY <1>1, <1>6, <2>1, <2>2 DEF RowsType, HistoryType
    <2>3. ASSUME NEW p \in req[r].post, post' = Imported(p, req[r].id), Decide(p, "imported")
          PROVE  Typed'
      <3>1. p \in Posts /\ req[r].id \in 0..born
        BY <1>1, <2>3 DEF RequestsType, Request, RequestType
      <3>2. RowsType'
        BY <1>1, <2>1, <2>3, <3>1 DEF RowsType, Imported, Status
      <3>3. HistoryType'
        BY <1>1, <2>3, <3>1 DEF HistoryType, Decide
      <3> QED
        BY <1>6, <2>1, <3>2, <3>3
    <2> QED
      BY <1>10, <2>2, <2>3 DEF MarkImported
  <1>11. ASSUME NEW r \in Requests, CrashRequest(r) PROVE Typed'
    BY <1>1, <1>6, <1>11 DEF CrashRequest, RowsType, HistoryType
  <1>12. ASSUME NEW gone, Delete(gone), campaigns' \subseteq Campaigns PROVE Typed'
    <2>1. post' \in [Posts -> [status : Status, classified : BOOLEAN, link : 0..born]]
      BY <1>1, <1>12 DEF Delete, RowsType
    <2>2. prospect' \in [Authors -> [id : 0..born, home : SUBSET Campaigns]]
      BY <1>1, <1>12 DEF Delete, RowsType, NoProspect
    <2>3. RowsType' /\ HistoryType' /\ RequestsType'
      BY <1>1, <1>12, <2>1, <2>2
      DEF Delete, RowsType, HistoryType, RequestsType, RequestType
    <2> QED
      BY <1>4, <2>3
  <1>13. ASSUME NEW s \in Searches, SearchDue(s) PROVE Typed'
    BY <1>1, <1>4, <1>13 DEF SearchDue, RowsType, HistoryType, RequestsType, RequestType
  <1>14. ASSUME NEW a \in Authors, DeleteProspect(a) PROVE Typed'
    BY <1>1, <1>12, <1>14 DEF DeleteProspect, RowsType
  <1>15. ASSUME NEW c \in Campaigns, DeleteCampaign(c) PROVE Typed'
    BY <1>1, <1>12, <1>15 DEF DeleteCampaign, RowsType
  <1> QED
    BY <1>5, <1>7, <1>8, <1>9, <1>10, <1>11, <1>13, <1>14, <1>15

\* The types hold in every reachable state.
LEMMA TypedCorrect == Spec => []Typed
  <1>1. ASSUME Typed, [Next]_vars PROVE Typed'
    <2>1. CASE UNCHANGED vars
      BY <1>1, <2>1 DEF Typed, RowsType, SeenType, LoopType, RequestsType, RequestType,
         HistoryType, vars, tables, worker, ghost
    <2> QED
      BY <1>1, <2>1, LoopTyped, PageTyped DEF Next
  <1> QED
    BY <1>1, InitTyped, PTL DEF Spec

\* Every variable has its type, for all values of the constants.
THEOREM FeedTypeCorrect == Spec => []TypeOK
  BY TypedCorrect, TypedIsTypeOK, PTL

-----------------------------------------------------------------------------
(* The user's decisions                                                    *)

Decided(p) == p \notin overtaken /\ decision[p] \notin {"none", "new"}
\* A post the user decided on has that status and is in nobody's batch.
DecisionInv ==
  \A p \in Posts : Decided(p) =>
    /\ post[p].status = decision[p]
    /\ \A w \in Workers : p \notin Elements(batch[w])

\* Nothing is written to the post, decided or listed.
LEMMA DecisionKept ==
  ASSUME DecisionInv, NEW p \in Posts, UNCHANGED <<decision, overtaken>>,
         Decided(p) => post'[p].status = post[p].status,
         \A w \in Workers : Elements(batch'[w]) \subseteq Elements(batch[w])
  PROVE  Decided(p)' => /\ post'[p].status = decision'[p]
                        /\ \A w \in Workers : p \notin Elements(batch'[w])
  BY DEF DecisionInv, Decided

\* A decision that no worker has overtaken is what the post says.
LEMMA DecisionMade ==
  ASSUME Typed, DecisionInv, NEW p \in Posts, NEW q \in Posts, NEW status,
         Decide(q, status), UNCHANGED batch, post'[q].status = status,
         q # p => post'[p].status = post[p].status
  PROVE  Decided(p)' => /\ post'[p].status = decision'[p]
                        /\ \A w \in Workers : p \notin Elements(batch'[w])
  <1>1. CASE q = p
    <2>1. decision'[p] = status /\ (p \notin overtaken' => \A w \in Workers : p \notin Elements(batch[w]))
      BY <1>1 DEF Decide, Typed, HistoryType
    <2> QED
      BY <1>1, <2>1 DEF Decided
  <1>2. CASE q # p
    <2>1. decision'[p] = decision[p] /\ (p \in overtaken' <=> p \in overtaken)
      BY <1>2 DEF Decide, Typed, HistoryType
    <2> QED
      BY <1>2, <2>1 DEF DecisionInv, Decided
  <1> QED
    BY <1>1, <1>2

\* The classifier writes to the post it has listed, a search to a post that is new.
LEMMA LoopDecision ==
  ASSUME Typed, DecisionInv, NEW w \in Workers, WorkerStep(w) \/ Crash(w), NEW p \in Posts
  PROVE  Decided(p)' => /\ post'[p].status = decision'[p]
                        /\ \A v \in Workers : p \notin Elements(batch'[v])
  <1> USE DEF tables, ghost
  <1>1. UNCHANGED <<decision, overtaken>>
    BY DEF WorkerStep, ListSearches, ListUnscored, Touch, Classify, Store, Park, Search,
       Insert, Crash
  <1>2. RowsType /\ LoopType /\ HistoryType
    BY DEF Typed
  <1>3. CASE UNCHANGED <<post, batch>>
    BY <1>1, <1>3, DecisionKept
  <1>4. ASSUME NEW q \in Posts, Insert(w, q)
        PROVE  Decided(p)' => /\ post'[p].status = decision'[p]
                              /\ \A v \in Workers : p \notin Elements(batch'[v])
    <2>1. Decided(p) => post[p].status # "absent"
      BY <1>2 DEF DecisionInv, Decided, HistoryType, UserStatus
    <2>2. Decided(p) => post'[p].status = post[p].status
      BY <1>4, <2>1 DEF Insert, Stored
    <2>3. UNCHANGED batch
      BY <1>4 DEF Insert
    <2> QED
      BY <1>1, <2>2, <2>3, DecisionKept
  <1>5. CASE ListUnscored(w)
    <2>1. CASE UNCHANGED batch
      BY <1>3, <1>5, <2>1 DEF ListUnscored
    <2>2. ASSUME NEW list \in NextBatch, batch' = [batch EXCEPT ![w] = list]
          PROVE  Decided(p)' => /\ post'[p].status = decision'[p]
                                /\ \A v \in Workers : p \notin Elements(batch'[v])
      <3>1. list \in Seq(Elements(seen) \cap {q \in Posts : Unscored(q)})
        BY <2>2, FeedAssumption, AnswersAreRows DEF NextBatch
      <3>2. Elements(list) \subseteq Elements(seen) \cap {q \in Posts : Unscored(q)}
        BY <3>1, ElementsOf
      <3>3. Decided(p) => p \notin Elements(list)
        BY <3>2 DEF DecisionInv, Decided, Unscored
      <3>4. \A v \in Workers : batch'[v] = IF v = w THEN list ELSE batch[v]
        BY <1>2, <2>2 DEF LoopType
      <3>5. UNCHANGED post
        BY <1>5 DEF ListUnscored
      <3> QED
        BY <1>1, <3>3, <3>4, <3>5 DEF DecisionInv, Decided
    <2> QED
      BY <1>5, <2>1, <2>2 DEF ListUnscored
  <1>6. CASE NextPost(w) /\ (Classify(w) \/ Store(w) \/ Park(w))
    <2> DEFINE q == Head(batch[w])
    <2>1. /\ pc[w] \in Waiting /\ UNCHANGED scan
          /\ verdict' \in [Workers -> {"relevant", "irrelevant", "new"}]
      BY <1>2, <1>6 DEF Classify, Store, Park, Waiting, LoopType
    <2>2. /\ q \in Elements(batch[w]) /\ q \in Posts
          /\ \A v \in Workers : Elements(batch'[v]) \subseteq Elements(batch[v])
      BY <1>2, <1>6, <2>1, NextPostType
    <2>3. Decided(p) => p # q
      BY <2>2 DEF DecisionInv
    <2>4. post' = Classified(q, verdict[w]) \/ post' = Dismissed(q) \/ UNCHANGED post
      BY <1>6 DEF Classify, Store, Park
    <2>5. Decided(p) => post'[p].status = post[p].status
      BY <1>2, <2>2, <2>3, <2>4 DEF Classified, Dismissed, RowsType
    <2> QED
      BY <1>1, <2>2, <2>5, DecisionKept
  <1>7. CASE Crash(w)
    <2>1. \A v \in Workers : Elements(batch'[v]) \subseteq Elements(batch[v])
      BY <1>2, <1>7, NoElements DEF Crash, LoopType
    <2> QED
      BY <1>1, <1>7, <2>1, DecisionKept DEF Crash
  <1> QED
    BY <1>3, <1>4, <1>5, <1>6, <1>7
    DEF WorkerStep, ListSearches, Touch, Classify, Store, Park, Search

\* The page writes what the user decides.
LEMMA PageDecision ==
  ASSUME Typed, DecisionInv, Next, ~\E w \in Workers : WorkerStep(w) \/ Crash(w), NEW p \in Posts
  PROVE  Decided(p)' => /\ post'[p].status = decision'[p]
                        /\ \A v \in Workers : p \notin Elements(batch'[v])
  <1> USE DEF tables, ghost, worker
  <1>1. RowsType /\ RequestsType
    BY DEF Typed
  <1>2. ASSUME NEW q \in Posts, NEW status \in UserStatus, SetFeedStatus(q, status)
        PROVE  Decided(p)' => /\ post'[p].status = decision'[p]
                              /\ \A v \in Workers : p \notin Elements(batch'[v])
    <2>1. post'[q].status = status /\ (q # p => post'[p].status = post[p].status)
      BY <1>1, <1>2 DEF SetFeedStatus, WithStatus, RowsType
    <2> QED
      BY <1>2, <2>1, DecisionMade DEF SetFeedStatus
  <1>3. ASSUME NEW r \in Requests, MarkImported(r)
        PROVE  Decided(p)' => /\ post'[p].status = decision'[p]
                              /\ \A v \in Workers : p \notin Elements(batch'[v])
    <2>1. CASE UNCHANGED <<post, decision, overtaken>>
      BY <1>3, <2>1, DecisionKept DEF MarkImported
    <2>2. ASSUME NEW q \in req[r].post, post' = Imported(q, req[r].id), Decide(q, "imported")
          PROVE  Decided(p)' => /\ post'[p].status = decision'[p]
                                /\ \A v \in Workers : p \notin Elements(batch'[v])
      <3>1. q \in Posts
        BY <1>1, <2>2 DEF RequestsType, Request
      <3>2. post'[q].status = "imported" /\ (q # p => post'[p].status = post[p].status)
        BY <1>1, <2>2, <3>1 DEF Imported, RowsType
      <3>3. UNCHANGED batch
        BY <1>3 DEF MarkImported
      <3> QED
        BY <2>2, <3>1, <3>2, <3>3, DecisionMade
    <2> QED
      BY <1>3, <2>1, <2>2 DEF MarkImported
  <1>4. ASSUME NEW gone, Delete(gone)
        PROVE  Decided(p)' => /\ post'[p].status = decision'[p]
                              /\ \A v \in Workers : p \notin Elements(batch'[v])
    <2>1. post'[p].status = post[p].status
      BY <1>1, <1>4 DEF Delete, RowsType
    <2> QED
      BY <1>4, <2>1, DecisionKept DEF Delete
  <1>5. CASE UNCHANGED <<post, batch, decision, overtaken>>
    BY <1>5, DecisionKept
  <1> QED
    BY <1>2, <1>3, <1>4, <1>5
    DEF Next, GetPost, PickCampaign, CreateProspect, CrashRequest, DeleteProspect,
        DeleteCampaign, SearchDue

\* Neither the classifier nor a search that finds the post again overwrites what the
\* user decided, unless a worker had the post listed when the user decided.
THEOREM FeedDecisionsStand == Spec => []DecisionStands
  <1>1. Init => DecisionInv
    BY DEF Init, DecisionInv, Decided
  <1>2. ASSUME Typed, DecisionInv, [Next]_vars PROVE DecisionInv'
    <2>1. CASE UNCHANGED vars
      BY <1>2, <2>1 DEF DecisionInv, Decided, vars, tables, worker, ghost
    <2>2. CASE Next
      BY <1>2, <2>2, LoopDecision, PageDecision DEF DecisionInv
    <2> QED
      BY <1>2, <2>1, <2>2
  <1>3. DecisionInv => DecisionStands
    BY DEF DecisionInv, Decided, DecisionStands
  <1> QED
    BY <1>1, <1>2, <1>3, TypedCorrect, PTL DEF Spec

-----------------------------------------------------------------------------
(* The import                                                              *)

\* A link is the prospect of the post's author; it is there once the post is
\* 'imported', and not before the post is.
PostLinks ==
  \A p \in Posts :
    /\ post[p].link # 0 => Author[p] \in Authors /\ post[p].link = prospect[Author[p]].id
    /\ post[p].status = "absent" => post[p].link = 0
    /\ post[p].status = "imported" => post[p].link # 0 \/ p \in unlinked

\* No two prospects share an id, and each belongs to one campaign that exists.
ProspectRows ==
  /\ \A a, b \in Authors : prospect[a].id # 0 /\ prospect[a].id = prospect[b].id => a = b
  /\ \A a \in Authors : prospect[a].id # 0 => \E c \in campaigns : prospect[a].home = {c}

\* What a request is about to link is its author's prospect or, after a deletion, none.
RequestLinks ==
  \A r \in Requests : req[r].at = "mark" =>
    \A a \in Authors : prospect[a].id = req[r].id => a = AuthorOf(r)

Claimed(a) ==
  \/ a \in torn
  \/ \E p \in Posts : post[p].link = prospect[a].id
  \/ \E r \in Requests : req[r].at = "mark" /\ req[r].id = prospect[a].id
Links ==
  /\ PostLinks /\ ProspectRows /\ RequestLinks
  /\ \A a \in Authors : prospect[a].id # 0 => Claimed(a)

\* Statements that write the status of posts, neither to 'imported' nor back to absent.
LEMMA StatusWrites ==
  ASSUME Links, UNCHANGED <<campaigns, prospect, req, unlinked, torn>>,
         \A p \in Posts : /\ post'[p].link = post[p].link
                          /\ post'[p].status \in {"absent", "imported"}
                               => post'[p].status = post[p].status
  PROVE  Links'
  <1>1. PostLinks' /\ ProspectRows' /\ RequestLinks'
    BY DEF Links, PostLinks, ProspectRows, RequestLinks, AuthorOf
  <1>2. \A a \in Authors : Claimed(a) => Claimed(a)'
    BY DEF Claimed
  <1> QED
    BY <1>1, <1>2 DEF Links

\* A request that links nothing, before and afterwards.
LEMMA RequestMoves ==
  ASSUME Links, UNCHANGED <<campaigns, post, prospect, unlinked, torn>>, NEW r \in Requests,
         req[r].at # "mark", req'[r].at # "mark", \A q \in Requests \ {r} : req'[q] = req[q]
  PROVE  Links'
  <1>1. PostLinks' /\ ProspectRows'
    BY DEF Links, PostLinks, ProspectRows
  <1>2. RequestLinks'
    BY DEF Links, RequestLinks, AuthorOf
  <1>3. \A a \in Authors : Claimed(a) => Claimed(a)'
    BY DEF Claimed
  <1> QED
    BY <1>1, <1>2, <1>3 DEF Links

\* A request that ends where it was to link: only its author loses a claim, and only
\* if the prospect it has in hand still exists.
LEMMA RequestEnds ==
  ASSUME Typed, Links, UNCHANGED <<campaigns, post, prospect, unlinked>>, NEW r \in Requests,
         req[r].at = "mark", Answer(r),
         torn' = torn \cup {AuthorOf(r)} \/ (UNCHANGED torn /\ ~Linkable(AuthorOf(r), req[r].id))
  PROVE  Links'
  <1>1. PostLinks' /\ ProspectRows'
    BY DEF Links, PostLinks, ProspectRows
  <1>2. /\ req'[r].at = "idle" /\ \A q \in Requests \ {r} : req'[q] = req[q]
    BY DEF Answer, Typed, RequestsType, NoRequest
  <1>3. RequestLinks'
    BY <1>2 DEF Links, RequestLinks, AuthorOf
  <1>4. ASSUME NEW a \in Authors, prospect[a].id # 0 PROVE Claimed(a)'
    <2>1. CASE prospect[a].id = req[r].id
      <3>1. a = AuthorOf(r)
        BY <2>1 DEF Links, RequestLinks
      <3>2. a \in torn'
        BY <2>1, <3>1 DEF Linkable
      <3> QED
        BY <3>2 DEF Claimed
    <2>2. CASE prospect[a].id # req[r].id
      BY <1>2, <1>4, <2>2 DEF Links, Claimed
    <2> QED
      BY <2>1, <2>2
  <1> QED
    BY <1>1, <1>3, <1>4 DEF Links

\* CreateProspect: the author's row, or a new one with an id nobody has.
LEMMA CreateLinks ==
  ASSUME Typed, Links, NEW r \in Requests, CreateProspect(r)
  PROVE  Links'
  <1> DEFINE a == AuthorOf(r)
             known == prospect[a].id # 0
             id == IF known THEN prospect[a].id ELSE born + 1
  <1>1. /\ req[r].at = "create" /\ UNCHANGED <<campaigns, post, unlinked, torn>>
        /\ req \in [Requests -> Request]
    BY DEF CreateProspect, ghost, Typed, RequestsType
  <1>2. a \in Authors /\ \E c \in Campaigns : req[r].target = {c}
    BY <1>1, AuthorOfPost DEF Typed, RequestsType, RequestType
  <1>3. CASE Answer(r) /\ UNCHANGED <<prospect, born>>
    <2>1. req'[r].at # "mark" /\ \A q \in Requests \ {r} : req'[q] = req[q]
      BY <1>1, <1>3 DEF Answer, NoRequest
    <2> QED
      BY <1>1, <1>3, <2>1, RequestMoves
  <1>4. CASE /\ known \/ req[r].target \subseteq campaigns
             /\ prospect' = IF known THEN prospect
                            ELSE [prospect EXCEPT ![a] = [id |-> id, home |-> req[r].target]]
             /\ req' = [req EXCEPT ![r].at = "mark", ![r].target = {}, ![r].id = id]
    <2>1. /\ born \in Nat /\ prospect \in [Authors -> [id : 0..born, home : SUBSET Campaigns]]
          /\ \A p \in Posts : post[p].link \in 0..born
          /\ \A q \in Requests : req[q].id \in 0..born
      BY DEF Typed, RowsType, RequestsType, RequestType
    <2>2. /\ \A b \in Authors : prospect[b].id \in 0..born
          /\ id # 0 /\ (~known => \A b \in Authors : prospect[b].id # id)
      BY <2>1
    <2>3. prospect'[a].id = id /\ \A b \in Authors \ {a} : prospect'[b] = prospect[b]
      BY <1>2, <1>4, <2>1
    <2>4. /\ req'[r].at = "mark" /\ req'[r].id = id /\ req'[r].post = req[r].post
          /\ \A q \in Requests \ {r} : req'[q] = req[q]
      BY <1>1, <1>4 DEF Request
    <2>5. \A b \in Authors \ {a} : prospect[b].id # id
      <3>1. CASE known
        BY <1>2, <3>1 DEF Links, ProspectRows
      <3>2. CASE ~known
        BY <2>2, <3>2
      <3> QED
        BY <3>1, <3>2
    <2>6. ~known => (\A p \in Posts : post[p].link # 0 => Author[p] # a)
                    /\ (\A p \in Posts : post[p].link # id) /\ (\A q \in Requests : req[q].id # id)
      BY <2>1 DEF Links, PostLinks
    <2>7. PostLinks'
      <3>1. CASE known
        BY <1>1, <1>4, <3>1 DEF Links, PostLinks
      <3>2. CASE ~known
        BY <1>1, <2>3, <2>6, <3>2 DEF Links, PostLinks
      <3> QED
        BY <3>1, <3>2
    <2>8. ProspectRows'
      <3>1. CASE known
        BY <1>1, <1>4, <3>1 DEF Links, ProspectRows
      <3>2. CASE ~known
        <4>1. \E c \in campaigns : prospect'[a].home = {c}
          BY <1>2, <1>4, <2>1, <3>2
        <4> QED
          BY <1>1, <2>3, <2>5, <4>1 DEF Links, ProspectRows
      <3> QED
        BY <3>1, <3>2
    <2>9. RequestLinks'
      <3> SUFFICES ASSUME NEW q \in Requests, req'[q].at = "mark", NEW b \in Authors,
                          prospect'[b].id = req'[q].id
                   PROVE  b = Author[CHOOSE p \in req'[q].post : TRUE]
        BY DEF RequestLinks, AuthorOf
      <3>1. CASE q = r
        <4>1. b = a
          BY <2>3, <2>4, <2>5, <3>1
        <4> QED
          BY <2>4, <3>1, <4>1 DEF AuthorOf
      <3>2. CASE q # r
        <4>1. prospect[b].id = req[q].id
          BY <1>4, <2>2, <2>3, <2>4, <2>6, <3>2
        <4> QED
          BY <2>4, <3>2, <4>1 DEF Links, RequestLinks, AuthorOf
      <3> QED
        BY <3>1, <3>2
    <2>10. ASSUME NEW b \in Authors, prospect'[b].id # 0 PROVE Claimed(b)'
      <3>1. CASE b = a
        BY <2>3, <2>4, <3>1 DEF Claimed
      <3>2. CASE b # a
        <4>1. Claimed(b)
          BY <2>3, <2>10, <3>2 DEF Links
        <4> QED
          BY <1>1, <2>3, <2>4, <3>2, <4>1 DEF Claimed
      <3> QED
        BY <3>1, <3>2
    <2> QED
      BY <2>7, <2>8, <2>9, <2>10 DEF Links
  <1> QED
    BY <1>3, <1>4 DEF CreateProspect

\* SetFeedPostImported writes the link if the prospect is still there.
LEMMA MarkLinks ==
  ASSUME Typed, Links, NEW r \in Requests, MarkImported(r)
  PROVE  Links'
  <1> DEFINE a == AuthorOf(r)
             i == req[r].id
  <1>1. /\ req[r].at = "mark" /\ Answer(r) /\ UNCHANGED <<campaigns, prospect, unlinked>>
    BY DEF MarkImported
  <1>2. PICK p \in Posts : req[r].post = {p} /\ Author[p] \in Authors /\ a = Author[p]
    BY <1>1, AuthorOfPost DEF Typed, RequestsType, RequestType
  <1>3. CASE UNCHANGED post /\ (torn' = torn \cup {a} \/ (UNCHANGED torn /\ ~Linkable(a, i)))
    BY <1>1, <1>3, RequestEnds
  <1>4. CASE Linkable(a, i) /\ post' = Imported(p, i) /\ torn' = torn \ {a}
    <2>1. prospect[a].id = i /\ i # 0
      BY <1>1, <1>4 DEF Linkable, Typed, RequestsType, RequestType
    <2>2. /\ post'[p].link = i /\ post'[p].status = "imported"
          /\ \A q \in Posts \ {p} : post'[q] = post[q]
      BY <1>4 DEF Imported, Typed, RowsType
    <2>3. PostLinks'
      BY <1>1, <1>2, <2>1, <2>2 DEF Links, PostLinks
    <2>4. ProspectRows'
      BY <1>1 DEF Links, ProspectRows
    <2>5. req'[r].at = "idle" /\ \A q \in Requests \ {r} : req'[q] = req[q]
      BY <1>1 DEF Answer, Typed, RequestsType, NoRequest
    <2>6. RequestLinks'
      BY <1>1, <2>5 DEF Links, RequestLinks, AuthorOf
    <2>7. ASSUME NEW b \in Authors, prospect[b].id # 0 PROVE Claimed(b)'
      <3>1. CASE b = a
        BY <1>1, <2>1, <2>2, <3>1 DEF Claimed
      <3>2. CASE b # a
        <4>1. prospect[b].id # i /\ Claimed(b)
          BY <1>2, <2>1, <2>7, <3>2 DEF Links, ProspectRows
        <4>2. post[p].link # prospect[b].id
          BY <1>2, <2>7, <3>2 DEF Links, PostLinks, ProspectRows
        <4> QED
          BY <1>1, <1>4, <2>2, <2>5, <3>2, <4>1, <4>2 DEF Claimed
      <3> QED
        BY <3>1, <3>2
    <2> QED
      BY <1>1, <2>3, <2>4, <2>6, <2>7 DEF Links
  <1> QED
    BY <1>2, <1>3, <1>4 DEF MarkImported

\* A deletion clears the links to what it deletes, and to nothing else.
LEMMA DeleteLinks ==
  ASSUME Typed, Links, NEW gone \in SUBSET Authors, Delete(gone),
         \A b \in Authors \ gone : \A c \in campaigns : prospect[b].home = {c} => c \in campaigns'
  PROVE  Links'
  <1> DEFINE ids == {prospect[b].id : b \in gone} \ {0}
             freed == {p \in Posts : post[p].link \in ids}
  <1>1. /\ prospect' = [b \in Authors |-> IF b \in gone THEN NoProspect ELSE prospect[b]]
        /\ post' = [p \in Posts |-> IF p \in freed THEN [post[p] EXCEPT !.link = 0] ELSE post[p]]
        /\ unlinked' = unlinked \cup freed /\ torn' = torn \ gone /\ UNCHANGED req
    BY DEF Delete
  <1>2. \A p \in Posts : /\ post'[p].status = post[p].status
                         /\ p \in freed => post'[p].link = 0
                         /\ p \notin freed => post'[p].link = post[p].link
    BY <1>1 DEF Typed, RowsType
  <1>3. \A b \in Authors : /\ b \in gone => prospect'[b].id = 0
                           /\ b \notin gone => prospect'[b] = prospect[b]
    BY <1>1 DEF NoProspect
  <1>4. PostLinks'
    <2>1. \A p \in Posts : p \notin freed /\ post[p].link # 0 => Author[p] \notin gone
      BY DEF Links, PostLinks
    <2>2. \A p \in Posts : post'[p].link # 0 => p \notin freed /\ post[p].link # 0
      BY <1>2
    <2>3. \A p \in Posts : post'[p].link # 0 =>
            Author[p] \in Authors /\ post'[p].link = prospect'[Author[p]].id
      BY <1>2, <1>3, <2>1, <2>2 DEF Links, PostLinks
    <2>4. \A p \in Posts : p \in freed => p \in unlinked'
      BY <1>1
    <2>5. \A p \in Posts : p \in unlinked => p \in unlinked'
      BY <1>1
    <2>6. \A p \in Posts : post'[p].status = "absent" => post'[p].link = 0
      BY <1>2 DEF Links, PostLinks
    <2>7. \A p \in Posts : post'[p].status = "imported" => post'[p].link # 0 \/ p \in unlinked'
      BY <1>2, <2>4, <2>5 DEF Links, PostLinks
    <2> QED
      BY <2>3, <2>6, <2>7 DEF PostLinks
  <1>5. ProspectRows'
    BY <1>3 DEF Links, ProspectRows
  <1>6. RequestLinks'
    <2>0. req' = req /\ \A q \in Requests : AuthorOf(q)' = AuthorOf(q)
      BY <1>1 DEF AuthorOf
    <2> SUFFICES ASSUME NEW q \in Requests, req[q].at = "mark", NEW b \in Authors,
                        prospect'[b].id = req[q].id
                 PROVE  b = AuthorOf(q)
      BY <2>0 DEF RequestLinks
    <2>1. req[q].id # 0
      BY DEF Typed, RequestsType, RequestType
    <2>2. prospect[b].id = req[q].id
      BY <1>3, <2>1
    <2> QED
      BY <2>2 DEF Links, RequestLinks
  <1>7. ASSUME NEW b \in Authors, prospect'[b].id # 0 PROVE Claimed(b)'
    <2>1. b \notin gone /\ prospect'[b] = prospect[b] /\ Claimed(b)
      BY <1>3, <1>7 DEF Links
    <2>2. prospect[b].id \notin ids
      <3> SUFFICES ASSUME NEW d \in gone, prospect[d].id = prospect[b].id PROVE FALSE
        OBVIOUS
      <3> QED
        BY <1>7, <2>1 DEF Links, ProspectRows
    <2>3. \A p \in Posts : post[p].link = prospect[b].id => post'[p].link = prospect'[b].id
      BY <1>2, <2>1, <2>2
    <2> QED
      BY <1>1, <2>1, <2>3 DEF Claimed
  <1> QED
    BY <1>4, <1>5, <1>6, <1>7 DEF Links

\* Every step keeps the links.
LEMMA LinksStep ==
  ASSUME Typed, Links, Next
  PROVE  Links'
  <1> USE DEF tables, ghost, worker
  <1>1. RowsType /\ LoopType /\ RequestsType
    BY DEF Typed
  <1>2. CASE UNCHANGED <<campaigns, post, prospect, req, unlinked, torn>>
    BY <1>2, StatusWrites
  <1>3. ASSUME NEW w \in Workers, WorkerStep(w) \/ Crash(w) PROVE Links'
    <2>1. UNCHANGED <<campaigns, prospect, req, unlinked, torn>>
      BY <1>3 DEF WorkerStep, ListSearches, ListUnscored, Touch, Classify, Store, Park,
         Search, Insert, Crash
    <2>2. ASSUME NEW q \in Posts, Insert(w, q) PROVE Links'
      <3>1. ASSUME NEW p \in Posts
            PROVE  /\ post'[p].link = post[p].link
                   /\ post'[p].status \in {"absent", "imported"} => post'[p].status = post[p].status
        <4>1. p \in Stored(q) => post[p].link = 0
          BY DEF Links, PostLinks, Stored
        <4>2. [Absent EXCEPT !.status = "new"].link = 0 /\ [Absent EXCEPT !.status = "new"].status = "new"
          BY DEF Absent
        <4> QED
          BY <2>2, <4>1, <4>2 DEF Insert
      <3> QED
        BY <2>1, <3>1, StatusWrites
    <2>3. CASE Store(w) \/ Park(w)
      <3> DEFINE q == Head(batch[w])
      <3>1. /\ pc[w] \in Waiting /\ NextPost(w) /\ UNCHANGED scan
            /\ verdict' \in [Workers -> {"relevant", "irrelevant", "new"}]
        BY <1>1, <2>3 DEF Store, Park, Waiting, LoopType
      <3>2. q \in Posts /\ verdict[w] \in {"relevant", "irrelevant", "new"}
        BY <1>1, <3>1, NextPostType DEF LoopType
      <3>3. post' = Classified(q, verdict[w]) \/ post' = Dismissed(q) \/ UNCHANGED post
        BY <2>3 DEF Store, Park
      <3>4. \A p \in Posts :
              /\ post'[p].link = post[p].link
              /\ post'[p].status \in {"absent", "imported"} => post'[p].status = post[p].status
        BY <1>1, <3>2, <3>3 DEF Classified, Dismissed, RowsType
      <3> QED
        BY <2>1, <3>4, StatusWrites
    <2> QED
      BY <1>2, <1>3, <2>1, <2>2, <2>3
      DEF WorkerStep, ListSearches, ListUnscored, Touch, Classify, Search, Crash
  <1>4. ASSUME NEW q \in Posts, NEW status \in UserStatus, SetFeedStatus(q, status) PROVE Links'
    <2>1. \A p \in Posts :
            /\ post'[p].link = post[p].link
            /\ post'[p].status \in {"absent", "imported"} => post'[p].status = post[p].status
      BY <1>1, <1>4 DEF SetFeedStatus, WithStatus, RowsType, UserStatus
    <2> QED
      BY <1>4, <2>1, StatusWrites DEF SetFeedStatus
  <1>5. ASSUME NEW r \in Requests, PickCampaign(r) \/ \E p \in Posts : GetPost(r, p) PROVE Links'
    <2>1. /\ UNCHANGED <<campaigns, post, prospect, unlinked, torn>> /\ req[r].at # "mark"
      BY <1>5 DEF PickCampaign, GetPost
    <2>2. req'[r].at # "mark" /\ \A q \in Requests \ {r} : req'[q] = req[q]
      BY <1>1, <1>5 DEF PickCampaign, GetPost, Answer, NoRequest, RequestsType, Request
    <2> QED
      BY <2>1, <2>2, RequestMoves
  <1>6. ASSUME NEW r \in Requests, CrashRequest(r) PROVE Links'
    <2>1. Answer(r) /\ req[r].at # "idle" /\ UNCHANGED <<campaigns, post, prospect, unlinked>>
      BY <1>6 DEF CrashRequest
    <2>2. CASE req[r].at = "mark"
      BY <1>6, <2>1, <2>2, RequestEnds DEF CrashRequest
    <2>3. CASE req[r].at # "mark"
      <3>1. req'[r].at # "mark" /\ \A q \in Requests \ {r} : req'[q] = req[q]
        BY <1>1, <2>1 DEF Answer, NoRequest, RequestsType
      <3> QED
        BY <1>6, <2>1, <2>3, <3>1, RequestMoves DEF CrashRequest
    <2> QED
      BY <2>2, <2>3
  <1>7. ASSUME NEW a \in Authors, DeleteProspect(a) PROVE Links'
    BY <1>7, DeleteLinks DEF DeleteProspect
  <1>8. ASSUME NEW c \in Campaigns, DeleteCampaign(c) PROVE Links'
    <2>1. \A b \in Authors \ {d \in Authors : prospect[d].home = {c}} :
            \A e \in campaigns : prospect[b].home = {e} => e \in campaigns'
      BY <1>8 DEF DeleteCampaign
    <2> QED
      BY <1>8, <2>1, DeleteLinks DEF DeleteCampaign
  <1>9. ASSUME NEW s \in Searches, SearchDue(s) PROVE Links'
    BY <1>2, <1>9 DEF SearchDue
  <1> QED
    BY <1>3, <1>4, <1>5, <1>6, <1>7, <1>8, <1>9, CreateLinks, MarkLinks DEF Next

\* An import shows on both sides, although ImportFeedAuthor takes four statements that
\* deletions, the loop and other requests come between.
THEOREM ImportsAreLinked == Spec => []ImportLinked
  <1>1. Init => Links
    BY DEF Init, Links, PostLinks, ProspectRows, RequestLinks, Absent, NoProspect, NoRequest
  <1>2. ASSUME Typed, Links, [Next]_vars PROVE Links'
    <2>1. CASE UNCHANGED vars
      <3>1. UNCHANGED <<campaigns, post, prospect, req, unlinked, torn>>
        BY <2>1 DEF vars, tables, ghost
      <3> QED
        BY <1>2, <3>1, StatusWrites
    <2> QED
      BY <1>2, <2>1, LinksStep
  <1>3. Links => ImportLinked
    <2> SUFFICES ASSUME Links PROVE ImportLinked
      OBVIOUS
    <2>1. \A a \in Authors : prospect[a].id # 0 =>
            prospect[a].home # {} /\ prospect[a].home \subseteq campaigns
      BY DEF Links, ProspectRows
    <2> QED
      BY <2>1 DEF Links, PostLinks, Claimed, ImportLinked
  <1> QED
    BY <1>1, <1>2, <1>3, TypedCorrect, PTL DEF Spec
=============================================================================
