-------------------------- MODULE JobScoringProofs --------------------------
(***************************************************************************)
(* For any number of instances, searches, postings, faults and clicks: the *)
(* types of the jobs loop, that the user's decisions stand, and that a     *)
(* posting is paid for once.                                               *)
(***************************************************************************)
EXTENDS JobScoringProps, ListingsProofs, FiniteSetTheorems, TLAPS

-----------------------------------------------------------------------------
(* Types                                                                   *)

\* seen lists a posting once, so that a batch does, too.
SeenOnce == \A i, k \in 1..Len(seen) : seen[i] = seen[k] => i = k

Waiting == {"fetch", "rank", "store", "park"}

\* The part of the type of one worker.
WorkerType(w) ==
  /\ pc[w] \in {"idle", "search", "insert", "fetch", "rank", "store", "park"}
  /\ todo[w] \in Seq(Searches) /\ Len(todo[w]) <= SearchLimit
  /\ hits[w] \subseteq Postings /\ (pc[w] = "insert" => todo[w] # <<>>)
  /\ batch[w] \in Seq(Postings) /\ Len(batch[w]) <= ScoreBatch
  /\ batch[w] # <<>> <=> pc[w] \in Waiting

TablesType ==
  /\ order \in [1..Cardinality(Searches) -> Searches] /\ Elements(order) = Searches
  /\ due \subseteq Searches
  /\ posting \in [Postings -> [status: Status, scored: BOOLEAN]]
  /\ seen \in Seq(Postings) /\ SeenOnce
  /\ Elements(seen) = {j \in Postings : posting[j].status # "absent"}
  /\ Len(seen) = Cardinality(Elements(seen))

GhostType ==
  /\ budget \in Nat /\ clicks \in Nat
  /\ decision \in [Postings -> UserStatus \cup {"none"}]
  /\ overtaken \subseteq Postings /\ repay \subseteq Postings
  /\ ranked \in [Postings -> Nat]

PerWorker == /\ pc = [w \in Workers |-> pc[w]] /\ todo = [w \in Workers |-> todo[w]]
             /\ hits = [w \in Workers |-> hits[w]] /\ batch = [w \in Workers |-> batch[w]]

\* Nothing is deleted: what a worker has listed is in the table.
Listed == \A w \in Workers : Elements(batch[w]) \subseteq Elements(seen)

Typed == TablesType /\ GhostType /\ PerWorker /\ Listed /\ \A w \in Workers : WorkerType(w)

\* The types per worker are those of TypeOK.
LEMMA TypedIsTypeOK == Typed => TypeOK
<1> SUFFICES ASSUME Typed PROVE TypeOK
  OBVIOUS
<1>1. pc \in [Workers -> {"idle", "search", "insert", "fetch", "rank", "store", "park"}]
  BY DEF Typed, PerWorker, WorkerType
<1>2. \A w \in Workers : /\ Elements(todo[w]) \subseteq Searches
                         /\ Elements(batch[w]) \subseteq Postings
  BY DEF Typed, WorkerType, Elements
<1>3. QED
  BY <1>1, <1>2 DEF Typed, TablesType, GhostType, WorkerType, Waiting, TypeOK

\* The tables start empty.
LEMMA InitTyped == Init => Typed
<1> SUFFICES ASSUME Init PROVE Typed
  OBVIOUS
<1>1. Elements(<<>>) = {} /\ Cardinality({}) = 0
  BY FS_EmptySet DEF Elements
<1>2. TablesType
  <2>1. posting = [j \in Postings |-> [status |-> "absent", scored |-> FALSE]] /\ seen = <<>>
    BY DEF Init
  <2>2. Elements(seen) = {j \in Postings : posting[j].status # "absent"}
    BY <1>1, <2>1
  <2>3. posting \in [Postings -> [status: Status, scored: BOOLEAN]]
    BY <2>1 DEF Status
  <2>4. Len(seen) = 0 /\ Elements(seen) = {} /\ seen \in Seq(Postings)
    BY <2>1 DEF Elements
  <2>5. SeenOnce
    BY <2>4 DEF SeenOnce
  <2>6. order \in [1..Cardinality(Searches) -> Searches] /\ Elements(order) = Searches /\ due \subseteq Searches
    BY DEF Init
  <2>7. QED
    BY <1>1, <2>2, <2>3, <2>4, <2>5, <2>6 DEF TablesType
<1>3. GhostType
  BY JobAssumption DEF Init, GhostType
<1>4. PerWorker
  BY DEF Init, PerWorker
<1>5. \A w \in Workers : WorkerType(w)
  BY JobAssumption DEF Init, WorkerType, Waiting
<1>6. Listed
  BY <1>1 DEF Init, Listed
<1>7. QED
  BY <1>2, <1>3, <1>4, <1>5, <1>6 DEF Typed

\* Every step of a worker leaves the others alone.
OthersAlone(w) == \A v \in Workers \ {w} :
  pc'[v] = pc[v] /\ todo'[v] = todo[v] /\ hits'[v] = hits[v] /\ batch'[v] = batch[v]

\* A step of one worker has to keep only its own type and those of the tables.
LEMMA OneWorkerTyped ==
  ASSUME Typed, NEW w \in Workers, OthersAlone(w), PerWorker',
         WorkerType(w)', TablesType', GhostType', Listed'
  PROVE  Typed'
<1>1. \A v \in Workers \ {w} : WorkerType(v)'
  BY DEF Typed, OthersAlone, WorkerType
<1>2. QED
  BY <1>1 DEF Typed

\* What leaves the tables alone keeps their types.
LEMMA TablesKept == ASSUME TablesType, UNCHANGED tables PROVE TablesType'
  BY DEF TablesType, tables, SeenOnce

\* What leaves batches and rows alone keeps the batches listed.
LEMMA ListedKept == ASSUME Listed, UNCHANGED <<batch, seen>> PROVE Listed'
  BY DEF Listed

\* What leaves the history alone keeps its types.
LEMMA GhostsKept == ASSUME GhostType, UNCHANGED <<clicks, ghost>>, budget' \in Nat PROVE GhostType'
  BY DEF GhostType, ghost

\* A fault uses up some of the budget, and nothing else does.
LEMMA BudgetKept ==
  ASSUME GhostType PROVE (NoFault => budget' \in Nat) /\ \A k : Fault(k) => budget' \in Nat
  BY DEF GhostType, NoFault, Fault

\* TouchJobSearch moves a search to the end of the order and drops none.
LEMMA TouchedIsOrder ==
  ASSUME TablesType, NEW s \in Searches
  PROVE  Touched(s) \in [1..Cardinality(Searches) -> Searches] /\ Elements(Touched(s)) = Searches
<1> DEFINE n == Cardinality(Searches)
           was == CHOOSE i \in 1..n : order[i] = s
<1>1. n \in Nat /\ Len(order) = n /\ order \in [1..n -> Searches] /\ DOMAIN order = 1..n
  BY JobAssumption, FS_CardinalityType DEF TablesType
<1>2. was \in 1..n /\ order[was] = s
  <2>1. \E i \in 1..n : order[i] = s
    BY <1>1 DEF TablesType, Elements
  <2>2. QED
    BY <2>1
<1>3. Touched(s) = [i \in 1..n |-> IF i = n THEN s ELSE IF i < was THEN order[i] ELSE order[i + 1]]
  BY <1>1 DEF Touched
<1> HIDE DEF n, was
<1>4. Touched(s) \in [1..n -> Searches] /\ Len(Touched(s)) = n
  BY <1>1, <1>2, <1>3
<1>5. ASSUME NEW t \in Searches PROVE \E i \in 1..n : Touched(s)[i] = t
  <2>1. PICK k \in 1..n : order[k] = t
    BY <1>1 DEF TablesType, Elements
  <2>2. CASE k < was
    BY <1>1, <1>2, <1>3, <2>1, <2>2
  <2>3. CASE k = was
    BY <1>1, <1>2, <1>3, <2>1, <2>3
  <2>4. CASE k > was
    <3>1. k - 1 \in 1..n /\ k - 1 # n /\ ~(k - 1 < was) /\ (k - 1) + 1 = k
      BY <1>1, <1>2, <2>4
    <3>2. Touched(s)[k - 1] = t
      BY <1>3, <2>1, <3>1
    <3>3. QED
      BY <3>1, <3>2
  <2>5. QED
    BY <1>1, <1>2, <2>2, <2>3, <2>4
<1>6. Elements(Touched(s)) = Searches
  BY <1>4, <1>5 DEF Elements
<1>7. QED
  BY <1>4, <1>6 DEF n

\* On to the next posting of the batch.
LEMMA NextPostingTyped ==
  ASSUME Typed, NEW w \in Workers, pc[w] \in Waiting, NextPosting(w), UNCHANGED <<todo, hits, seen>>
  PROVE  OthersAlone(w) /\ PerWorker' /\ WorkerType(w)' /\ Listed'
<1>1. /\ batch' = [batch EXCEPT ![w] = Tail(batch[w])]
      /\ pc' = [pc EXCEPT ![w] = IF Len(batch[w]) = 1 THEN "idle" ELSE "fetch"]
  BY DEF NextPosting, Goto
<1>2. batch[w] \in Seq(Postings) /\ batch[w] # <<>> /\ Len(batch[w]) <= ScoreBatch
  BY DEF Typed, WorkerType
<1>3. OthersAlone(w) /\ PerWorker'
  BY <1>1 DEF Typed, OthersAlone, PerWorker
<1>4. batch'[w] = Tail(batch[w]) /\ pc'[w] = (IF Len(batch[w]) = 1 THEN "idle" ELSE "fetch")
  BY <1>1 DEF Typed, PerWorker
<1>5. /\ Tail(batch[w]) \in Seq(Postings) /\ Len(Tail(batch[w])) = Len(batch[w]) - 1
      /\ Len(batch[w]) \in Nat /\ Len(batch[w]) >= 1 /\ ScoreBatch \in Nat
  BY <1>2, JobAssumption
<1>6. Tail(batch[w]) = <<>> <=> Len(batch[w]) = 1
  <2>1. Tail(batch[w]) = <<>> <=> Len(Tail(batch[w])) = 0
    BY <1>5, EmptyByLength
  <2>2. QED
    BY <1>5, <2>1
<1>7. Elements(Tail(batch[w])) \subseteq Elements(batch[w])
  BY <1>2, TailElements
<1>8. todo'[w] = todo[w] /\ hits'[w] = hits[w]
  OBVIOUS
<1>9. WorkerType(w)'
  BY <1>2, <1>4, <1>5, <1>6, <1>8 DEF Typed, WorkerType, Waiting
<1>10. Listed'
  BY <1>3, <1>4, <1>7 DEF Typed, Listed, OthersAlone
<1>11. QED
  BY <1>3, <1>9, <1>10

\* A statement changes a row that is there.
LEMMA PostingChanged ==
  ASSUME TablesType, NEW j \in Postings, posting[j].status # "absent",
         UNCHANGED <<order, due, seen>>,
         \/ UNCHANGED posting \/ posting' = Scored(j)
         \/ \E status \in UserStatus : posting' = WithStatus(j, status)
  PROVE  TablesType'
<1>1. posting' \in [Postings -> [status: Status, scored: BOOLEAN]]
  <2>1. CASE UNCHANGED posting
    BY <2>1 DEF TablesType
  <2>2. CASE posting' = Scored(j)
    BY <2>2 DEF TablesType, Scored, Status, UserStatus
  <2>3. CASE \E status \in UserStatus : posting' = WithStatus(j, status)
    BY <2>3 DEF TablesType, WithStatus, Status
  <2>4. QED
    BY <2>1, <2>2, <2>3
<1>2. \A i \in Postings : posting'[i].status # "absent" <=> posting[i].status # "absent"
  BY DEF TablesType, Scored, WithStatus, UserStatus
<1>3. QED
  BY <1>1, <1>2 DEF TablesType, SeenOnce

\* Every step keeps the types.
LEMMA TypedStep == Typed /\ [Next]_vars => Typed'
<1> SUFFICES ASSUME Typed, [Next]_vars PROVE Typed'
  OBVIOUS
<1> USE DEF Typed
<1>1. CASE UNCHANGED vars
  <2>1. UNCHANGED <<tables, pc, todo, hits, batch, budget, clicks, ghost>>
    BY <1>1 DEF vars, worker
  <2>2. TablesType' /\ GhostType' /\ Listed'
    BY <2>1, TablesKept, ListedKept DEF GhostType, ghost, tables
  <2>3. PerWorker' /\ \A w \in Workers : WorkerType(w)'
    BY <2>1 DEF PerWorker, WorkerType
  <2>4. QED
    BY <2>2, <2>3
<1>2. ASSUME NEW w \in Workers, ListSearches(w) PROVE Typed'
  <2>1. PICK list \in Seq(Searches) : Len(list) <= SearchLimit /\ todo' = [todo EXCEPT ![w] = list]
    <3>1. CASE \E list \in DueInOrder : todo' = [todo EXCEPT ![w] = list]
      <4>1. PICK list \in Answers(order, due, SearchLimit) : todo' = [todo EXCEPT ![w] = list]
        BY <3>1 DEF DueInOrder
      <4>2. list \in Seq(Searches \cap due) /\ Len(list) <= SearchLimit
        <5>1. SearchLimit \in Nat /\ Elements(order) = Searches
          BY JobAssumption DEF TablesType
        <5>2. QED
          BY <4>1, <5>1, AnswersAreRows
      <4>3. list \in Seq(Searches)
        BY <4>2
      <4>4. QED
        BY <4>1, <4>2, <4>3
    <3>2. CASE todo' = [todo EXCEPT ![w] = <<>>]
      <4>1. <<>> \in Seq(Searches) /\ Len(<<>>) <= SearchLimit
        BY JobAssumption
      <4>2. QED
        BY <3>2, <4>1
    <3>3. QED
      BY <1>2, <3>1, <3>2 DEF ListSearches
  <2>2. /\ pc[w] = "idle" /\ pc' = [pc EXCEPT ![w] = "search"]
        /\ UNCHANGED <<tables, hits, batch, clicks, ghost>> /\ budget' \in Nat
    BY <1>2, BudgetKept DEF ListSearches, Goto
  <2>3. OthersAlone(w) /\ PerWorker'
    BY <2>1, <2>2 DEF OthersAlone, PerWorker
  <2>4. WorkerType(w)'
    BY <2>1, <2>2 DEF WorkerType, Waiting, PerWorker
  <2>5. QED
    BY <2>2, <2>3, <2>4, TablesKept, GhostsKept, ListedKept, OneWorkerTyped DEF tables
<1>3. ASSUME NEW w \in Workers, Search(w) PROVE Typed'
  <2>1. /\ pc[w] = "search" /\ todo[w] # <<>>
        /\ UNCHANGED <<tables, batch, clicks, ghost>> /\ budget' \in Nat
    BY <1>3, BudgetKept DEF Search
  <2>2. Hits(Head(todo[w])) \subseteq Postings
    <3>1. Head(todo[w]) \in Searches
      BY <2>1, TailElements DEF WorkerType
    <3>2. Finds[Head(todo[w])] \in Seq(Postings \cup {NoId})
      BY <3>1, JobAssumption
    <3>3. \A i \in DOMAIN Finds[Head(todo[w])] :
            Finds[Head(todo[w])][i] # NoId => Finds[Head(todo[w])][i] \in Postings
      BY <3>2
    <3>4. QED
      BY <3>3 DEF Hits
  <2>3. \/ /\ pc' = [pc EXCEPT ![w] = "insert"] /\ UNCHANGED todo
           /\ hits' = [hits EXCEPT ![w] = Hits(Head(todo[w])) \ Promoted]
        \/ todo' = [todo EXCEPT ![w] = Tail(todo[w])] /\ UNCHANGED <<pc, hits>>
    BY <1>3 DEF Search, Goto
  <2>4. OthersAlone(w) /\ PerWorker'
    BY <2>1, <2>3 DEF OthersAlone, PerWorker
  <2>5. Tail(todo[w]) \in Seq(Searches) /\ Len(Tail(todo[w])) <= SearchLimit
    BY <2>1, TailElements, JobAssumption DEF WorkerType
  <2>6. WorkerType(w)'
    BY <2>1, <2>2, <2>3, <2>5 DEF WorkerType, Waiting, PerWorker
  <2>7. QED
    BY <2>1, <2>4, <2>6, TablesKept, GhostsKept, ListedKept, OneWorkerTyped DEF tables
<1>4. ASSUME NEW w \in Workers, NEW j \in Postings, Insert(w, j) PROVE Typed'
  <2>1. /\ hits' = [hits EXCEPT ![w] = @ \ {j}]
        /\ UNCHANGED <<order, due, pc, todo, batch, clicks, ghost>> /\ budget' \in Nat
    BY <1>4, BudgetKept DEF Insert
  <2>2. OthersAlone(w) /\ PerWorker' /\ WorkerType(w)'
    BY <2>1 DEF OthersAlone, PerWorker, WorkerType
  <2>3. TablesType' /\ Elements(seen) \subseteq Elements(seen')
    <3>1. CASE UNCHANGED <<posting, seen>>
      BY <2>1, <3>1, TablesKept DEF tables
    <3>2. CASE /\ posting' = [i \in Postings |-> IF i \in Stored(j)
                     THEN [status |-> "new", scored |-> FALSE] ELSE posting[i]]
               /\ seen' = IF j \in Stored(j) THEN Append(seen, j) ELSE seen
      <4>1. CASE posting[j].status = "absent"
        <5>1. Stored(j) = {j} /\ seen' = Append(seen, j)
          BY <3>2, <4>1 DEF Stored
        <5>2. posting' \in [Postings -> [status: Status, scored: BOOLEAN]]
          BY <3>2, <5>1 DEF TablesType, Status, UserStatus
        <5>3. seen' \in Seq(Postings) /\ Len(seen') = Len(seen) + 1 /\ j \notin Elements(seen)
          BY <4>1, <5>1 DEF TablesType
        <5>a. seen \in Seq(Postings) /\ Len(seen) \in Nat
          BY DEF TablesType
        <5>b. /\ Len(seen') = Len(seen) + 1 /\ seen'[Len(seen) + 1] = j
              /\ \A i \in 1..Len(seen) : seen'[i] = seen[i]
          BY <5>1, <5>a, AppendElements
        <5>c. \A i \in 1..Len(seen') : i \in 1..Len(seen) \/ i = Len(seen) + 1
          BY <5>a, <5>b
        <5>4. Elements(seen') = Elements(seen) \cup {j}
          BY <5>a, <5>b, <5>c DEF Elements
        <5>5. Elements(seen') = {i \in Postings : posting'[i].status # "absent"}
          BY <3>2, <5>1, <5>4 DEF TablesType
        <5>6. SeenOnce'
          <6>1. \A i \in 1..Len(seen) : seen[i] # j
            BY <5>3 DEF Elements
          <6>2. QED
            BY <5>a, <5>b, <5>c, <6>1 DEF TablesType, SeenOnce
        <5>7. Cardinality(Elements(seen')) = Cardinality(Elements(seen)) + 1
          <6>1. Elements(seen) \subseteq Postings
            BY DEF TablesType
          <6>2. QED
            BY <5>3, <5>4, <6>1, JobAssumption, FS_Subset, FS_AddElement
        <5>8. QED
          BY <2>1, <5>2, <5>3, <5>4, <5>5, <5>6, <5>7 DEF TablesType
      <4>2. CASE posting[j].status # "absent"
        <5>1. Stored(j) = {}
          BY <4>2 DEF Stored
        <5>2. posting' = posting /\ seen' = seen
          BY <3>2, <5>1 DEF TablesType
        <5>3. QED
          BY <2>1, <5>2, TablesKept DEF tables
      <4>3. QED
        BY <4>1, <4>2
    <3>3. QED
      BY <1>4, <3>1, <3>2 DEF Insert
  <2>4. Listed'
    BY <2>1, <2>3 DEF Listed
  <2>5. QED
    BY <2>1, <2>2, <2>3, <2>4, GhostsKept, OneWorkerTyped
<1>5. ASSUME NEW w \in Workers, Touch(w) PROVE Typed'
  <2> DEFINE s == Head(todo[w])
  <2>1. /\ pc[w] = "insert" /\ pc' = [pc EXCEPT ![w] = "search"]
        /\ todo' = [todo EXCEPT ![w] = Tail(todo[w])]
        /\ UNCHANGED <<posting, seen, hits, batch, clicks, ghost>> /\ budget' \in Nat
    BY <1>5, BudgetKept DEF Touch, Goto
  <2>2. /\ todo[w] \in Seq(Searches) /\ todo[w] # <<>> /\ s \in Searches
        /\ Tail(todo[w]) \in Seq(Searches) /\ Len(Tail(todo[w])) <= SearchLimit
    BY <2>1, TailElements, JobAssumption DEF WorkerType
  <2>3. OthersAlone(w) /\ PerWorker'
    BY <2>1 DEF OthersAlone, PerWorker
  <2>4. WorkerType(w)'
    BY <2>1, <2>2 DEF WorkerType, Waiting, PerWorker
  <2>5. TablesType'
    <3>1. CASE UNCHANGED <<due, order>>
      BY <2>1, <3>1, TablesKept DEF tables
    <3>2. CASE due' = due \ {s} /\ order' = Touched(s)
      BY <2>1, <2>2, <3>2, TouchedIsOrder DEF TablesType, SeenOnce
    <3>3. QED
      BY <1>5, <3>1, <3>2 DEF Touch
  <2>6. QED
    BY <2>1, <2>3, <2>4, <2>5, GhostsKept, ListedKept, OneWorkerTyped
<1>6. ASSUME NEW w \in Workers, ListUnscored(w) PROVE Typed'
  <2>1. /\ pc[w] = "search" /\ budget' \in Nat
        /\ UNCHANGED <<tables, todo, hits, clicks, decision, overtaken, ranked>>
    BY <1>6, BudgetKept DEF ListUnscored
  <2>2. TablesType'
    BY <2>1, TablesKept
  <2>3. CASE \E list \in NextBatch :
               /\ batch' = [batch EXCEPT ![w] = list]
               /\ Goto(w, IF list = <<>> THEN "idle" ELSE "fetch")
               /\ repay' = repay \cup
                    {j \in Elements(list) : \E v \in Workers : j \in Elements(batch[v])}
    <3>1. PICK list \in Answers(seen, {j \in Postings : Unscored(j)}, ScoreBatch) :
               /\ batch' = [batch EXCEPT ![w] = list]
               /\ pc' = [pc EXCEPT ![w] = IF list = <<>> THEN "idle" ELSE "fetch"]
               /\ repay' \subseteq repay \cup Elements(list)
      BY <2>3 DEF NextBatch, Goto
    <3>2. list \in Seq(Elements(seen) \cap {j \in Postings : Unscored(j)}) /\ Len(list) <= ScoreBatch
      BY AnswersAreRows, JobAssumption
    <3>3. list \in Seq(Postings)
      BY <3>2
    <3>4. Elements(list) \subseteq Postings
      BY <3>3 DEF Elements
    <3>5. OthersAlone(w) /\ PerWorker'
      BY <2>1, <3>1 DEF OthersAlone, PerWorker
    <3>6. WorkerType(w)'
      <4>1. batch'[w] = list /\ pc'[w] = (IF list = <<>> THEN "idle" ELSE "fetch")
        BY <3>1 DEF PerWorker
      <4>2. todo'[w] = todo[w] /\ hits'[w] = hits[w]
        BY <2>1
      <4>3. QED
        BY <3>2, <3>3, <4>1, <4>2 DEF WorkerType, Waiting
    <3>7. GhostType'
      BY <2>1, <3>1, <3>4 DEF GhostType
    <3>8. Elements(list) \subseteq Elements(seen)
      BY <3>2 DEF Elements
    <3>9. Listed'
      BY <2>1, <3>1, <3>8 DEF Listed, tables, PerWorker
    <3>10. QED
      BY <2>2, <3>5, <3>6, <3>7, <3>9, OneWorkerTyped
  <2>4. CASE pc' = [pc EXCEPT ![w] = "idle"] /\ UNCHANGED <<batch, repay>>
    <3>1. OthersAlone(w) /\ PerWorker' /\ WorkerType(w)'
      BY <2>1, <2>4 DEF OthersAlone, PerWorker, WorkerType, Waiting
    <3>2. GhostType'
      BY <2>1, <2>4 DEF GhostType
    <3>3. Listed'
      BY <2>1, <2>4, ListedKept DEF tables
    <3>4. QED
      BY <2>2, <3>1, <3>2, <3>3, OneWorkerTyped
  <2>5. QED
    BY <1>6, <2>3, <2>4 DEF ListUnscored, Goto
<1>7. ASSUME NEW w \in Workers, Fetch(w) PROVE Typed'
  <2>1. /\ pc[w] = "fetch" /\ budget' \in Nat
        /\ pc' = [pc EXCEPT ![w] = "rank"] \/ pc' = [pc EXCEPT ![w] = "park"]
        /\ UNCHANGED <<tables, todo, hits, batch, clicks, ghost>>
    BY <1>7, BudgetKept DEF Fetch, Goto
  <2>2. OthersAlone(w) /\ PerWorker' /\ WorkerType(w)'
    BY <2>1 DEF OthersAlone, PerWorker, WorkerType, Waiting
  <2>3. QED
    BY <2>1, <2>2, TablesKept, GhostsKept, ListedKept, OneWorkerTyped DEF tables
<1>8. ASSUME NEW w \in Workers, Rank(w) PROVE Typed'
  <2>1. /\ pc[w] = "rank" /\ budget' \in Nat
        /\ UNCHANGED <<tables, todo, hits, clicks, decision, overtaken, repay>>
    BY <1>8, BudgetKept DEF Rank
  <2>2. \/ NextPosting(w) /\ UNCHANGED ranked
        \/ /\ pc' = [pc EXCEPT ![w] = "store"] \/ pc' = [pc EXCEPT ![w] = "park"]
           /\ ranked' = [ranked EXCEPT ![Head(batch[w])] = @ + 1] \/ UNCHANGED ranked
           /\ UNCHANGED batch
    BY <1>8 DEF Rank, Goto
  <2>3. Head(batch[w]) \in Postings
    BY <2>1 DEF WorkerType, Waiting
  <2>4. GhostType'
    BY <2>1, <2>2, <2>3 DEF GhostType
  <2>5. OthersAlone(w) /\ PerWorker' /\ WorkerType(w)' /\ Listed'
    <3>1. CASE NextPosting(w)
      <4>1. pc[w] \in Waiting /\ UNCHANGED <<todo, hits, seen>>
        BY <2>1 DEF Waiting, tables
      <4>2. QED
        BY <3>1, <4>1, NextPostingTyped
    <3>2. CASE UNCHANGED batch /\ (pc' = [pc EXCEPT ![w] = "store"] \/ pc' = [pc EXCEPT ![w] = "park"])
      <4>1. Listed'
        BY <2>1, <3>2, ListedKept DEF tables
      <4>2. QED
        BY <2>1, <3>2, <4>1 DEF OthersAlone, PerWorker, WorkerType, Waiting
    <3>3. QED
      BY <2>2, <3>1, <3>2
  <2>6. QED
    BY <2>1, <2>4, <2>5, TablesKept, OneWorkerTyped
<1>9. ASSUME NEW w \in Workers, Store(w) \/ Park(w) PROVE Typed'
  <2> DEFINE j == Head(batch[w])
  <2>1. /\ pc[w] \in Waiting /\ NextPosting(w) /\ budget' \in Nat
        /\ UNCHANGED <<order, due, seen, todo, hits, clicks, decision, overtaken, ranked>>
    BY <1>9, BudgetKept DEF Store, Park, Waiting, ghost
  <2>2. /\ UNCHANGED posting \/ posting' = Scored(j) \/ posting' = WithStatus(j, "dismissed")
        /\ UNCHANGED repay \/ repay' = repay \cup {j}
    BY <1>9 DEF Store, Park, ghost
  <2>3. OthersAlone(w) /\ PerWorker' /\ WorkerType(w)' /\ Listed'
    BY <2>1, NextPostingTyped
  <2>4. j \in Postings /\ posting[j].status # "absent"
    <3>1. batch[w] \in Seq(Postings) /\ batch[w] # <<>> /\ Elements(batch[w]) \subseteq Elements(seen)
      BY <2>1 DEF WorkerType, Listed
    <3>2. j \in Elements(batch[w])
      BY <3>1, TailElements
    <3>3. QED
      BY <3>1, <3>2 DEF TablesType
  <2>5. TablesType'
    <3>1. "dismissed" \in UserStatus
      BY DEF UserStatus
    <3>2. QED
      BY <2>1, <2>2, <2>4, <3>1, PostingChanged
  <2>6. GhostType'
    BY <2>1, <2>2, <2>4 DEF GhostType
  <2>7. QED
    BY <2>3, <2>5, <2>6, OneWorkerTyped
<1>10. ASSUME NEW w \in Workers, Crash(w) PROVE Typed'
  <2>1. /\ pc' = [pc EXCEPT ![w] = "idle"] /\ todo' = [todo EXCEPT ![w] = <<>>]
        /\ hits' = [hits EXCEPT ![w] = {}] /\ batch' = [batch EXCEPT ![w] = <<>>]
        /\ UNCHANGED <<tables, clicks, decision, overtaken, ranked>> /\ budget' \in Nat
        /\ repay' = IF pc[w] = "store" THEN repay \cup {Head(batch[w])} ELSE repay
    BY <1>10, BudgetKept DEF Crash, Goto
  <2>2. OthersAlone(w) /\ PerWorker'
    BY <2>1 DEF OthersAlone, PerWorker
  <2>3. WorkerType(w)'
    <3>1. pc'[w] = "idle" /\ todo'[w] = <<>> /\ hits'[w] = {} /\ batch'[w] = <<>>
      BY <2>1 DEF PerWorker
    <3>2. QED
      BY <3>1, JobAssumption DEF WorkerType, Waiting
  <2>4. pc[w] = "store" => Head(batch[w]) \in Postings
    BY DEF WorkerType, Waiting
  <2>5. GhostType'
    BY <2>1, <2>4 DEF GhostType
  <2>6. Listed'
    <3>1. batch'[w] = <<>> /\ seen' = seen /\ \A v \in Workers \ {w} : batch'[v] = batch[v]
      BY <2>1 DEF tables, PerWorker
    <3>2. QED
      BY <3>1, NoElements DEF Listed
  <2>7. QED
    BY <2>1, <2>2, <2>3, <2>5, <2>6, TablesKept, OneWorkerTyped
<1>11. ASSUME NEW s \in Searches, SearchDue(s) PROVE Typed'
  <2>1. due' = due \cup {s} /\ UNCHANGED <<order, posting, seen, pc, todo, hits, batch, budget, clicks, ghost>>
    BY <1>11 DEF SearchDue, worker
  <2>2. TablesType'
    BY <2>1 DEF TablesType, SeenOnce
  <2>3. GhostType' /\ PerWorker' /\ Listed' /\ \A w \in Workers : WorkerType(w)'
    BY <2>1 DEF GhostType, ghost, PerWorker, Listed, WorkerType
  <2>4. QED
    BY <2>2, <2>3
<1>12. ASSUME NEW j \in Postings, NEW status \in UserStatus, SetJobStatus(j, status) PROVE Typed'
  <2>1. /\ posting[j].status # "absent" /\ posting' = WithStatus(j, status)
        /\ UNCHANGED <<order, due, seen, pc, todo, hits, batch, budget, ranked, repay>>
        /\ clicks > 0 /\ clicks' = clicks - 1 /\ decision' = [decision EXCEPT ![j] = status]
        /\ overtaken' \subseteq overtaken \cup {j}
    BY <1>12 DEF SetJobStatus, worker
  <2>2. TablesType'
    BY <2>1, PostingChanged
  <2>3. GhostType'
    BY <2>1 DEF GhostType
  <2>4. PerWorker' /\ Listed' /\ \A w \in Workers : WorkerType(w)'
    BY <2>1 DEF PerWorker, Listed, WorkerType
  <2>5. QED
    BY <2>2, <2>3, <2>4
<1>13. QED
  BY <1>1, <1>2, <1>3, <1>4, <1>5, <1>6, <1>7, <1>8, <1>9, <1>10, <1>11, <1>12 DEF Next, WorkerStep

\* The types hold in every reachable state.
LEMMA TypedCorrect == Spec => []Typed
  BY InitTyped, TypedStep, PTL DEF Spec

\* Every variable keeps its type, a worker has postings listed exactly while it scores
\* them, and seen lists the rows of the table, each once (tickJobs, scoreUnscoredJobs).
THEOREM TypeCorrect == Spec => []TypeOK
  BY TypedCorrect, TypedIsTypeOK, PTL

-----------------------------------------------------------------------------
(* The user's decisions                                                    *)

\* Nobody decides on a posting that is not there, and a posting that a worker has listed
\* was still open then: a decision that came later is overtaken.
DecisionInv ==
  /\ DecisionStands
  /\ \A j \in Postings : posting[j].status = "absent" => decision[j] = "none"
  /\ \A w \in Workers : \A j \in Elements(batch[w]) : j \notin overtaken => decision[j] \in {"none", "new"}

\* Every step keeps the decisions.
LEMMA DecisionStep == Typed /\ DecisionInv /\ [Next]_vars => DecisionInv'
<1> SUFFICES ASSUME Typed, DecisionInv, [Next]_vars PROVE DecisionInv'
  OBVIOUS
<1>0. posting \in [Postings -> [status: Status, scored: BOOLEAN]]
  BY DEF Typed, TablesType
\* Batches that shrink and rows that stay keep the invariant.
<1>a. ASSUME UNCHANGED <<posting, decision, overtaken>>,
             \A w \in Workers : Elements(batch'[w]) \subseteq Elements(batch[w])
      PROVE  DecisionInv'
  BY <1>a DEF DecisionInv, DecisionStands
\* A worker may write what it likes to a posting that it has listed.
<1>b. ASSUME NEW w \in Workers, NEW j \in Elements(batch[w]),
             \A i \in Postings \ {j} : posting'[i] = posting[i],
             j \in Postings => posting'[j].status # "absent", UNCHANGED <<decision, overtaken>>,
             \A v \in Workers : Elements(batch'[v]) \subseteq Elements(batch[v])
      PROVE  DecisionInv'
  BY <1>b DEF DecisionInv, DecisionStands
<1>c. ASSUME NEW w \in Workers, NextPosting(w), pc[w] \in Waiting
      PROVE  /\ Head(batch[w]) \in Elements(batch[w]) /\ Head(batch[w]) \in Postings
             /\ \A v \in Workers : Elements(batch'[v]) \subseteq Elements(batch[v])
  <2>1. batch[w] \in Seq(Postings) /\ batch[w] # <<>> /\ batch' = [batch EXCEPT ![w] = Tail(batch[w])]
    BY <1>c DEF NextPosting, Typed, WorkerType
  <2>2. batch'[w] = Tail(batch[w]) /\ \A v \in Workers \ {w} : batch'[v] = batch[v]
    BY <2>1 DEF Typed, PerWorker
  <2>3. QED
    BY <2>1, <2>2, TailElements
<1>1. CASE UNCHANGED <<posting, batch, decision, overtaken>>
  BY <1>1, <1>a
<1>2. ASSUME NEW w \in Workers, NEW j \in Postings, Insert(w, j) PROVE DecisionInv'
  <2>1. UNCHANGED <<batch, decision, overtaken>>
    BY <1>2 DEF Insert, ghost
  <2>2. \A i \in Postings : \/ posting'[i] = posting[i]
                            \/ posting[i].status = "absent" /\ posting'[i].status = "new"
    BY <1>2, <1>0 DEF Insert, Stored
  <2>3. QED
    BY <2>1, <2>2 DEF DecisionInv, DecisionStands
<1>3. ASSUME NEW w \in Workers, ListUnscored(w) PROVE DecisionInv'
  <2>1. UNCHANGED <<posting, decision, overtaken>>
    BY <1>3 DEF ListUnscored, tables
  <2>2. CASE UNCHANGED batch
    BY <2>1, <2>2, <1>a
  <2>3. CASE \E list \in NextBatch : batch' = [batch EXCEPT ![w] = list]
    <3>1. PICK list \in Answers(seen, {j \in Postings : Unscored(j)}, ScoreBatch) :
            batch' = [batch EXCEPT ![w] = list]
      BY <2>3 DEF NextBatch
    <3>2. list \in Seq(Elements(seen) \cap {j \in Postings : Unscored(j)})
      BY AnswersAreRows, JobAssumption
    <3>3. \A j \in Elements(list) : j \in Postings /\ posting[j].status = "new"
      BY <3>2 DEF Elements, Unscored
    <3>4. batch'[w] = list /\ \A v \in Workers \ {w} : batch'[v] = batch[v]
      BY <3>1 DEF Typed, PerWorker
    <3>5. \A j \in Elements(list) : j \notin overtaken => decision[j] \in {"none", "new"}
      BY <3>3 DEF DecisionInv, DecisionStands
    <3>6. QED
      BY <2>1, <3>4, <3>5 DEF DecisionInv, DecisionStands
  <2>4. QED
    BY <1>3, <2>2, <2>3 DEF ListUnscored
<1>4. ASSUME NEW w \in Workers, Rank(w) PROVE DecisionInv'
  <2>1. pc[w] \in Waiting /\ UNCHANGED <<posting, decision, overtaken>>
        /\ (UNCHANGED batch \/ NextPosting(w))
    BY <1>4 DEF Rank, tables, Waiting
  <2>2. QED
    BY <2>1, <1>1, <1>a, <1>c
<1>5. ASSUME NEW w \in Workers, Store(w) \/ Park(w) PROVE DecisionInv'
  <2> DEFINE j == Head(batch[w])
  <2>1. pc[w] \in Waiting /\ NextPosting(w) /\ UNCHANGED <<decision, overtaken>>
    BY <1>5 DEF Store, Park, Waiting, ghost
  <2>2. UNCHANGED posting \/ posting' = Scored(j) \/ posting' = WithStatus(j, "dismissed")
    BY <1>5 DEF Store, Park
  <2>3. CASE UNCHANGED posting
    BY <2>1, <2>3, <1>a, <1>c
  <2>4. CASE posting' = Scored(j) \/ posting' = WithStatus(j, "dismissed")
    <3>1. /\ j \in Elements(batch[w]) /\ j \in Postings
          /\ \A v \in Workers : Elements(batch'[v]) \subseteq Elements(batch[v])
      BY <2>1, <1>c
    <3>2. /\ \A i \in Postings \ {j} : posting'[i] = posting[i]
          /\ posting'[j].status # "absent"
      BY <1>0, <2>4, <3>1 DEF Scored, WithStatus
    <3>3. QED
      BY <2>1, <3>1, <3>2, <1>b
  <2>5. QED
    BY <2>2, <2>3, <2>4
<1>6. ASSUME NEW w \in Workers, Crash(w) PROVE DecisionInv'
  <2>1. UNCHANGED <<posting, decision, overtaken>> /\ batch' = [batch EXCEPT ![w] = <<>>]
    BY <1>6 DEF Crash, tables
  <2>2. batch'[w] = <<>> /\ \A v \in Workers \ {w} : batch'[v] = batch[v]
    BY <2>1 DEF Typed, PerWorker
  <2>3. QED
    BY <2>1, <2>2, <1>a, NoElements
<1>7. ASSUME NEW j \in Postings, NEW status \in UserStatus, SetJobStatus(j, status) PROVE DecisionInv'
  <2>1. /\ posting' = WithStatus(j, status) /\ decision' = [decision EXCEPT ![j] = status]
        /\ posting[j].status # "absent" /\ UNCHANGED batch
        /\ overtaken' = IF \E w \in Workers : j \in Elements(batch[w])
                          THEN overtaken \cup {j} ELSE overtaken \ {j}
    BY <1>7 DEF SetJobStatus, worker
  <2>2. /\ posting'[j].status = status /\ decision'[j] = status /\ status # "absent"
        /\ \A i \in Postings \ {j} : posting'[i] = posting[i] /\ decision'[i] = decision[i]
    BY <1>0, <2>1 DEF WithStatus, Typed, GhostType, UserStatus
  <2>3. \A i \in Postings \ {j} : i \in overtaken' <=> i \in overtaken
    BY <2>1
  <2>4. \A w \in Workers : j \in Elements(batch[w]) => j \in overtaken'
    BY <2>1
  <2>5. \A w \in Workers : Elements(batch[w]) \subseteq Postings
    BY DEF Typed, WorkerType, Elements
  <2>6. QED
    BY <2>1, <2>2, <2>3, <2>4, <2>5 DEF DecisionInv, DecisionStands
<1>8. QED
  <2>1. ASSUME NEW w \in Workers, ListSearches(w) \/ Search(w) \/ Touch(w) \/ Fetch(w)
        PROVE UNCHANGED <<posting, batch, decision, overtaken>>
    BY <2>1 DEF ListSearches, Search, Touch, Fetch, tables, ghost
  <2>2. ASSUME NEW s \in Searches, SearchDue(s) PROVE UNCHANGED <<posting, batch, decision, overtaken>>
    BY <2>2 DEF SearchDue, worker, ghost
  <2>3. CASE UNCHANGED vars
    BY <2>3, <1>1 DEF vars, tables, worker, ghost
  <2>4. QED
    BY <1>1, <1>2, <1>3, <1>4, <1>5, <1>6, <1>7, <2>1, <2>2, <2>3 DEF Next, WorkerStep

\* What the user decided about a posting stands unless a worker had the posting in its
\* batch when the user decided (SetJobPostingScore, MarkJobPostingScoreFailed, runJobSearch).
THEOREM DecisionsStand == Spec => []DecisionStands
<1>1. Init => DecisionInv
  <2> SUFFICES ASSUME Init PROVE DecisionInv
    OBVIOUS
  <2>1. \A j \in Postings : decision[j] = "none"
    BY DEF Init
  <2>2. \A w \in Workers : Elements(batch[w]) = {}
    BY NoElements DEF Init
  <2>3. QED
    BY <2>1, <2>2 DEF DecisionInv, DecisionStands
<1>2. DecisionInv => DecisionStands
  BY DEF DecisionInv
<1>3. QED
  BY <1>1, <1>2, DecisionStep, TypedCorrect, PTL DEF Spec

-----------------------------------------------------------------------------
(* The price of a score                                                    *)

\* The worker holds a score that the table has not got.
Holds(w, j) == pc[w] = "store" /\ Head(batch[w]) = j

\* Of a posting that never has to be ranked again: one worker at most has it listed, and
\* unless that worker holds its score, nothing has been paid; what has been paid once is
\* held or stored.
Paid(j) ==
  /\ \A v, w \in Workers : j \in Elements(batch[v]) /\ j \in Elements(batch[w]) => v = w
  /\ \A w \in Workers : j \in Elements(batch[w]) /\ ~Holds(w, j) => ranked[j] = 0
  /\ ranked[j] = 0 \/ (ranked[j] = 1 /\ (posting[j].scored \/ \E w \in Workers : Holds(w, j)))

ListedOnce(w) == \A i, k \in 1..Len(batch[w]) : batch[w][i] = batch[w][k] => i = k

PaidInv ==
  /\ \A j \in Postings \ repay : Paid(j)
  /\ \A j \in Postings : posting[j].status = "absent" => ~posting[j].scored
  /\ \A w \in Workers : ListedOnce(w)

\* The head of a list without repetitions is gone from the rest.
LEMMA TailOnce ==
  ASSUME NEW S, NEW s \in Seq(S), s # <<>>,
         \A i, k \in 1..Len(s) : s[i] = s[k] => i = k
  PROVE  /\ \A i, k \in 1..Len(Tail(s)) : Tail(s)[i] = Tail(s)[k] => i = k
         /\ \A x \in Elements(s) : x = Head(s) \/ x \in Elements(Tail(s))
         /\ Head(s) \notin Elements(Tail(s))
<1>1. /\ Len(s) \in Nat /\ Len(s) >= 1 /\ Len(Tail(s)) = Len(s) - 1 /\ Head(s) = s[1]
      /\ \A i \in 1..Len(Tail(s)) : Tail(s)[i] = s[i + 1] /\ i + 1 \in 1..Len(s)
  BY EmptyByLength
<1>2. \A i, k \in 1..Len(Tail(s)) : Tail(s)[i] = Tail(s)[k] => i = k
  BY <1>1
<1>3. ASSUME NEW x \in Elements(s) PROVE x = Head(s) \/ x \in Elements(Tail(s))
  <2>1. PICK i \in 1..Len(s) : s[i] = x
    BY DEF Elements
  <2>2. CASE i = 1
    BY <1>1, <2>1, <2>2
  <2>3. CASE i # 1
    <3>1. i - 1 \in 1..Len(Tail(s)) /\ (i - 1) + 1 = i
      BY <1>1, <2>1, <2>3
    <3>2. Tail(s)[i - 1] = x
      BY <1>1, <2>1, <3>1
    <3>3. QED
      BY <3>1, <3>2 DEF Elements
  <2>4. QED
    BY <2>2, <2>3
<1>4. Head(s) \notin Elements(Tail(s))
  <2>1. \A i \in 1..Len(Tail(s)) : i + 1 # 1
    BY <1>1
  <2>2. QED
    BY <1>1, <2>1 DEF Elements
<1>5. QED
  BY <1>2, <1>3, <1>4

\* A listing has no repetitions when the table has none.
LEMMA AnswerOnce ==
  ASSUME Typed, NEW where, NEW list \in Answers(seen, where, ScoreBatch)
  PROVE  \A i, k \in 1..Len(list) : list[i] = list[k] => i = k
<1>1. /\ list \in Seq(Elements(seen) \cap where)
      /\ \A i, k \in 1..Len(list) : i < k => Before(seen, list[i], list[k])
  BY AnswersAreRows, JobAssumption
<1>2. ASSUME NEW x, Before(seen, x, x) PROVE FALSE
  <2>1. PICK i \in 1..Len(seen), k \in 1..Len(seen) : i < k /\ seen[i] = x /\ seen[k] = x
    BY <1>2 DEF Before
  <2>2. i = k
    BY <2>1 DEF Typed, TablesType, SeenOnce
  <2>3. QED
    BY <2>1, <2>2
<1>3. \A i, k \in 1..Len(list) : i < k => list[i] # list[k]
  BY <1>1, <1>2
<1>4. \A i, k \in 1..Len(list) : i < k \/ k < i \/ i = k
  BY <1>1
<1>5. QED
  BY <1>3, <1>4

\* Every step keeps the account of what was paid for.
LEMMA PaidStep == Typed /\ PaidInv /\ [Next]_vars => PaidInv'
<1> SUFFICES ASSUME Typed, PaidInv, [Next]_vars PROVE PaidInv'
  OBVIOUS
<1>0. /\ posting \in [Postings -> [status: Status, scored: BOOLEAN]]
      /\ ranked \in [Postings -> Nat]
      /\ \A w \in Workers : batch[w] \in Seq(Postings) /\ (pc[w] \in Waiting => batch[w] # <<>>)
  BY DEF Typed, TablesType, GhostType, WorkerType
\* Batches, scores and what is held stay.
<1>a. ASSUME UNCHANGED <<batch, ranked, repay>>,
             \A w \in Workers : pc'[w] = "store" <=> pc[w] = "store",
             \A j \in Postings : posting'[j].scored = posting[j].scored,
             \A j \in Postings : posting'[j].status = "absent" => posting[j].status = "absent"
      PROVE  PaidInv'
  <2>1. \A w \in Workers : \A j \in Postings : Holds(w, j)' <=> Holds(w, j)
    BY <1>a DEF Holds
  <2>2. \A j \in Postings \ repay : Paid(j)'
    BY <1>a, <2>1 DEF PaidInv, Paid
  <2>3. QED
    BY <1>a, <2>2 DEF PaidInv, ListedOnce
\* A worker goes on to its next posting: what it leaves behind is not paid for, or its
\* score is stored, or it has to be ranked again.
<1>b. ASSUME NEW w \in Workers, NextPosting(w), pc[w] \in Waiting, UNCHANGED ranked,
             repay \subseteq repay', Head(batch[w]) \in Postings,
             \A j \in Postings \ {Head(batch[w])} : posting'[j] = posting[j],
             posting[Head(batch[w])].scored => posting'[Head(batch[w])].scored,
             posting'[Head(batch[w])].status # "absent",
             \/ pc[w] # "store" \/ Head(batch[w]) \in repay' \/ posting'[Head(batch[w])].scored
      PROVE  PaidInv'
  <2> DEFINE h == Head(batch[w])
  <2>1. /\ batch[w] \in Seq(Postings) /\ batch[w] # <<>>
        /\ batch' = [batch EXCEPT ![w] = Tail(batch[w])]
        /\ pc' = [pc EXCEPT ![w] = IF Len(batch[w]) = 1 THEN "idle" ELSE "fetch"]
    BY <1>0, <1>b DEF NextPosting, Goto
  <2>2. /\ batch'[w] = Tail(batch[w]) /\ pc'[w] # "store"
        /\ \A v \in Workers \ {w} : batch'[v] = batch[v] /\ pc'[v] = pc[v]
    BY <2>1 DEF Typed, PerWorker
  <2>3. ListedOnce(w)
    BY DEF PaidInv
  <2>4. /\ \A i, k \in 1..Len(Tail(batch[w])) : Tail(batch[w])[i] = Tail(batch[w])[k] => i = k
        /\ h \notin Elements(Tail(batch[w]))
        /\ Elements(Tail(batch[w])) \subseteq Elements(batch[w]) /\ h \in Elements(batch[w])
    BY <2>1, <2>3, TailOnce, TailElements DEF ListedOnce
  <2>5. /\ \A j : ~Holds(w, j)' /\ (j # h => ~Holds(w, j))
        /\ \A v \in Workers \ {w} : \A j : Holds(v, j)' <=> Holds(v, j)
    BY <2>2 DEF Holds
  <2>6. ASSUME NEW j \in Postings \ repay' PROVE Paid(j)'
    <3>1. j \in Postings \ repay /\ Paid(j)
      BY <1>b, <2>6 DEF PaidInv
    <3>2. \A v \in Workers : j \in Elements(batch'[v]) => j \in Elements(batch[v])
      BY <2>2, <2>4
    <3>3. \A v, u \in Workers : j \in Elements(batch'[v]) /\ j \in Elements(batch'[u]) => v = u
      BY <3>1, <3>2 DEF Paid
    <3>4. \A v \in Workers : j \in Elements(batch'[v]) /\ ~Holds(v, j)' => ranked[j] = 0
      <4>1. ASSUME j \in Elements(batch'[w]) PROVE ranked[j] = 0
        BY <2>2, <2>4, <2>5, <3>1, <3>2, <4>1 DEF Paid
      <4>2. ASSUME NEW v \in Workers \ {w}, j \in Elements(batch'[v]), ~Holds(v, j)'
            PROVE  ranked[j] = 0
        BY <2>5, <3>1, <3>2, <4>2 DEF Paid
      <4>3. QED
        BY <4>1, <4>2
    <3>5. ranked[j] = 0 \/ (ranked[j] = 1 /\ (posting'[j].scored \/ \E v \in Workers : Holds(v, j)'))
      <4>1. CASE j = h
        <5>1. CASE pc[w] # "store"
          BY <2>4, <3>1, <4>1, <5>1 DEF Paid, Holds
        <5>2. CASE posting'[h].scored
          BY <3>1, <4>1, <5>2 DEF Paid
        <5>3. QED
          BY <1>b, <2>6, <4>1, <5>1, <5>2
      <4>2. CASE j # h
        BY <1>b, <2>5, <3>1, <4>2 DEF Paid
      <4>3. QED
        BY <4>1, <4>2
    <3>6. QED
      BY <1>b, <3>3, <3>4, <3>5 DEF Paid
  <2>7. \A v \in Workers : ListedOnce(v)'
    BY <2>2, <2>4 DEF PaidInv, ListedOnce
  <2>8. \A j \in Postings : posting'[j].status = "absent" => ~posting'[j].scored
    BY <1>b DEF PaidInv
  <2>9. QED
    BY <2>6, <2>7, <2>8 DEF PaidInv
<1>c. ASSUME NEW w \in Workers, pc[w] \in Waiting
      PROVE  /\ Head(batch[w]) \in Postings /\ posting[Head(batch[w])].status # "absent"
             /\ Head(batch[w]) \in Elements(batch[w])
  <2>1. batch[w] \in Seq(Postings) /\ batch[w] # <<>>
    BY <1>0, <1>c
  <2>2. Head(batch[w]) \in Elements(batch[w])
    BY <2>1, TailElements
  <2>3. QED
    BY <2>1, <2>2 DEF Typed, TablesType, Listed
<1>1. ASSUME NEW w \in Workers, ListSearches(w) \/ Search(w) \/ Touch(w) \/ Fetch(w)
      PROVE  PaidInv'
  <2>1. UNCHANGED <<posting, batch, ranked, repay>>
    BY <1>1 DEF ListSearches, Search, Touch, Fetch, tables, ghost
  <2>2. /\ pc[w] # "store"
        /\ UNCHANGED pc \/ \E where \in {"search", "insert", "rank", "park"} : pc' = [pc EXCEPT ![w] = where]
    BY <1>1 DEF ListSearches, Search, Touch, Fetch, Goto
  <2>3. \A v \in Workers : pc'[v] = "store" <=> pc[v] = "store"
    BY <2>2 DEF Typed, PerWorker
  <2>4. QED
    BY <2>1, <2>3, <1>a
<1>2. ASSUME NEW w \in Workers, NEW j \in Postings, Insert(w, j) PROVE PaidInv'
  <2>1. UNCHANGED <<pc, batch, ranked, repay>>
    BY <1>2 DEF Insert, ghost
  <2>2. CASE UNCHANGED posting
    BY <2>1, <2>2, <1>a
  <2>3. CASE posting' = [i \in Postings |-> IF i \in Stored(j)
                           THEN [status |-> "new", scored |-> FALSE] ELSE posting[i]]
    <3>1. \A i \in Postings : i \notin Stored(j) => posting'[i] = posting[i]
      BY <2>3
    <3>2. \A i \in Stored(j) : ~posting[i].scored
      BY DEF Stored, PaidInv
    <3>3. \A i \in Stored(j) : i \in Postings /\ posting'[i].scored = FALSE /\ posting'[i].status = "new"
      BY <2>3 DEF Stored
    <3>4. \A i \in Postings : posting'[i].scored = posting[i].scored
      BY <1>0, <3>1, <3>2, <3>3
    <3>5. \A i \in Postings : posting'[i].status = "absent" => posting[i].status = "absent"
      BY <3>1, <3>3
    <3>6. QED
      BY <2>1, <3>4, <3>5, <1>a
  <2>4. QED
    BY <1>2, <2>2, <2>3 DEF Insert
<1>3. ASSUME NEW w \in Workers, ListUnscored(w) PROVE PaidInv'
  <2>1. pc[w] = "search" /\ UNCHANGED <<posting, ranked>>
    BY <1>3 DEF ListUnscored, tables
  <2>2. CASE pc' = [pc EXCEPT ![w] = "idle"] /\ UNCHANGED <<batch, repay>>
    <3>1. \A v \in Workers : pc'[v] = "store" <=> pc[v] = "store"
      BY <2>1, <2>2 DEF Typed, PerWorker
    <3>2. QED
      BY <2>1, <2>2, <3>1, <1>a
  <2>3. CASE \E list \in NextBatch :
               /\ batch' = [batch EXCEPT ![w] = list]
               /\ pc' = [pc EXCEPT ![w] = IF list = <<>> THEN "idle" ELSE "fetch"]
               /\ repay' = repay \cup
                    {j \in Elements(list) : \E v \in Workers : j \in Elements(batch[v])}
    <3>1. PICK list \in Answers(seen, {j \in Postings : Unscored(j)}, ScoreBatch) :
               /\ batch' = [batch EXCEPT ![w] = list]
               /\ pc' = [pc EXCEPT ![w] = IF list = <<>> THEN "idle" ELSE "fetch"]
               /\ repay' = repay \cup
                    {j \in Elements(list) : \E v \in Workers : j \in Elements(batch[v])}
      BY <2>3 DEF NextBatch
    <3>2. list \in Seq(Elements(seen) \cap {j \in Postings : Unscored(j)})
      BY AnswersAreRows, JobAssumption
    <3>3. \A j \in Elements(list) : j \in Postings /\ ~posting[j].scored
      BY <3>2 DEF Elements, Unscored
    <3>4. \A i, k \in 1..Len(list) : list[i] = list[k] => i = k
      BY AnswerOnce
    <3>5. /\ batch'[w] = list /\ pc'[w] # "store"
          /\ \A v \in Workers \ {w} : batch'[v] = batch[v] /\ pc'[v] = pc[v]
      BY <3>1 DEF Typed, PerWorker
    <3>6. /\ \A j : ~Holds(w, j)' /\ ~Holds(w, j)
          /\ \A v \in Workers \ {w} : \A j : Holds(v, j)' <=> Holds(v, j)
      BY <2>1, <3>5 DEF Holds
    <3>7. ASSUME NEW j \in Postings \ repay' PROVE Paid(j)'
      <4>1. j \in Postings \ repay /\ Paid(j)
        BY <3>1, <3>7 DEF PaidInv
      <4>2. CASE j \in Elements(list)
        <5>1. \A v \in Workers : j \notin Elements(batch[v])
          BY <3>1, <3>7, <4>2
        <5>2. \A v \in Workers : ~Holds(v, j)
          BY <5>1, <1>c DEF Holds, Waiting
        <5>3. ranked[j] = 0
          BY <3>3, <4>1, <4>2, <5>2 DEF Paid
        <5>4. \A v \in Workers : j \in Elements(batch'[v]) => v = w
          BY <3>5, <5>1
        <5>5. QED
          BY <2>1, <5>3, <5>4 DEF Paid
      <4>3. CASE j \notin Elements(list)
        <5>1. \A v \in Workers : j \in Elements(batch'[v]) => v # w /\ j \in Elements(batch[v])
          BY <3>5, <4>3
        <5>2. (\E v \in Workers : Holds(v, j)) => \E v \in Workers : Holds(v, j)'
          BY <3>6
        <5>3. QED
          BY <2>1, <3>6, <4>1, <5>1, <5>2 DEF Paid
      <4>4. QED
        BY <4>2, <4>3
    <3>8. \A v \in Workers : ListedOnce(v)'
      BY <3>4, <3>5 DEF PaidInv, ListedOnce
    <3>9. QED
      BY <2>1, <3>7, <3>8 DEF PaidInv
  <2>4. QED
    BY <1>3, <2>2, <2>3 DEF ListUnscored, Goto
<1>4. ASSUME NEW w \in Workers, Rank(w) PROVE PaidInv'
  <2> DEFINE h == Head(batch[w])
  <2>1. pc[w] = "rank" /\ UNCHANGED <<posting, repay>>
    BY <1>4 DEF Rank, tables
  <2>2. CASE NextPosting(w) /\ UNCHANGED ranked
    BY <2>1, <2>2, <1>b, <1>c DEF Waiting
  <2>3. CASE pc' = [pc EXCEPT ![w] = "park"] /\ UNCHANGED <<batch, ranked>>
    <3>1. \A v \in Workers : pc'[v] = "store" <=> pc[v] = "store"
      BY <2>1, <2>3 DEF Typed, PerWorker
    <3>2. QED
      BY <2>1, <2>3, <3>1, <1>a
  <2>4. CASE /\ pc' = [pc EXCEPT ![w] = "store"] /\ UNCHANGED batch
             /\ ranked' = [ranked EXCEPT ![Head(batch[w])] = @ + 1]
    <3>1. h \in Postings /\ h \in Elements(batch[w])
      BY <2>1, <1>c DEF Waiting
    <3>2. /\ ranked'[h] = ranked[h] + 1 /\ \A j \in Postings \ {h} : ranked'[j] = ranked[j]
      BY <1>0, <2>4, <3>1
    <3>3. pc'[w] = "store" /\ \A v \in Workers \ {w} : pc'[v] = pc[v]
      BY <2>4 DEF Typed, PerWorker
    <3>4. /\ \A j : ~Holds(w, j) /\ Holds(w, h)'
          /\ \A v \in Workers \ {w} : \A j : Holds(v, j)' <=> Holds(v, j)
      BY <2>1, <2>4, <3>3 DEF Holds
    <3>5. ASSUME NEW j \in Postings \ repay' PROVE Paid(j)'
      <4>1. Paid(j)
        BY <2>1, <3>5 DEF PaidInv
      <4>2. CASE j = h
        <5>1. ranked'[j] = 1
          BY <3>1, <3>2, <3>4, <4>1, <4>2 DEF Paid
        <5>2. \A v \in Workers : j \in Elements(batch[v]) => v = w
          BY <3>1, <4>1, <4>2 DEF Paid
        <5>3. QED
          BY <2>4, <3>4, <4>1, <4>2, <5>1, <5>2 DEF Paid
      <4>3. CASE j # h
        <5>1. ranked'[j] = ranked[j]
          BY <3>2, <4>3
        <5>2. \A v \in Workers : j \in Elements(batch[v]) /\ ~Holds(v, j)' => ranked[j] = 0
          BY <3>4, <4>1 DEF Paid
        <5>3. (\E v \in Workers : Holds(v, j)) => \E v \in Workers : Holds(v, j)'
          BY <3>4
        <5>4. QED
          BY <2>1, <2>4, <4>1, <5>1, <5>2, <5>3 DEF Paid
      <4>4. QED
        BY <4>2, <4>3
    <3>6. QED
      BY <2>1, <2>4, <3>5 DEF PaidInv, ListedOnce
  <2>5. QED
    BY <1>4, <2>2, <2>3, <2>4 DEF Rank, Goto
<1>5. ASSUME NEW w \in Workers, Store(w) PROVE PaidInv'
  <2> DEFINE h == Head(batch[w])
  <2>1. pc[w] \in Waiting /\ NextPosting(w) /\ UNCHANGED ranked
    BY <1>5 DEF Store, Waiting
  <2>2. h \in Postings /\ posting[h].status # "absent"
    BY <2>1, <1>c
  <2>3. CASE posting' = Scored(h) /\ UNCHANGED repay
    <3>1. /\ posting'[h].scored /\ posting'[h].status # "absent"
          /\ \A j \in Postings \ {h} : posting'[j] = posting[j]
      BY <1>0, <2>2, <2>3 DEF Scored
    <3>2. QED
      BY <2>1, <2>2, <2>3, <3>1, <1>b
  <2>4. CASE repay' = repay \cup {h} /\ UNCHANGED posting
    BY <2>1, <2>2, <2>4, <1>b
  <2>5. QED
    BY <1>5, <2>3, <2>4 DEF Store
<1>6. ASSUME NEW w \in Workers, Park(w) PROVE PaidInv'
  <2> DEFINE h == Head(batch[w])
  <2>1. pc[w] = "park" /\ NextPosting(w) /\ UNCHANGED <<ranked, repay>>
    BY <1>6 DEF Park, ghost
  <2>2. h \in Postings /\ posting[h].status # "absent"
    BY <2>1, <1>c DEF Waiting
  <2>3. UNCHANGED posting \/ posting' = WithStatus(h, "dismissed")
    BY <1>6 DEF Park
  <2>4. /\ posting'[h].scored = posting[h].scored /\ posting'[h].status # "absent"
        /\ \A j \in Postings \ {h} : posting'[j] = posting[j]
    BY <1>0, <2>2, <2>3 DEF WithStatus
  <2>5. QED
    BY <2>1, <2>2, <2>4, <1>b DEF Waiting
<1>7. ASSUME NEW w \in Workers, Crash(w) PROVE PaidInv'
  <2>1. /\ UNCHANGED <<posting, ranked>> /\ batch' = [batch EXCEPT ![w] = <<>>]
        /\ pc' = [pc EXCEPT ![w] = "idle"]
        /\ repay' = IF pc[w] = "store" THEN repay \cup {Head(batch[w])} ELSE repay
    BY <1>7 DEF Crash, Goto, tables
  <2>2. /\ batch'[w] = <<>> /\ pc'[w] = "idle"
        /\ \A v \in Workers \ {w} : batch'[v] = batch[v] /\ pc'[v] = pc[v]
    BY <2>1 DEF Typed, PerWorker
  <2>3. /\ \A j : ~Holds(w, j)'
        /\ \A v \in Workers \ {w} : \A j : Holds(v, j)' <=> Holds(v, j)
    BY <2>2 DEF Holds
  <2>4. ASSUME NEW j \in Postings \ repay' PROVE Paid(j)'
    <3>1. Paid(j) /\ ~Holds(w, j)
      BY <2>1, <2>4 DEF PaidInv, Holds
    <3>2. \A v \in Workers : j \in Elements(batch'[v]) => v # w /\ j \in Elements(batch[v])
      BY <2>2, NoElements
    <3>3. (\E v \in Workers : Holds(v, j)) => \E v \in Workers : Holds(v, j)'
      BY <2>3, <3>1
    <3>4. QED
      BY <2>1, <2>3, <3>1, <3>2, <3>3 DEF Paid
  <2>5. \A v \in Workers : ListedOnce(v)'
    <3>1. ListedOnce(w)'
      <4>1. Len(batch'[w]) = 0
        BY <2>2
      <4>2. QED
        BY <4>1 DEF ListedOnce
    <3>2. QED
      BY <2>2, <3>1 DEF PaidInv, ListedOnce
  <2>6. QED
    BY <2>1, <2>4, <2>5 DEF PaidInv
<1>8. ASSUME NEW s \in Searches, SearchDue(s) PROVE PaidInv'
  <2>1. UNCHANGED <<posting, pc, batch, ranked, repay>>
    BY <1>8 DEF SearchDue, worker, ghost
  <2>2. QED
    BY <2>1, <1>a
<1>9. ASSUME NEW j \in Postings, NEW status \in UserStatus, SetJobStatus(j, status) PROVE PaidInv'
  <2>1. UNCHANGED <<pc, batch, ranked, repay>> /\ posting' = WithStatus(j, status)
    BY <1>9 DEF SetJobStatus, worker
  <2>2. /\ posting'[j].scored = posting[j].scored /\ posting'[j].status # "absent"
        /\ \A i \in Postings \ {j} : posting'[i] = posting[i]
    BY <1>0, <2>1 DEF WithStatus, UserStatus
  <2>3. QED
    BY <2>1, <2>2, <1>a
<1>10. CASE UNCHANGED vars
  <2>1. UNCHANGED <<posting, pc, batch, ranked, repay>>
    BY <1>10 DEF vars, tables, worker, ghost
  <2>2. QED
    BY <2>1, <1>a
<1>11. QED
  BY <1>1, <1>2, <1>3, <1>4, <1>5, <1>6, <1>7, <1>8, <1>9, <1>10 DEF Next, WorkerStep

\* The ranker is paid for a posting once, unless a crash or a failing statement lost the
\* score or two instances had the posting listed (scoreUnscoredJobs has no claim).
THEOREM PaidForOnce == Spec => []PaidOnce
<1>1. Init => PaidInv
  <2> SUFFICES ASSUME Init PROVE PaidInv
    OBVIOUS
  <2>1. \A j \in Postings : ranked[j] = 0 /\ posting[j].status = "absent" /\ posting[j].scored = FALSE
    BY DEF Init
  <2>2. \A w \in Workers : batch[w] = <<>> /\ Elements(batch[w]) = {} /\ Len(batch[w]) = 0
    BY NoElements DEF Init
  <2>3. QED
    BY <2>1, <2>2 DEF PaidInv, Paid, ListedOnce
<1>2. Typed /\ PaidInv => PaidOnce
  BY DEF PaidInv, Paid, PaidOnce, Typed, GhostType
<1>3. QED
  BY <1>1, <1>2, PaidStep, TypedCorrect, PTL DEF Spec
=============================================================================
