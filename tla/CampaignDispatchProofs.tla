----------------------- MODULE CampaignDispatchProofs -----------------------
(***************************************************************************)
(* The types of the campaign loop, the constraints of its tables, the      *)
(* lease as a lock and the record of every accepted step, for any number   *)
(* of workers, prospects and faults.  The inductive invariant is TypeOK,   *)
(* References (the unique index never refuses markStepSent) and            *)
(* LeaseDiscipline; the safety properties about single rows follow from it.*)
(***************************************************************************)
EXTENDS CampaignDispatchProps, TLAPS

\* The record and tuple types, unfolded once.
LEMMA RowIds ==
  /\ \A r \in RowId : r[1] \in Prospects /\ r[2] \in 1..MaxRows /\ r = <<r[1], r[2]>>
  /\ \A p \in Prospects, n \in 1..MaxRows : <<p, n>> \in RowId
  /\ NoRow \notin RowId
  BY DispatchAssumption DEF RowId

\* A step of the saved sequence has a kind.
LEMMA PlanType ==
  ASSUME NEW s \in Plans
  PROVE  /\ s \in Seq(Kinds) /\ Len(s) \in Nat \ {0}
         /\ \A k \in 1..Len(s) : s[k] \in Kinds
  <1>1. s \in Seq(Kinds) \ {<<>>}
    BY DispatchAssumption
  <1>2. QED
    BY <1>1

\* GetNextSequenceStep returns a step id, NoStep included.
LEMMA NextStepType ==
  ASSUME TypeOK, NEW s \in StepId
  PROVE  NextStep(s) \in StepId
  BY PlanType DEF TypeOK, TableType, StepId, NoStep, NextStep, StepExists

\* A worker that goes on inside dispatchStep, or returns from it.
LEMMA StaysType ==
  ASSUME WorkerType, NEW w \in Workers, NEW from \in Dispatching,
         NEW to \in Dispatching, At(w, from), Goto(w, to),
         ctx' \in [Workers -> Context]
  PROVE  WorkerType'
  BY DEF WorkerType, At, Goto, Dispatching

\* A worker that returns holds nothing.
LEMMA ReturnType ==
  ASSUME WorkerType, NEW w \in Workers, Return(w)
  PROVE  WorkerType'
  BY RowIds DEF WorkerType, Return, Goto, Dispatching, Context, NoContext, StepId, NoStep

\* A worker inside dispatchStep holds a row of the table.
LEMMA HeldRow ==
  ASSUME WorkerType, NEW w \in Workers, pc[w] \in Dispatching
  PROVE  cur[w] \in RowId
  BY DEF WorkerType

\* A row stays a row under any status.
LEMMA WithStatusType ==
  ASSUME row \in [RowId -> Row], NEW r \in RowId, NEW s \in RowStatus
  PROVE  /\ WithStatus(r, s) \in Row
         /\ WithStatus(r, s).status = s /\ WithStatus(r, s).aged = FALSE
         /\ WithStatus(r, s).step = row[r].step /\ WithStatus(r, s).kind = row[r].kind
         /\ WithStatus(r, s).due = row[r].due
  BY DEF WithStatus, Row

\* A statement that sets one status keeps the type of the table.
LEMMA SetStatusType ==
  ASSUME row \in [RowId -> Row], NEW r \in RowId, NEW s \in RowStatus, SetStatus(r, s)
  PROVE  /\ row' \in [RowId -> Row]
         /\ row'[r].status = s /\ row'[r].aged = FALSE
         /\ \A q \in RowId \ {r} : row'[q] = row[q]
  BY WithStatusType DEF SetStatus

\* The initial state has the types.
LEMMA InitType == Init => TypeOK
  <1> SUFFICES ASSUME Init PROVE TypeOK
    OBVIOUS
  <1>1. plan[1] \in Kinds /\ NoStep \in StepId /\ <<1, 1>> \in StepId
    BY PlanType DEF Init, NoStep, StepId
  <1>2. row \in [RowId -> Row]
    BY <1>1 DEF Init, Row, RowStatus, Absent, NewRow, Kinds
  <1>3. ctx \in [Workers -> Context]
    BY <1>1 DEF Init, Context, NoContext
  <1> QED
    BY <1>2, <1>3, RowIds, DispatchAssumption
    DEF Init, TypeOK, TableType, WorkerType, HistoryType, Dispatching

\* The tick itself: no row is held before the lease.
LEMMA TickType ==
  ASSUME TypeOK, NEW w \in Workers,
         ReleaseStale(w) \/ ListDue(w) \/ \E r \in RowId : Lease(w, r)
  PROVE  TypeOK'
  <1> USE DEF TypeOK, HistoryType, Fault, NoFault, ghost
  <1>1. CASE ReleaseStale(w)
    <2>1. row' \in [RowId -> Row]
      BY <1>1, WithStatusType DEF ReleaseStale, TableType, RowStatus
    <2>2. WorkerType'
      BY <1>1 DEF ReleaseStale, WorkerType, Goto, Dispatching
    <2>3. TableType'
      BY <1>1, <2>1 DEF ReleaseStale, TableType
    <2>4. HistoryType'
      BY <1>1 DEF ReleaseStale
    <2> QED
      BY <2>2, <2>3, <2>4
  <1>2. CASE ListDue(w)
    <2>1. DuePending \in SUBSET RowId
      BY DEF DuePending
    <2>2. WorkerType'
      BY <1>2, <2>1 DEF ListDue, table, WorkerType, Goto, Dispatching
    <2>3. TableType'
      BY <1>2 DEF ListDue, TableType, table
    <2>4. HistoryType'
      BY <1>2 DEF ListDue
    <2> QED
      BY <2>2, <2>3, <2>4
  <1>3. ASSUME NEW r \in RowId, Lease(w, r) PROVE TypeOK'
    <2>1. CASE NoFault /\ Leasable(r)
      <3>1. CASE /\ SetStatus(r, "processing")
                 /\ cur' = [cur EXCEPT ![w] = r]
                 /\ ctx' = [ctx EXCEPT ![w].step = row[r].step]
                 /\ Goto(w, "load")
        <4>1. row' \in [RowId -> Row]
          BY <3>1, SetStatusType DEF TableType, RowStatus
        <4>2. ctx' \in [Workers -> Context]
          BY <3>1 DEF WorkerType, TableType, Context, Row
        <4>3. WorkerType'
          BY <1>3, <3>1, <4>2, RowIds DEF Lease, WorkerType, Goto, Dispatching
        <4> QED
          BY <1>3, <4>1, <4>3 DEF Lease, TableType
      <3>2. CASE Skip(w, r)
        BY <1>3, <3>2 DEF Lease, Skip, TableType, WorkerType, Goto, Dispatching
      <3> QED
        BY <1>3, <3>1, <3>2 DEF Lease
    <2>2. CASE Skip(w, r)
      BY <1>3, <2>2 DEF Lease, Skip, TableType, WorkerType, Goto, Dispatching
    <2> QED
      BY <1>3, <2>1, <2>2 DEF Lease
  <1> QED
    BY <1>1, <1>2, <1>3

\* Before and during the call: only Load and the call write the context.
LEMMA CallType ==
  ASSUME TypeOK, NEW w \in Workers,
         Load(w) \/ Accepted(w) \/ ReplyLost(w) \/ Refused(w)
  PROVE  TypeOK'
  <1> USE DEF TypeOK, HistoryType, Fault, NoFault, ghost, table
  <1>1. ASSUME TakeEffect(w), pc[w] = "call"
        PROVE  /\ performed' \in [RowId -> Nat] /\ chats' \in [Prospects -> Nat]
               /\ ctx' \in [Workers -> Context]
    <2>1. cur[w] \in RowId /\ cur[w][1] \in Prospects
      BY <1>1, HeldRow, RowIds DEF Dispatching
    <2>2. chats[cur[w][1]] + 1 \in Nat
      BY <2>1
    <2>3. [ctx EXCEPT ![w].chat = chats[cur[w][1]] + 1] \in [Workers -> Context]
      BY <2>2 DEF WorkerType, Context
    <2> QED
      BY <1>1, <2>1, <2>3 DEF TakeEffect, WorkerType
  <1>2. CASE Load(w)
    <2>1. cur[w] \in RowId
      BY <1>2, HeldRow DEF Load, At, Dispatching
    <2>2. prospect[cur[w][1]].chat \in Nat
      BY <2>1, RowIds DEF TableType
    <2>3. StepExists(ctx[w].step) \in BOOLEAN
      BY DEF StepExists
    <2>4. ctx' \in [Workers -> Context]
      BY <1>2, <2>2, <2>3 DEF Load, WorkerType, Context
    <2>5. \E to \in Dispatching : At(w, "load") /\ Goto(w, to)
      BY <1>2 DEF Load, Dispatching
    <2>6. WorkerType'
      BY <2>4, <2>5, StaysType DEF Dispatching
    <2>7. HistoryType'
      BY <1>2, <2>1 DEF Load
    <2> QED
      BY <1>2, <2>6, <2>7 DEF Load, TableType
  <1>3. CASE Accepted(w)
    <2>1. WorkerType'
      BY <1>1, <1>3, StaysType DEF Accepted, At, Dispatching
    <2> QED
      BY <1>1, <1>3, <2>1 DEF Accepted, At, TableType
  <1>4. CASE ReplyLost(w)
    <2>1. cur[w] \in RowId
      BY <1>4, HeldRow DEF ReplyLost, At, Dispatching
    <2>2. WorkerType'
      BY <1>1, <1>4, StaysType DEF ReplyLost, At, Dispatching
    <2> QED
      BY <1>1, <1>4, <2>1, <2>2 DEF ReplyLost, At, TableType, Lapse
  <1>5. CASE Refused(w)
    <2>1. ctx' \in [Workers -> Context]
      BY <1>5 DEF Refused, WorkerType
    <2>2. WorkerType'
      BY <1>5, <2>1, StaysType DEF Refused, Dispatching
    <2> QED
      BY <1>5, <2>2 DEF Refused, TableType
  <1> QED
    BY <1>2, <1>3, <1>4, <1>5

\* After the call: the bookkeeping, and the statements that end the dispatch.
LEMMA SettleType ==
  ASSUME TypeOK, NEW w \in Workers,
         Bookkeep(w) \/ Mark(w) \/ SetWon(w) \/ Fail(w) \/ Release(w)
  PROVE  TypeOK'
  <1> USE DEF TypeOK, HistoryType, Fault, NoFault, ghost
  <1> DEFINE r == cur[w]
  <1>1. r \in RowId /\ r[1] \in Prospects
    BY HeldRow, RowIds DEF Bookkeep, Mark, SetWon, Fail, Release, At, Dispatching
  <1>2. CASE Bookkeep(w)
    <2>1. ctx[w].chat \in Nat
      BY DEF WorkerType, Context
    <2>2. prospect' \in [Prospects -> [status: {"queued", "invited", "won"}, chat: Nat]]
      BY <1>1, <1>2, <2>1 DEF Bookkeep, Invited, ChatStored, TableType
    <2>3. WorkerType'
      BY <1>2, StaysType DEF Bookkeep, WorkerType, Dispatching
    <2>4. HistoryType'
      BY <1>1, <1>2 DEF Bookkeep, Lapse
    <2> QED
      BY <1>2, <2>2, <2>3, <2>4 DEF Bookkeep, TableType
  <1>3. CASE Mark(w)
    <2>1. row' \in [RowId -> Row]
      BY <1>1, <1>3, SetStatusType DEF Mark, TableType, RowStatus
    <2>2. ctx' \in [Workers -> Context] /\ At(w, "mark")
      BY <1>3 DEF Mark, WorkerType
    <2>3. Goto(w, "won") \/ Goto(w, "chain")
      BY <1>3 DEF Mark
    <2>4. WorkerType'
      BY <2>2, <2>3, StaysType DEF Dispatching
    <2>5. HistoryType'
      BY <1>1, <1>3 DEF Mark, Lapse
    <2> QED
      BY <1>3, <2>1, <2>4, <2>5 DEF Mark, TableType
  <1>4. CASE SetWon(w)
    <2>1. prospect' \in [Prospects -> [status: {"queued", "invited", "won"}, chat: Nat]]
      BY <1>1, <1>4 DEF SetWon, TableType
    <2>2. WorkerType'
      BY <1>4, ReturnType DEF SetWon
    <2> QED
      BY <1>4, <2>1, <2>2 DEF SetWon, TableType
  <1>5. CASE Fail(w)
    <2>1. row' \in [RowId -> Row]
      BY <1>1, <1>5, SetStatusType DEF Fail, TableType, RowStatus
    <2>2. WorkerType'
      BY <1>5, ReturnType DEF Fail
    <2> QED
      BY <1>5, <2>1, <2>2 DEF Fail, TableType
  <1>6. CASE Release(w)
    <2>1. row' \in [RowId -> Row]
      BY <1>1, <1>6, SetStatusType DEF Release, TableType, RowStatus
    <2>2. WorkerType'
      BY <1>6, ReturnType DEF Release
    <2> QED
      BY <1>6, <2>1, <2>2 DEF Release, TableType
  <1> QED
    BY <1>2, <1>3, <1>4, <1>5, <1>6

\* scheduleNextStep.
LEMMA ChainType ==
  ASSUME TypeOK, NEW w \in Workers, LookupNext(w) \/ InsertNext(w)
  PROVE  TypeOK'
  <1> USE DEF TypeOK, HistoryType, Fault, NoFault, ghost, table
  <1>1. ctx[w].step \in StepId /\ ctx[w].next \in StepId
    BY DEF WorkerType, Context
  <1>2. CASE LookupNext(w)
    <2>1. CASE Return(w)
      BY <1>2, <2>1, ReturnType DEF LookupNext, TableType
    <2> DEFINE next == IF ctx[w].found THEN NextStep(ctx[w].step) ELSE NoStep
    <2>2. CASE /\ NoFault /\ next # NoStep
               /\ Goto(w, "insert")
               /\ ctx' = [ctx EXCEPT ![w].next = next]
               /\ UNCHANGED <<batch, cur>>
      <3>1. next \in StepId
        BY <1>1, NextStepType DEF NoStep, StepId
      <3>2. ctx' \in [Workers -> Context]
        BY <2>2, <3>1 DEF WorkerType, Context
      <3>3. WorkerType'
        BY <1>2, <2>2, <3>2, StaysType DEF LookupNext, At, Dispatching
      <3> QED
        BY <1>2, <2>2, <3>3 DEF LookupNext, TableType
    <2> QED
      BY <1>2, <2>1, <2>2 DEF LookupNext
  <1>3. CASE InsertNext(w)
    <2> DEFINE p == cur[w][1]
               s == ctx[w].next
    <2>1. p \in Prospects
      BY <1>3, HeldRow, RowIds DEF InsertNext, Dispatching
    <2>2. ASSUME MayInsert(p, s), NEW n \in 1..MaxRows,
                 row' = [row EXCEPT ![<<p, n>>] = NewRow(s, plan[s[2]])]
          PROVE  row' \in [RowId -> Row]
      <3>1. plan[s[2]] \in Kinds
        BY <2>2, PlanType DEF MayInsert, StepExists, TableType
      <3>2. NewRow(s, plan[s[2]]) \in Row
        BY <1>1, <3>1 DEF NewRow, Row, RowStatus
      <3> QED
        BY <2>1, <2>2, <3>2, RowIds DEF TableType
    <2>3. row' \in [RowId -> Row]
      BY <1>3, <2>2 DEF InsertNext, TableType
    <2>4. WorkerType'
      BY <1>3, ReturnType DEF InsertNext
    <2> QED
      BY <1>3, <2>3, <2>4 DEF InsertNext, TableType
  <1> QED
    BY <1>2, <1>3

\* Crashes, the passing of time and the operator.
LEMMA EnvironmentType ==
  ASSUME TypeOK,
         \/ \E w \in Workers : Crash(w)
         \/ \E r \in RowId : LeaseAges(r) \/ StepDue(r)
         \/ \E newPlan \in Plans : Replace(newPlan)
  PROVE  TypeOK'
  <1> USE DEF TypeOK, HistoryType, Fault, NoFault, ghost, table, worker
  <1>1. ASSUME NEW w \in Workers, Crash(w) PROVE TypeOK'
    <2>1. ctx' \in [Workers -> Context]
      BY <1>1 DEF Crash, WorkerType, Context, NoContext, StepId, NoStep
    <2>2. WorkerType'
      BY <1>1, <2>1, RowIds DEF Crash, WorkerType, Goto, Dispatching
    <2>3. pc[w] \in {"book", "mark"} => cur[w] \in RowId
      BY HeldRow DEF Dispatching
    <2> QED
      BY <1>1, <2>2, <2>3 DEF Crash, TableType, Lapse
  <1>2. ASSUME NEW r \in RowId, LeaseAges(r) PROVE TypeOK'
    <2>1. row' \in [RowId -> Row]
      BY <1>2 DEF LeaseAges, TableType, Row
    <2>2. WorkerType'
      BY <1>2 DEF LeaseAges, WorkerType
    <2> QED
      BY <1>2, <2>1, <2>2 DEF LeaseAges, TableType, Lapse
  <1>3. ASSUME NEW r \in RowId, StepDue(r) PROVE TypeOK'
    <2>1. row' \in [RowId -> Row]
      BY <1>3 DEF StepDue, TableType, Row
    <2>2. WorkerType'
      BY <1>3 DEF StepDue, WorkerType
    <2> QED
      BY <1>3, <2>1, <2>2 DEF StepDue, TableType
  <1>4. ASSUME NEW newPlan \in Plans, Replace(newPlan) PROVE TypeOK'
    <2>1. row' \in [RowId -> Row]
      BY <1>4 DEF Replace, TableType, Row, NoStep, StepId
    <2>2. WorkerType'
      BY <1>4 DEF Replace, WorkerType
    <2> QED
      BY <1>4, <2>1, <2>2 DEF Replace, TableType
  <1> QED
    BY <1>1, <1>2, <1>3, <1>4

\* TypeOK holds in every reachable state: no statement of dispatchStep leaves a
\* worker with a row it does not dispatch, whatever fails around it.
THEOREM TypeCorrect == Spec => []TypeOK
  <1>1. TypeOK /\ [Next]_vars => TypeOK'
    <2>1. ASSUME TypeOK, Next PROVE TypeOK'
      BY <2>1, TickType, CallType, SettleType, ChainType, EnvironmentType
      DEF Next, WorkerStep
    <2>2. ASSUME TypeOK, UNCHANGED vars PROVE TypeOK'
      BY <2>2 DEF TypeOK, TableType, WorkerType, HistoryType, vars, table, worker, ghost
    <2> QED
      BY <2>1, <2>2
  <1> QED
    BY <1>1, InitType, PTL DEF Spec

-----------------------------------------------------------------------------
(* The unique index and the foreign key                                    *)

\* A row is live when its step is not NULL and it has not failed.
LEMMA LiveRow ==
  ASSUME NEW r \in RowId
  PROVE  /\ Live(r) <=> /\ row[r].step # NoStep
                        /\ row[r].status \notin {"absent", "failed"}
         /\ Live(r)' <=> /\ row'[r].step # NoStep
                         /\ row'[r].status \notin {"absent", "failed"}
  BY DEF Live, Indexed

\* A statement that creates no row, changes no step and brings no row to life,
\* keeps References.
LEMMA ReferencesKept ==
  ASSUME References, UNCHANGED <<plan, version>>,
         \A r \in RowId : row'[r].step = row[r].step /\ (Live(r)' => Live(r))
  PROVE  References'
  <1>1. \A s : StepExists(s)' <=> StepExists(s)
    BY DEF StepExists
  <1> QED
    BY <1>1 DEF References

\* A status may change as long as the row does not become live beside another one.
LEMMA SetStatusReferences ==
  ASSUME TableType, References, UNCHANGED <<plan, version>>,
         NEW r \in RowId, NEW s \in RowStatus, SetStatus(r, s),
         \/ s = "failed"
         \/ row[r].status \in {"pending", "processing", "sent"}
         \/ Indexed(r[1], row[r].step) \subseteq {r}
  PROVE  References'
  <1>1. /\ row'[r].status = s /\ row'[r].step = row[r].step
        /\ \A q \in RowId \ {r} : row'[q] = row[q]
    BY WithStatusType DEF SetStatus, TableType
  <1>2. \A q \in RowId \ {r} : Live(q)' <=> Live(q)
    BY <1>1, LiveRow
  <1>3. \A q \in RowId : row'[q].step = row[q].step
    BY <1>1
  <1>4. CASE s = "failed" \/ row[r].status \in {"pending", "processing", "sent"}
    <2>1. Live(r)' => Live(r)
      BY <1>1, <1>4, LiveRow
    <2> QED
      BY <1>2, <1>3, <2>1, ReferencesKept
  <1>5. CASE Indexed(r[1], row[r].step) \subseteq {r}
    <2>1. \A q \in RowId \ {r} : Live(q) /\ q[1] = r[1] => row[q].step # row[r].step
      BY <1>5 DEF Indexed, Live
    <2>2. \A s1 : StepExists(s1)' <=> StepExists(s1)
      BY DEF StepExists
    <2> QED
      BY <1>2, <1>3, <2>1, <2>2 DEF References
  <1> QED
    BY <1>4, <1>5

\* Every prospect starts with one row, for the first step.
LEMMA ReferencesInit == Init => References
  <1> SUFFICES ASSUME Init PROVE References
    OBVIOUS
  <1>1. \A r \in RowId : Live(r) => r[2] = 1
    BY LiveRow DEF Init, Absent
  <1>2. \A r \in RowId : row[r].step # NoStep => row[r].step = <<1, 1>>
    BY DEF Init, NewRow, Absent
  <1>3. StepExists(<<1, 1>>)
    BY PlanType DEF Init, StepExists
  <1> QED
    BY <1>1, <1>2, <1>3, RowIds DEF References

\* CreateProspectStep adds a row whose step exists and is not indexed yet.
LEMMA InsertReferences ==
  ASSUME TypeOK, References, NEW w \in Workers, InsertNext(w)
  PROVE  References'
  <1> DEFINE p == cur[w][1]
             s == ctx[w].next
  <1>1. p \in Prospects
    BY HeldRow, RowIds DEF InsertNext, TypeOK, Dispatching
  <1>2. \A s1 : StepExists(s1)' <=> StepExists(s1)
    BY DEF InsertNext, StepExists
  <1>3. ASSUME MayInsert(p, s), NEW n \in 1..MaxRows,
               row' = [row EXCEPT ![<<p, n>>] = NewRow(s, plan[s[2]])]
        PROVE  References'
    <2> DEFINE new == <<p, n>>
    <2>1. new \in RowId /\ new[1] = p
      BY <1>1, RowIds
    <2>2. \A q \in RowId \ {new} : row'[q] = row[q]
      BY <1>3
    <2>3. row'[new].step = s
      BY <1>3, <2>1 DEF NewRow, TypeOK, TableType
    <2>4. \A q \in RowId \ {new} : Live(q)' <=> Live(q)
      BY <2>2, LiveRow
    <2>5. \A q \in RowId : Live(q) /\ q[1] = p => row[q].step # s
      BY <1>3 DEF MayInsert, Indexed, Live
    <2>6. StepExists(s)
      BY <1>3 DEF MayInsert
    <2>7. \A q \in RowId : row'[q].step # NoStep => StepExists(row[q].step)'
      <3>1. ASSUME NEW q \in RowId, row'[q].step # NoStep PROVE StepExists(row[q].step)'
        <4>1. CASE q = new
          BY <1>2, <2>3, <2>6, <4>1
        <4>2. CASE q # new
          BY <1>2, <2>2, <3>1, <4>2 DEF References
        <4> QED
          BY <4>1, <4>2
      <3> QED
        BY <3>1
    <2>8. \A q \in RowId \ {new} : Live(q)' /\ q[1] = p => row'[q].step # s
      BY <2>2, <2>4, <2>5
    <2> QED
      BY <2>1, <2>2, <2>3, <2>4, <2>7, <2>8 DEF References
  <1>4. CASE UNCHANGED row
    BY <1>4, ReferencesKept, LiveRow DEF InsertNext
  <1> QED
    BY <1>3, <1>4 DEF InsertNext

\* Every step keeps the foreign key and the unique index.
LEMMA ReferencesStep ==
  ASSUME TypeOK, References, Next
  PROVE  References'
  <1> USE DEF TypeOK, table
  <1>1. ASSUME UNCHANGED <<plan, version, row>> PROVE References'
    BY <1>1, ReferencesKept, LiveRow
  <1>2. ASSUME NEW w \in Workers, WorkerStep(w) PROVE References'
    <2>1. CASE ReleaseStale(w)
      <3>1. \A r \in RowId : row'[r].step = row[r].step /\ (Live(r)' => Live(r))
        BY <2>1, LiveRow, WithStatusType
        DEF ReleaseStale, Stale, RowStatus, TableType
      <3> QED
        BY <2>1, <3>1, ReferencesKept DEF ReleaseStale
    <2>2. CASE ListDue(w) \/ Load(w) \/ Accepted(w) \/ ReplyLost(w) \/ Refused(w)
                 \/ Bookkeep(w) \/ SetWon(w) \/ LookupNext(w)
      BY <1>1, <2>2
      DEF ListDue, Load, Accepted, ReplyLost, Refused, Bookkeep, SetWon, LookupNext
    <2>3. ASSUME NEW r \in RowId, Lease(w, r) PROVE References'
      <3>1. CASE UNCHANGED row
        BY <2>3, <3>1, <1>1 DEF Lease
      <3>2. CASE Leasable(r) /\ SetStatus(r, "processing")
        BY <2>3, <3>2, SetStatusReferences DEF Lease, Leasable, RowStatus
      <3> QED
        BY <2>3, <3>1, <3>2 DEF Lease, Skip
    <2>4. CASE Mark(w) \/ Fail(w) \/ Release(w)
      <3>1. cur[w] \in RowId
        BY <2>4, HeldRow DEF Mark, Fail, Release, At, Dispatching
      <3>2. CASE UNCHANGED row
        BY <2>4, <3>2, <1>1 DEF Mark, Fail, Release
      <3>3. CASE \/ SetStatus(cur[w], "failed")
                 \/ /\ row[cur[w]].status = "processing"
                    /\ SetStatus(cur[w], "pending")
                 \/ /\ Indexed(cur[w][1], row[cur[w]].step) \subseteq {cur[w]}
                    /\ SetStatus(cur[w], "sent")
        BY <2>4, <3>1, <3>3, SetStatusReferences DEF Mark, Fail, Release, RowStatus
      <3> QED
        BY <2>4, <3>2, <3>3 DEF Mark, Fail, Release
    <2> QED
      BY <1>2, <2>1, <2>2, <2>3, <2>4, InsertReferences DEF WorkerStep
  <1>3. ASSUME NEW w \in Workers, Crash(w) PROVE References'
    BY <1>1, <1>3 DEF Crash
  <1>4. ASSUME NEW r \in RowId, LeaseAges(r) \/ StepDue(r) PROVE References'
    <2>1. \A q \in RowId : row'[q].step = row[q].step /\ row'[q].status = row[q].status
      BY <1>4 DEF LeaseAges, StepDue, TableType, Row
    <2> QED
      BY <1>4, <2>1, ReferencesKept, LiveRow DEF LeaseAges, StepDue
  <1>5. ASSUME NEW newPlan \in Plans, Replace(newPlan) PROVE References'
    <2>1. \A q \in RowId : row'[q].step = NoStep
      BY <1>5 DEF Replace, TableType, Row
    <2> QED
      BY <2>1, LiveRow DEF References
  <1> QED
    BY <1>2, <1>3, <1>4, <1>5 DEF Next

\* The foreign key and the partial unique index are never at odds with a row: in
\* particular markStepSent, an update the index also guards, is never refused.
THEOREM ReferencesHold == Spec => []References
  <1>1. TypeOK /\ References /\ [Next]_vars => References'
    <2>1. ASSUME References, UNCHANGED vars PROVE References'
      BY <2>1, ReferencesKept, LiveRow DEF vars, table
    <2> QED
      BY <2>1, ReferencesStep
  <1> QED
    BY <1>1, ReferencesInit, TypeCorrect, PTL DEF Spec

-----------------------------------------------------------------------------
(* The lease                                                               *)

\* RowInv(r) reads only the status, the age and the history of r, who holds it
\* and where: what changes none of these keeps it.
LEMMA RowUndisturbed ==
  ASSUME NEW r \in RowId, RowInv(r),
         row'[r].status = row[r].status, row'[r].aged = row[r].aged,
         performed'[r] = performed[r],
         \A w \in Workers : /\ Holds(w, r)' <=> Holds(w, r)
                            /\ Holds(w, r) => pc'[w] = pc[w]
  PROVE  RowInv(r)'
  BY DEF RowInv

\* A worker that goes on inside dispatchStep stays the holder of its row, one
\* that returns holds nothing; neither concerns another worker or row.
LEMMA StaysHolds ==
  ASSUME WorkerType, NEW w \in Workers, NEW from \in Dispatching,
         NEW to \in Dispatching, At(w, from), Goto(w, to)
  PROVE  /\ Holds(w, cur[w]) /\ pc'[w] = to /\ pc[w] = from
         /\ \A v \in Workers, r \in RowId : Holds(v, r)' <=> Holds(v, r)
         /\ \A v \in Workers \ {w} : pc'[v] = pc[v]
         /\ \A r \in RowId : Holds(w, r) <=> r = cur[w]
  BY DEF WorkerType, At, Goto, Holds

\* A worker that returns gives up its row.
LEMMA ReturnHolds ==
  ASSUME WorkerType, NEW w \in Workers, Return(w)
  PROVE  /\ \A r \in RowId : ~Holds(w, r)'
         /\ \A v \in Workers \ {w}, r \in RowId :
              (Holds(v, r)' <=> Holds(v, r)) /\ pc'[v] = pc[v]
  BY RowIds DEF WorkerType, Return, Goto, Holds

\* The holder goes on: RowInv fixes the status and the history it must leave.
LEMMA HolderGoesOn ==
  ASSUME WorkerType, NEW w \in Workers, NEW from \in Dispatching,
         NEW to \in Dispatching, At(w, from), Goto(w, to),
         NEW r \in RowId, r = cur[w], RowInv(r),
         ~row'[r].aged,
         row'[r].status = (IF to \in AfterMark THEN "sent" ELSE "processing"),
         performed'[r] = (IF to \in BeforeCall THEN 0 ELSE 1)
  PROVE  RowInv(r)'
  <1>1. \A v \in Workers : Holds(v, r)' <=> v = w
    BY StaysHolds DEF RowInv
  <1>2. pc'[w] = to
    BY StaysHolds
  <1> QED
    BY <1>1, <1>2 DEF RowInv

\* The holder returns: its row is settled or free again.
LEMMA HolderReturns ==
  ASSUME WorkerType, NEW w \in Workers, Return(w),
         NEW r \in RowId, Holds(w, r), RowInv(r),
         performed'[r] = (IF row'[r].status = "sent" THEN 1 ELSE 0)
  PROVE  RowInv(r)'
  <1>1. \A v \in Workers : ~Holds(v, r)'
    BY ReturnHolds DEF RowInv
  <1> QED
    BY <1>1 DEF RowInv

\* What a worker does to its own row does not concern the others.
LEMMA OthersGoOn ==
  ASSUME WorkerType, NEW w \in Workers, NEW from \in Dispatching,
         NEW to \in Dispatching, At(w, from), Goto(w, to),
         NEW r \in RowId, r # cur[w], RowInv(r),
         row'[r] = row[r], performed'[r] = performed[r]
  PROVE  RowInv(r)'
  <1>1. \A v \in Workers : /\ Holds(v, r)' <=> Holds(v, r)
                           /\ Holds(v, r) => pc'[v] = pc[v]
    BY StaysHolds
  <1> QED
    BY <1>1, RowUndisturbed

\* Nor does its return.
LEMMA OthersReturn ==
  ASSUME WorkerType, NEW w \in Workers, Return(w),
         NEW r \in RowId, r # cur[w], RowInv(r),
         row'[r] = row[r], performed'[r] = performed[r]
  PROVE  RowInv(r)'
  <1>1. ~Holds(w, r)
    BY DEF Holds
  <1>2. \A v \in Workers : /\ Holds(v, r)' <=> Holds(v, r)
                           /\ Holds(v, r) => pc'[v] = pc[v]
    BY <1>1, ReturnHolds
  <1> QED
    BY <1>2, RowUndisturbed

\* Initially nobody holds a row and nothing was performed.
LEMMA LeaseInit == Init => LeaseDiscipline
  <1> SUFFICES ASSUME Init, NEW r \in RowId PROVE RowInv(r)
    BY DEF LeaseDiscipline
  <1>1. \A w \in Workers : ~Holds(w, r)
    BY DEF Init, Holds, Dispatching
  <1>2. row[r].status # "sent" /\ performed[r] = 0
    BY DEF Init, NewRow, Absent
  <1> QED
    BY <1>1, <1>2 DEF RowInv

\* Rows only lapse, they never recover.
LEMMA LapseGrows == ASSUME Next PROVE lapse \subseteq lapse'
  <1> USE DEF ghost, Lapse
  <1>1. ASSUME NEW w \in Workers, WorkerStep(w) PROVE lapse \subseteq lapse'
    BY <1>1 DEF WorkerStep, ReleaseStale, ListDue, Lease, Load, Accepted, ReplyLost,
                Refused, Bookkeep, Mark, SetWon, LookupNext, InsertNext, Fail, Release
  <1>2. ASSUME NEW w \in Workers, Crash(w) PROVE lapse \subseteq lapse'
    BY <1>2 DEF Crash
  <1>3. ASSUME NEW r \in RowId, LeaseAges(r) \/ StepDue(r) PROVE lapse \subseteq lapse'
    BY <1>3 DEF LeaseAges, StepDue
  <1> QED
    BY <1>1, <1>2, <1>3 DEF Next, Replace

\* The tick: a young lease is not stale, and only a pending row is leased.
LEMMA TickLease ==
  ASSUME TypeOK, LeaseDiscipline, NEW w \in Workers,
         ReleaseStale(w) \/ ListDue(w) \/ \E r \in RowId : Lease(w, r),
         NEW q \in RowId, q \notin lapse
  PROVE  RowInv(q)'
  <1> USE DEF TypeOK, ghost
  <1>1. RowInv(q)
    BY DEF LeaseDiscipline
  <1>2. ASSUME pc[w] \notin Dispatching, UNCHANGED cur,
               \E to : Goto(w, to) /\ to \notin Dispatching
        PROVE  \A v \in Workers : /\ Holds(v, q)' <=> Holds(v, q)
                                  /\ Holds(v, q) => pc'[v] = pc[v]
    BY <1>2 DEF Goto, Holds, WorkerType
  <1>3. CASE ReleaseStale(w)
    <2>1. \A v \in Workers : /\ Holds(v, q)' <=> Holds(v, q)
                             /\ Holds(v, q) => pc'[v] = pc[v]
      BY <1>2, <1>3 DEF ReleaseStale, Dispatching
    <2>2. CASE row'[q] = row[q]
      BY <1>1, <1>3, <2>1, <2>2, RowUndisturbed DEF ReleaseStale
    <2>3. CASE Stale(q) /\ row'[q] = WithStatus(q, "pending")
      <3>1. row'[q].status = "pending"
        BY <2>3, WithStatusType DEF TableType, RowStatus
      <3>2. \A v \in Workers : ~Holds(v, q)
        BY <1>1, <2>3 DEF RowInv, Stale
      <3>3. performed[q] = 0
        BY <1>1, <2>3, <3>2 DEF RowInv, Stale
      <3> QED
        BY <3>3, <1>3, <2>1, <3>1, <3>2 DEF RowInv, ReleaseStale
    <2> QED
      BY <1>3, <2>2, <2>3 DEF ReleaseStale
  <1>4. CASE ListDue(w)
    <2>1. \A v \in Workers : /\ Holds(v, q)' <=> Holds(v, q)
                             /\ Holds(v, q) => pc'[v] = pc[v]
      BY <1>2, <1>4 DEF ListDue, Dispatching
    <2> QED
      BY <1>1, <1>4, <2>1, RowUndisturbed DEF ListDue, table
  <1>5. ASSUME NEW r \in RowId, Lease(w, r) PROVE RowInv(q)'
    <2>1. CASE Skip(w, r)
      <3>1. \A v \in Workers : /\ Holds(v, q)' <=> Holds(v, q)
                               /\ Holds(v, q) => pc'[v] = pc[v]
        BY <1>2, <1>5, <2>1 DEF Lease, Skip, Dispatching
      <3> QED
        BY <1>1, <1>5, <2>1, <3>1, RowUndisturbed DEF Lease, Skip
    <2>2. CASE /\ Leasable(r) /\ SetStatus(r, "processing")
               /\ cur' = [cur EXCEPT ![w] = r] /\ Goto(w, "load")
      <3>1. performed'[q] = performed[q] /\ pc[w] = "work"
        BY <1>5 DEF Lease
      <3>2. /\ row'[r].status = "processing" /\ ~row'[r].aged
            /\ \A o \in RowId \ {r} : row'[o] = row[o]
        BY <2>2, SetStatusType DEF TableType, RowStatus
      <3>3. /\ \A v \in Workers \ {w} : /\ Holds(v, q)' <=> Holds(v, q)
                                        /\ pc'[v] = pc[v]
            /\ ~Holds(w, q) /\ pc'[w] = "load" /\ (Holds(w, q)' <=> q = r)
        BY <2>2, <3>1 DEF Goto, Holds, WorkerType, Dispatching
      <3>4. CASE q # r
        BY <1>1, <3>1, <3>2, <3>3, <3>4, RowUndisturbed
      <3>5. CASE q = r
        <4>1. row[q].status = "pending"
          BY <2>2, <3>5 DEF Leasable
        <4>2. (\A v \in Workers : ~Holds(v, q)) /\ performed[q] = 0
          BY <1>1, <4>1 DEF RowInv
        <4> QED
          BY <3>1, <3>2, <3>3, <3>5, <4>2 DEF RowInv, BeforeCall, AfterMark
      <3> QED
        BY <3>4, <3>5
    <2> QED
      BY <1>5, <2>1, <2>2 DEF Lease
  <1> QED
    BY <1>3, <1>4, <1>5

\* The call: accepted, it is counted and the holder is past it; lost, the row lapses.
LEMMA CallLease ==
  ASSUME TypeOK, LeaseDiscipline, NEW w \in Workers,
         Load(w) \/ Accepted(w) \/ ReplyLost(w) \/ Refused(w) \/ Bookkeep(w),
         NEW q \in RowId, q \notin lapse'
  PROVE  RowInv(q)'
  <1> USE DEF TypeOK, ghost, table
  <1> DEFINE r == cur[w]
  <1>1. r \in RowId /\ Holds(w, r)
    BY HeldRow
    DEF Holds, Load, Accepted, ReplyLost, Refused, Bookkeep, At, Dispatching
  <1>2. RowInv(q) /\ q \notin lapse
    BY DEF LeaseDiscipline, Load, Accepted, ReplyLost, Refused, Bookkeep, Lapse
  <1>3. UNCHANGED row
    BY DEF Load, Accepted, ReplyLost, Refused, Bookkeep
  <1>4. PICK from \in Dispatching, to \in Dispatching : At(w, from) /\ Goto(w, to)
    BY DEF Load, Accepted, ReplyLost, Refused, Bookkeep, Dispatching
  <1>5. CASE q # r
    <2>1. performed'[q] = performed[q]
      BY <1>1, <1>5
      DEF Load, Accepted, ReplyLost, Refused, Bookkeep, TakeEffect, HistoryType
    <2> QED
      BY <1>2, <1>3, <1>4, <1>5, <2>1, OthersGoOn
  <1>6. CASE q = r
    <2>1. ASSUME NEW here \in Dispatching, pc[w] = here, here \notin AfterMark
          PROVE  /\ row'[q].status = "processing" /\ ~row'[q].aged
                 /\ performed[q] = IF here \in BeforeCall THEN 0 ELSE 1
      BY <1>1, <1>2, <1>3, <1>6, <2>1 DEF RowInv
    <2>2. CASE Load(w)
      <3>1. row'[q].status = "processing" /\ ~row'[q].aged /\ performed[q] = 0
        BY <2>1, <2>2 DEF Load, At, Dispatching, BeforeCall, AfterMark
      <3>2. CASE /\ UNCHANGED performed
                 /\ Goto(w, "call") \/ Goto(w, "fail") \/ Goto(w, "release")
        BY <1>1, <1>2, <1>6, <2>2, <3>1, <3>2, HolderGoesOn
        DEF Load, Dispatching, BeforeCall, AfterMark
      <3>3. CASE performed' = [performed EXCEPT ![r] = @ + 1] /\ Goto(w, "mark")
        <4>1. performed'[q] = 1
          BY <1>1, <1>6, <3>1, <3>3 DEF HistoryType
        <4> QED
          BY <1>1, <1>2, <1>6, <2>2, <3>1, <3>3, <4>1, HolderGoesOn
          DEF Load, Dispatching, BeforeCall, AfterMark
      <3> QED
        BY <2>2, <3>2, <3>3 DEF Load
    <2>3. CASE Accepted(w)
      <3>1. row'[q].status = "processing" /\ ~row'[q].aged /\ performed[q] = 0
        BY <2>1, <2>3 DEF Accepted, At, Dispatching, BeforeCall, AfterMark
      <3>2. performed'[q] = 1
        BY <1>1, <1>6, <2>3, <3>1 DEF Accepted, TakeEffect, HistoryType
      <3> QED
        BY <1>1, <1>2, <1>6, <2>3, <3>1, <3>2, HolderGoesOn
        DEF Accepted, Dispatching, BeforeCall, AfterMark
    <2>4. CASE ReplyLost(w)
      BY <1>6, <2>4 DEF ReplyLost, Lapse
    <2>5. CASE Refused(w)
      <3>1. row'[q].status = "processing" /\ ~row'[q].aged /\ performed[q] = 0
        BY <2>1, <2>5 DEF Refused, At, Dispatching, BeforeCall, AfterMark
      <3> QED
        BY <1>1, <1>2, <1>6, <2>5, <3>1, HolderGoesOn
        DEF Refused, Dispatching, BeforeCall, AfterMark
    <2>6. CASE Bookkeep(w)
      <3>1. row'[q].status = "processing" /\ ~row'[q].aged /\ performed[q] = 1
        BY <2>1, <2>6 DEF Bookkeep, At, Dispatching, BeforeCall, AfterMark
      <3> QED
        BY <1>1, <1>2, <1>6, <2>6, <3>1, HolderGoesOn
        DEF Bookkeep, Dispatching, BeforeCall, AfterMark
    <2> QED
      BY <2>2, <2>3, <2>4, <2>5, <2>6
  <1> QED
    BY <1>5, <1>6

\* markStepSent is the one that turns a held row into a 'sent' one; the index lets
\* it through because a live row is its prospect's only one for its step.
LEMMA MarkLease ==
  ASSUME TypeOK, References, LeaseDiscipline, NEW w \in Workers, Mark(w),
         NEW q \in RowId, q \notin lapse'
  PROVE  RowInv(q)'
  <1> USE DEF TypeOK
  <1> DEFINE r == cur[w]
  <1>1. r \in RowId /\ Holds(w, r) /\ pc[w] = "mark"
    BY HeldRow DEF Holds, Mark, At, Dispatching
  <1>2. RowInv(q)
    BY DEF LeaseDiscipline, Mark, Lapse
  <1>3. performed'[q] = performed[q]
    BY DEF Mark
  <1>4. PICK to \in {"won", "chain"} : At(w, "mark") /\ Goto(w, to)
    BY DEF Mark
  <1>5. \A o \in RowId \ {r} : row'[o] = row[o]
    BY <1>1, SetStatusType DEF Mark, TableType, RowStatus
  <1>6. CASE q # r
    BY <1>2, <1>3, <1>4, <1>5, <1>6, OthersGoOn DEF Dispatching
  <1>7. CASE q = r
    <2>1. row[r].status = "processing" /\ performed[r] = 1
      BY <1>1, <1>2, <1>7 DEF RowInv, BeforeCall, AfterMark
    <2>2. \A o \in Indexed(r[1], row[r].step) : o = r
      <3> SUFFICES ASSUME NEW o \in Indexed(r[1], row[r].step) PROVE o = r
        OBVIOUS
      <3>1. /\ o \in RowId /\ o[1] = r[1] /\ row[o].step = row[r].step
            /\ row[r].step # NoStep /\ Live(o)
        BY DEF Indexed, Live
      <3>2. Live(r)
        BY <1>1, <2>1, <3>1, LiveRow
      <3> QED
        BY <1>1, <3>1, <3>2 DEF References
    <2>3. SetStatus(r, "sent")
      BY <1>7, <2>2 DEF Mark, Lapse
    <2>4. row'[r].status = "sent" /\ ~row'[r].aged
      BY <1>1, <2>3, SetStatusType DEF TableType, RowStatus
    <2> QED
      BY <1>1, <1>2, <1>3, <1>4, <1>7, <2>1, <2>4, HolderGoesOn
      DEF Dispatching, BeforeCall, AfterMark
  <1> QED
    BY <1>6, <1>7

\* The statements that end a dispatch.
LEMMA ReturnLease ==
  ASSUME TypeOK, LeaseDiscipline, NEW w \in Workers,
         SetWon(w) \/ Fail(w) \/ Release(w) \/ LookupNext(w) \/ InsertNext(w),
         NEW q \in RowId, q \notin lapse
  PROVE  RowInv(q)'
  <1> USE DEF TypeOK, ghost, table
  <1> DEFINE r == cur[w]
  <1>1. r \in RowId /\ Holds(w, r)
    BY HeldRow DEF Holds, SetWon, Fail, Release, LookupNext, InsertNext, At, Dispatching
  <1>2. RowInv(q) /\ performed'[q] = performed[q]
    BY DEF LeaseDiscipline, SetWon, Fail, Release, LookupNext, InsertNext
  <1>3. CASE SetWon(w) \/ (LookupNext(w) /\ Return(w))
    <2>1. CASE q = r
      <3>1. row'[q].status = "sent" /\ performed[q] = 1
        BY <1>1, <1>2, <1>3, <2>1
        DEF SetWon, LookupNext, RowInv, BeforeCall, AfterMark
      <3> QED
        BY <1>1, <1>2, <1>3, <2>1, <3>1, HolderReturns DEF SetWon
    <2>2. CASE q # r
      BY <1>2, <1>3, <2>2, OthersReturn DEF SetWon, LookupNext
    <2> QED
      BY <2>1, <2>2
  <1>4. CASE LookupNext(w) /\ Goto(w, "insert") /\ UNCHANGED <<batch, cur>>
    <2>1. At(w, "chain") /\ UNCHANGED row
      BY <1>4 DEF LookupNext, At
    <2>2. CASE q = r
      <3>1. row[q].status = "sent" /\ ~row[q].aged /\ performed[q] = 1
        BY <1>1, <1>2, <2>1, <2>2 DEF At, RowInv, BeforeCall, AfterMark
      <3> QED
        BY <1>2, <1>4, <2>1, <2>2, <3>1, HolderGoesOn
        DEF Dispatching, BeforeCall, AfterMark
    <2>3. CASE q # r
      BY <1>2, <1>4, <2>1, <2>3, OthersGoOn DEF Dispatching
    <2> QED
      BY <2>2, <2>3
  <1>5. CASE Fail(w) \/ Release(w)
    <2>1. \A o \in RowId \ {r} : row'[o] = row[o]
      BY <1>1, <1>5, SetStatusType DEF Fail, Release, TableType, RowStatus
    <2>2. row[r].status = "processing" => row'[r].status # "sent"
      BY <1>1, <1>5, SetStatusType DEF Fail, Release, TableType, RowStatus
    <2>3. CASE q = r
      <3>1. row[q].status = "processing" /\ performed[q] = 0
        BY <1>1, <1>2, <1>5, <2>3 DEF Fail, Release, RowInv, BeforeCall, AfterMark
      <3> QED
        BY <1>1, <1>2, <1>5, <2>2, <2>3, <3>1, HolderReturns DEF Fail, Release
    <2>4. CASE q # r
      BY <1>2, <1>5, <2>1, <2>4, OthersReturn DEF Fail, Release
    <2> QED
      BY <2>3, <2>4
  <1>6. CASE InsertNext(w)
    <2>1. pc[w] = "insert" /\ Return(w) /\ r[1] \in Prospects
      BY <1>1, <1>6, RowIds DEF InsertNext
    <2>2. CASE row'[q] = row[q]
      <3>1. CASE q = r
        <4>1. row[q].status = "sent" /\ performed[q] = 1
          BY <1>1, <1>2, <2>1, <3>1 DEF RowInv, BeforeCall, AfterMark
        <4> QED
          BY <1>1, <1>2, <2>1, <2>2, <3>1, <4>1, HolderReturns
      <3>2. CASE q # r
        BY <1>2, <2>1, <2>2, <3>2, OthersReturn
      <3> QED
        BY <3>1, <3>2
    <2>3. ASSUME NEW n \in 1..MaxRows, row[<<r[1], n>>].status = "absent",
                 row' = [row EXCEPT ![<<r[1], n>>] = NewRow(ctx[w].next, plan[ctx[w].next[2]])]
          PROVE  RowInv(q)'
      <3> DEFINE new == <<r[1], n>>
      <3>1. new \in RowId
        BY <2>1, RowIds
      <3>2. CASE q # new
        BY <2>2, <2>3, <3>2
      <3>3. CASE q = new
        <4>1. row[q].status = "absent" /\ row'[q].status = "pending"
          BY <2>3, <3>1, <3>3 DEF NewRow, TableType
        <4>2. (\A v \in Workers : ~Holds(v, q)) /\ performed[q] = 0
          BY <1>2, <4>1 DEF RowInv
        <4>3. \A v \in Workers : ~Holds(v, q)'
          BY <2>1, <4>2, ReturnHolds
        <4> QED
          BY <1>2, <4>1, <4>2, <4>3 DEF RowInv
      <3> QED
        BY <3>2, <3>3
    <2> QED
      BY <1>6, <2>2, <2>3 DEF InsertNext
  <1> QED
    BY <1>3, <1>4, <1>5, <1>6 DEF LookupNext

\* A crash after the call, and a lease that ages under its holder, lapse the row;
\* time and the operator change nothing RowInv reads.
LEMMA EnvironmentLease ==
  ASSUME TypeOK, LeaseDiscipline,
         \/ \E w \in Workers : Crash(w)
         \/ \E r \in RowId : LeaseAges(r) \/ StepDue(r)
         \/ \E newPlan \in Plans : Replace(newPlan),
         NEW q \in RowId, q \notin lapse', lapse \subseteq lapse'
  PROVE  RowInv(q)'
  <1> USE DEF TypeOK, ghost, table, worker
  <1>1. RowInv(q)
    BY DEF LeaseDiscipline
  <1>2. ASSUME NEW w \in Workers, Crash(w) PROVE RowInv(q)'
    <2>1. /\ ~Holds(w, q)'
          /\ \A v \in Workers \ {w} : (Holds(v, q)' <=> Holds(v, q)) /\ pc'[v] = pc[v]
      BY <1>2, RowIds DEF Crash, Goto, Holds, WorkerType
    <2>2. CASE Holds(w, q)
      <3>1. performed[q] = IF row[q].status = "sent" THEN 1 ELSE 0
        BY <1>1, <1>2, <2>2
        DEF RowInv, Crash, Lapse, Holds, Dispatching, BeforeCall, AfterMark
      <3>2. \A v \in Workers : ~Holds(v, q)'
        BY <1>1, <2>1, <2>2 DEF RowInv
      <3> QED
        BY <1>2, <3>1, <3>2 DEF RowInv, Crash
    <2>3. CASE ~Holds(w, q)
      BY <1>1, <1>2, <2>1, <2>3, RowUndisturbed DEF Crash
    <2> QED
      BY <2>2, <2>3
  <1>3. ASSUME NEW r \in RowId, LeaseAges(r) PROVE RowInv(q)'
    <2>1. /\ row'[q].status = row[q].status
          /\ q # r => row'[q].aged = row[q].aged
      BY <1>3 DEF LeaseAges, TableType, Row
    <2>2. \A v \in Workers : (Holds(v, q)' <=> Holds(v, q)) /\ pc'[v] = pc[v]
      BY <1>3 DEF LeaseAges, Holds
    <2>3. CASE q # r
      BY <1>1, <1>3, <2>1, <2>2, <2>3, RowUndisturbed DEF LeaseAges
    <2>4. CASE q = r
      <3>1. \A w \in Workers : ~Holds(w, q)
        BY <1>3, <2>4 DEF LeaseAges, Lapse
      <3> QED
        BY <1>1, <1>3, <2>1, <2>2, <3>1 DEF RowInv, LeaseAges
    <2> QED
      BY <2>3, <2>4
  <1>4. ASSUME NEW r \in RowId, StepDue(r) PROVE RowInv(q)'
    <2>1. row'[q].status = row[q].status /\ row'[q].aged = row[q].aged
      BY <1>4 DEF StepDue, TableType, Row
    <2>2. \A v \in Workers : (Holds(v, q)' <=> Holds(v, q)) /\ pc'[v] = pc[v]
      BY <1>4 DEF StepDue, Holds
    <2> QED
      BY <1>1, <1>4, <2>1, <2>2, RowUndisturbed DEF StepDue
  <1>5. ASSUME NEW newPlan \in Plans, Replace(newPlan) PROVE RowInv(q)'
    <2>1. row'[q].status = row[q].status /\ row'[q].aged = row[q].aged
      BY <1>5 DEF Replace, TableType, Row
    <2>2. \A v \in Workers : (Holds(v, q)' <=> Holds(v, q)) /\ pc'[v] = pc[v]
      BY <1>5 DEF Replace, Holds
    <2> QED
      BY <1>1, <1>5, <2>1, <2>2, RowUndisturbed DEF Replace
  <1> QED
    BY <1>2, <1>3, <1>4, <1>5

\* Every step keeps LeaseDiscipline.
LEMMA LeaseStep ==
  ASSUME TypeOK, References, LeaseDiscipline, Next
  PROVE  LeaseDiscipline'
  <1> SUFFICES ASSUME NEW q \in RowId, q \notin lapse' PROVE RowInv(q)'
    BY RowIds DEF LeaseDiscipline, RowId
  <1>1. lapse \subseteq lapse'
    BY LapseGrows
  <1>2. ASSUME NEW w \in Workers, WorkerStep(w) PROVE RowInv(q)'
    BY <1>1, <1>2, TickLease, CallLease, MarkLease, ReturnLease DEF WorkerStep
  <1> QED
    BY <1>1, <1>2, EnvironmentLease DEF Next

\* For rows that have not lapsed, holder, status and history agree in every
\* reachable state, whatever ticks, crashes, ages or is edited.
THEOREM LeaseCorrect == Spec => []LeaseDiscipline
  <1>1. TypeOK /\ References /\ LeaseDiscipline /\ [Next]_vars => LeaseDiscipline'
    <2>1. ASSUME LeaseDiscipline, UNCHANGED vars PROVE LeaseDiscipline'
      <3>1. \A q \in RowId : RowInv(q) => RowInv(q)'
        BY <2>1 DEF vars, table, worker, ghost, RowInv, Holds
      <3> QED
        BY <2>1, <3>1 DEF LeaseDiscipline, vars, ghost
    <2> QED
      BY <2>1, LeaseStep
  <1> QED
    BY <1>1, LeaseInit, ReferencesHold, TypeCorrect, PTL DEF Spec

\* LeaseProspectStep is a lock: only a lapsed row is ever in two workers' hands.
THEOREM LeaseIsExclusive == Spec => []ExclusiveLease
  <1>1. LeaseDiscipline => ExclusiveLease
    BY DEF LeaseDiscipline, RowInv, ExclusiveLease
  <1> QED
    BY <1>1, LeaseCorrect, PTL

\* A duplicate invitation or message has one of the causes that set `lapse`.
THEOREM NoDuplicateWithoutLapse == Spec => []DuplicateNeedsLapse
  <1>1. TypeOK /\ LeaseDiscipline => DuplicateNeedsLapse
    <2> SUFFICES ASSUME LeaseDiscipline, NEW r \in RowId, r \notin lapse
                 PROVE  ~(performed[r] > 1)
      BY DEF DuplicateNeedsLapse
    <2>1. performed[r] \in {0, 1}
      BY DEF LeaseDiscipline, RowInv
    <2> QED
      BY <2>1
  <1> QED
    BY <1>1, LeaseCorrect, TypeCorrect, PTL

\* What LinkedIn has carried out is recorded as sent once no worker is busy with it.
THEOREM RecordsAccepted == Spec => []AcceptedIsRecorded
  <1>1. LeaseDiscipline => AcceptedIsRecorded
    <2> SUFFICES ASSUME LeaseDiscipline, NEW r \in RowId \ lapse, performed[r] > 0,
                        \A w \in Workers : ~Holds(w, r)
                 PROVE  row[r].status = "sent"
      BY DEF AcceptedIsRecorded
    <2> QED
      BY DEF LeaseDiscipline, RowInv
  <1> QED
    BY <1>1, LeaseCorrect, PTL

\* No statement takes a row that has not lapsed out of 'sent'.
THEOREM SentStaysSent == Spec => SentIsFinal
  <1>1. TypeOK /\ LeaseDiscipline /\ [Next]_vars =>
          [\A r \in RowId : row[r].status = "sent" /\ row'[r].status # "sent"
                              => r \in lapse']_vars
    <2> SUFFICES ASSUME TypeOK, LeaseDiscipline, Next, NEW r \in RowId, r \notin lapse',
                        row[r].status = "sent"
                 PROVE  row'[r].status = "sent"
      OBVIOUS
    <2> USE DEF TypeOK, table
    <2>1. r \notin lapse /\ RowInv(r)
      BY LapseGrows DEF LeaseDiscipline
    <2>2. ASSUME NEW w \in Workers, WorkerStep(w) PROVE row'[r].status = "sent"
      <3>1. CASE UNCHANGED row
        BY <3>1
      <3>2. CASE ReleaseStale(w)
        BY <3>2 DEF ReleaseStale, Stale
      <3>3. ASSUME NEW q \in RowId, Lease(w, q) PROVE row'[r].status = "sent"
        BY <3>3, SetStatusType DEF Lease, Skip, Leasable, TableType, RowStatus
      <3>4. CASE Mark(w)
        <4>1. cur[w] \in RowId
          BY <3>4, HeldRow DEF Mark, At, Dispatching
        <4> QED
          BY <3>4, <4>1, SetStatusType DEF Mark, TableType, RowStatus
      <3>5. CASE Fail(w) \/ Release(w)
        <4>1. cur[w] \in RowId /\ Holds(w, cur[w])
          BY <3>5, HeldRow DEF Fail, Release, Dispatching, Holds
        <4>2. cur[w] # r
          BY <2>1, <3>5, <4>1 DEF Fail, Release, RowInv, AfterMark
        <4> QED
          BY <3>5, <4>1, <4>2, SetStatusType DEF Fail, Release, TableType, RowStatus
      <3>6. CASE InsertNext(w)
        BY <3>6 DEF InsertNext, TableType
      <3> QED
        BY <2>2, <3>1, <3>2, <3>3, <3>4, <3>5, <3>6
        DEF WorkerStep, ListDue, Load, Accepted, ReplyLost, Refused, Bookkeep,
            SetWon, LookupNext
    <2>3. ASSUME \/ \E w \in Workers : Crash(w)
                 \/ \E q \in RowId : LeaseAges(q) \/ StepDue(q)
                 \/ \E newPlan \in Plans : Replace(newPlan)
          PROVE  row'[r].status = row[r].status
      BY <2>3 DEF Crash, LeaseAges, StepDue, Replace, TableType, Row
    <2> QED
      BY <2>2, <2>3 DEF Next
  <1> QED
    BY <1>1, LeaseCorrect, TypeCorrect, PTL DEF Spec, SentIsFinal
=============================================================================
