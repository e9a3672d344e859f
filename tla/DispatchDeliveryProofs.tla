----------------------- MODULE DispatchDeliveryProofs -----------------------
(***************************************************************************)
(* A prospect's sequence: the campaign loop implements StepDelivery, and   *)
(* goes in order and in one conversation, for any number of workers,       *)
(* prospects and faults.  On top of the lease discipline this needs that   *)
(* the right to carry a prospect's sequence on, its token, is in one place *)
(* - with the open row, or with the worker that still has to insert it -   *)
(* and that what dispatchStep read before the call still fits when it is   *)
(* used after it: the step id for scheduleNextStep, because a replaced     *)
(* sequence gets new ids, and the chat id, because no other worker is busy *)
(* with the prospect.  And a chain that stops early was stopped by a fault *)
(* or an edit: what the workers remember of their step is still true.      *)
(***************************************************************************)
EXTENDS DispatchDelivery, CampaignDispatchProofs

-----------------------------------------------------------------------------
(* One open step per prospect                                              *)

Token(r) == Open(r) \/ \E w \in Workers : Holds(w, r)
OneToken ==
  \A q, r \in RowId : q[1] = r[1] /\ Token(q) /\ Token(r) /\ ~Lapsed(r[1]) => q = r

\* The rows of a prospect that has not lapsed obey the lease discipline.
LEMMA UnlapsedRow ==
  ASSUME LeaseDiscipline, NEW r \in RowId, ~Lapsed(r[1])
  PROVE  r \notin lapse /\ RowInv(r)
  BY DEF Lapsed, LeaseDiscipline

\* One statement moves one row: who is open and held afterwards was it before.
LEMMA HeldTokenKept ==
  ASSUME TypeOK, NEW w \in Workers,
         \/ Load(w) \/ Accepted(w) \/ ReplyLost(w) \/ Refused(w) \/ Bookkeep(w)
         \/ Mark(w) \/ SetWon(w) \/ LookupNext(w) \/ Fail(w) \/ Release(w),
         NEW q \in RowId, Token(q)'
  PROVE  Token(q)
  <1> USE DEF TypeOK, table
  <1> DEFINE r == cur[w]
  <1>1. r \in RowId /\ Holds(w, r)
    BY HeldRow DEF Holds, Load, Accepted, ReplyLost, Refused, Bookkeep, Mark, SetWon,
                   LookupNext, Fail, Release, At, Dispatching
  <1>2. \A o \in RowId \ {r} : row'[o] = row[o]
    BY <1>1, SetStatusType DEF Load, Accepted, ReplyLost, Refused, Bookkeep, Mark,
       SetWon, LookupNext, Fail, Release, TableType, RowStatus
  <1>3. \A v \in Workers : Holds(v, q)' => Holds(v, q)
    <2>1. CASE Return(w)
      BY <2>1, ReturnHolds
    <2>2. CASE \E from, to \in Dispatching : At(w, from) /\ Goto(w, to)
      BY <2>2, StaysHolds
    <2>3. CASE LookupNext(w)
      <3>1. CASE Goto(w, "insert") /\ UNCHANGED <<batch, cur>>
        BY <2>3, <3>1, <2>2 DEF LookupNext, At, Dispatching
      <3> QED
        BY <2>1, <2>3, <3>1 DEF LookupNext
    <2> QED
      BY <2>1, <2>2, <2>3 DEF Load, Accepted, ReplyLost, Refused, Bookkeep, Mark,
         SetWon, Fail, Release, Dispatching
  <1> QED
    BY <1>1, <1>2, <1>3 DEF Token, Open

\* Only CreateProspectStep makes a token.
LEMMA TokenKept ==
  ASSUME TypeOK, Next, ~\E w \in Workers : InsertNext(w), NEW q \in RowId, Token(q)'
  PROVE  Token(q)
  <1> USE DEF TypeOK, table, worker
  <1>1. ASSUME Open(q)' => Open(q), \A v \in Workers : Holds(v, q)' => Holds(v, q)
        PROVE  Token(q)
    BY <1>1 DEF Token
  <1>2. ASSUME NEW w \in Workers, WorkerStep(w) PROVE Token(q)
    <2>1. ASSUME pc[w] \notin Dispatching, UNCHANGED cur,
                 \E to : Goto(w, to) /\ to \notin Dispatching
          PROVE  \A v \in Workers : Holds(v, q)' => Holds(v, q)
      BY <2>1 DEF Goto, Holds, WorkerType
    <2>2. CASE ReleaseStale(w)
      <3>1. \A v \in Workers : Holds(v, q)' => Holds(v, q)
        BY <2>1, <2>2 DEF ReleaseStale, Dispatching
      <3>2. Open(q)' => Open(q)
        BY <2>2 DEF ReleaseStale, Stale, Open
      <3> QED
        BY <1>1, <3>1, <3>2
    <2>3. CASE ListDue(w)
      <3>1. \A v \in Workers : Holds(v, q)' => Holds(v, q)
        BY <2>1, <2>3 DEF ListDue, Dispatching
      <3> QED
        BY <1>1, <2>3, <3>1 DEF ListDue, Open
    <2>4. ASSUME NEW r \in RowId, Lease(w, r) PROVE Token(q)
      <3>1. CASE Skip(w, r)
        <4>1. \A v \in Workers : Holds(v, q)' => Holds(v, q)
          BY <2>1, <2>4, <3>1 DEF Lease, Skip, Dispatching
        <4> QED
          BY <1>1, <3>1, <4>1 DEF Skip, Open
      <3>2. CASE Leasable(r) /\ SetStatus(r, "processing")
                 /\ cur' = [cur EXCEPT ![w] = r] /\ Goto(w, "load")
        <4>1. \A o \in RowId \ {r} : row'[o] = row[o]
          BY <3>2, SetStatusType DEF TableType, RowStatus
        <4>2. CASE q = r
          BY <3>2, <4>2 DEF Leasable, Token, Open
        <4>3. CASE q # r
          <5>1. \A v \in Workers : Holds(v, q)' => Holds(v, q)
            BY <3>2, <4>3 DEF Goto, Holds, WorkerType
          <5> QED
            BY <1>1, <4>1, <4>3, <5>1 DEF Open
        <4> QED
          BY <4>2, <4>3
      <3> QED
        BY <2>4, <3>1, <3>2 DEF Lease
    <2> QED
      BY <1>2, <2>2, <2>3, <2>4, HeldTokenKept DEF WorkerStep
  <1>3. ASSUME NEW w \in Workers, Crash(w) PROVE Token(q)
    <2>1. \A v \in Workers : Holds(v, q)' => Holds(v, q)
      BY <1>3, RowIds DEF Crash, Goto, Holds, WorkerType
    <2> QED
      BY <1>1, <1>3, <2>1 DEF Crash, Open
  <1>4. ASSUME NEW r \in RowId, LeaseAges(r) \/ StepDue(r) PROVE Token(q)
    <2>1. row'[q].status = row[q].status /\ UNCHANGED <<pc, cur>>
      BY <1>4 DEF LeaseAges, StepDue, TableType, Row
    <2> QED
      BY <1>1, <2>1 DEF Open, Holds
  <1>5. ASSUME NEW newPlan \in Plans, Replace(newPlan) PROVE Token(q)
    <2>1. row'[q].status = row[q].status /\ UNCHANGED <<pc, cur>>
      BY <1>5 DEF Replace, TableType, Row
    <2> QED
      BY <1>1, <2>1 DEF Open, Holds
  <1> QED
    BY <1>2, <1>3, <1>4, <1>5 DEF Next

\* CreateProspectStep hands the token on: its worker held the only one, and lets
\* the row go in the same step.
LEMMA InsertToken ==
  ASSUME TypeOK, LeaseDiscipline, OneToken, NEW w \in Workers, InsertNext(w)
  PROVE  OneToken'
  <1> USE DEF TypeOK
  <1> DEFINE r == cur[w]
  <1>1. r \in RowId /\ Holds(w, r) /\ pc[w] = "insert" /\ Return(w)
    BY HeldRow DEF Holds, InsertNext, Dispatching
  <1>2. lapse' = lapse /\ \A q \in RowId, v \in Workers : Holds(v, q)' => Holds(v, q)
    BY <1>1, ReturnHolds DEF InsertNext, ghost
  <1>3. CASE UNCHANGED row
    <2>1. \A q \in RowId : Token(q)' => Token(q)
      BY <1>2, <1>3 DEF Token, Open
    <2> QED
      BY <1>2, <2>1 DEF OneToken, Lapsed
  <1>4. ASSUME NEW n \in 1..MaxRows, row[<<r[1], n>>].status = "absent",
               row' = [row EXCEPT ![<<r[1], n>>] = NewRow(ctx[w].next, plan[ctx[w].next[2]])]
        PROVE  OneToken'
    <2> DEFINE new == <<r[1], n>>
    <2>1. new \in RowId /\ new[1] = r[1]
      BY <1>1, RowIds
    <2>2. \A q \in RowId \ {new} : row'[q] = row[q]
      BY <1>4
    <2>3. \A q \in RowId \ {new} : Token(q)' => Token(q)
      BY <1>2, <2>2 DEF Token, Open
    <2>4. ASSUME NEW q \in RowId \ {new}, q[1] = r[1], Token(q)', ~Lapsed(q[1])
          PROVE  FALSE
      <3>1. q = r
        BY <1>1, <2>3, <2>4 DEF OneToken, Token
      <3>2. RowInv(r)
        BY <1>1, <2>4, UnlapsedRow
      <3>3. row[r].status = "sent" /\ \A v \in Workers : Holds(v, r) => v = w
        BY <1>1, <3>2 DEF RowInv, AfterMark
      <3>4. row'[r].status = "sent"
        BY <2>2, <2>4, <3>1, <3>3
      <3>5. \A v \in Workers : ~Holds(v, q)'
        BY <1>1, <1>2, <3>1, <3>3, ReturnHolds
      <3> QED
        BY <2>4, <3>1, <3>4, <3>5 DEF Token, Open
    <2>5. ASSUME NEW p \in RowId, NEW q \in RowId, p[1] = q[1], Token(p)', Token(q)',
                 ~Lapsed(q[1])'
          PROVE  p = q
      <3>1. ~Lapsed(q[1])
        BY <1>2, <2>5 DEF Lapsed
      <3>2. CASE p = new \/ q = new
        BY <2>1, <2>4, <2>5, <3>1, <3>2
      <3>3. CASE p # new /\ q # new
        BY <2>3, <2>5, <3>1, <3>3 DEF OneToken
      <3> QED
        BY <3>2, <3>3
    <2> QED
      BY <2>5 DEF OneToken
  <1> QED
    BY <1>3, <1>4 DEF InsertNext

\* Every prospect starts with one open row, held by nobody.
LEMMA TokenInit == Init => OneToken
  <1> SUFFICES ASSUME Init, NEW q \in RowId, NEW r \in RowId, q[1] = r[1],
                      Token(q), Token(r)
               PROVE  q = r
    BY DEF OneToken
  <1>1. \A o \in RowId : Token(o) => o[2] = 1
    BY DEF Init, Token, Open, Holds, Dispatching, Absent
  <1> QED
    BY <1>1, RowIds

\* The token of a prospect that has not lapsed is never in two places.
LEMMA TokenCorrect == Spec => []OneToken
  <1>1. ASSUME TypeOK, LeaseDiscipline, OneToken, [Next]_vars PROVE OneToken'
    <2>1. CASE UNCHANGED vars
      BY <1>1, <2>1
      DEF OneToken, Token, Open, Holds, Lapsed, vars, table, worker, ghost
    <2>2. CASE \E w \in Workers : InsertNext(w)
      BY <1>1, <2>2, InsertToken
    <2>3. CASE Next /\ ~\E w \in Workers : InsertNext(w)
      <3>1. \A q \in RowId : Token(q)' => Token(q)
        BY <1>1, <2>3, TokenKept
      <3>2. \A q \in RowId : Lapsed(q[1]) => Lapsed(q[1])'
        BY <2>3, LapseGrows DEF Lapsed
      <3> QED
        BY <1>1, <3>1, <3>2 DEF OneToken
    <2> QED
      BY <1>1, <2>1, <2>2, <2>3
  <1> QED
    BY <1>1, TokenInit, LeaseCorrect, TypeCorrect, PTL DEF Spec

\* A prospect is in one place of its sequence: without a lapse at most one of its
\* rows is still to be dispatched.
THEOREM OneStepIsOpen == Spec => []OneOpenStep
  <1>1. OneToken => OneOpenStep
    BY DEF OneToken, OneOpenStep, Token
  <1> QED
    BY <1>1, TokenCorrect, PTL

-----------------------------------------------------------------------------
(* The refinement                                                          *)

\* Where it stands, a worker past the call holds a row whose step took effect.
AfterCall == {"book", "mark", "won", "chain", "insert"}
\* A row that lapsed or is held is there, and past the call it was performed.
Present ==
  /\ \A r \in RowId : (r \in lapse \/ \E w \in Workers : Holds(w, r))
                        => row[r].status # "absent"
  /\ \A w \in Workers : pc[w] \in AfterCall => performed[cur[w]] > 0

\* Rows do not vanish, and what took effect is not undone.
LEMMA NothingVanishes ==
  ASSUME TypeOK, Next, NEW r \in RowId
  PROVE  /\ row[r].status # "absent" => row'[r].status # "absent"
         /\ performed'[r] \in Nat /\ performed'[r] >= performed[r]
  <1> USE DEF TypeOK, table, ghost
  <1>1. performed[r] \in Nat
    BY DEF HistoryType
  <1>2. ASSUME NEW w \in Workers, WorkerStep(w)
        PROVE  /\ row[r].status # "absent" => row'[r].status # "absent"
               /\ performed'[r] = performed[r] \/ performed'[r] = performed[r] + 1
    <2>1. CASE ReleaseStale(w)
      BY <2>1, WithStatusType DEF ReleaseStale, TableType, RowStatus
    <2>2. ASSUME NEW q \in RowId, Lease(w, q)
          PROVE  /\ row[r].status # "absent" => row'[r].status # "absent"
                 /\ performed'[r] = performed[r]
      BY <2>2, SetStatusType DEF Lease, Skip, TableType, RowStatus
    <2>3. CASE Load(w) \/ Accepted(w) \/ ReplyLost(w)
      <3>1. UNCHANGED row
        BY <2>3 DEF Load, Accepted, ReplyLost
      <3>2. UNCHANGED performed \/ performed' = [performed EXCEPT ![cur[w]] = @ + 1]
        BY <2>3 DEF Load, Accepted, ReplyLost, TakeEffect
      <3> QED
        BY <3>1, <3>2 DEF HistoryType
    <2>4. CASE Mark(w) \/ Fail(w) \/ Release(w)
      <3>1. cur[w] \in RowId
        BY <2>4, HeldRow DEF Mark, Fail, Release, At, Dispatching
      <3> QED
        BY <2>4, <3>1, SetStatusType DEF Mark, Fail, Release, TableType, RowStatus
    <2>5. CASE InsertNext(w)
      BY <2>5 DEF InsertNext, NewRow, TableType
    <2>6. CASE ListDue(w) \/ Refused(w) \/ Bookkeep(w) \/ SetWon(w) \/ LookupNext(w)
      BY <2>6 DEF ListDue, Refused, Bookkeep, SetWon, LookupNext
    <2> QED
      BY <1>2, <2>1, <2>2, <2>3, <2>4, <2>5, <2>6 DEF WorkerStep
  <1>3. ASSUME \/ \E w \in Workers : Crash(w)
               \/ \E q \in RowId : LeaseAges(q) \/ StepDue(q)
               \/ \E newPlan \in Plans : Replace(newPlan)
        PROVE  row'[r].status = row[r].status /\ performed'[r] = performed[r]
    BY <1>3 DEF Crash, LeaseAges, StepDue, Replace, TableType, Row
  <1> QED
    BY <1>1, <1>2, <1>3 DEF Next

\* A row is held, or lapses, only when it is there.
LEMMA HeldIsPresent ==
  ASSUME TypeOK, Present, Next, NEW r \in RowId,
         r \in lapse' \/ \E w \in Workers : Holds(w, r)'
  PROVE  row'[r].status # "absent"
  <1> USE DEF TypeOK, ghost
  <1>1. CASE r \in lapse \/ Open(r) \/ \E w \in Workers : Holds(w, r)
    BY <1>1, NothingVanishes DEF Present, Open
  <1>2. CASE ~(r \in lapse \/ Open(r) \/ \E w \in Workers : Holds(w, r))
    <2>1. ASSUME NEW w \in Workers, InsertNext(w) PROVE FALSE
      <3>1. \A v \in Workers : ~Holds(v, r)'
        BY <1>2, <2>1, ReturnHolds DEF InsertNext
      <3> QED
        BY <1>2, <2>1, <3>1 DEF InsertNext
    <2>2. ~\E w \in Workers : Holds(w, r)'
      BY <1>2, <2>1, TokenKept DEF Token
    <2>3. r \in lapse' \ lapse
      BY <1>2, <2>2
    <2>4. ASSUME NEW w \in Workers, WorkerStep(w) PROVE FALSE
      <3>1. Lapse(cur[w]) /\ pc[w] \in Dispatching
        BY <2>3, <2>4 DEF WorkerStep, ReleaseStale, ListDue, Lease, Load, Accepted,
           ReplyLost, Refused, Bookkeep, Mark, SetWon, LookupNext, InsertNext, Fail,
           Release, At, Dispatching
      <3> QED
        BY <1>2, <2>3, <3>1 DEF Lapse, Holds
    <2>5. ASSUME NEW w \in Workers, Crash(w) PROVE FALSE
      <3>1. Lapse(cur[w]) /\ pc[w] \in Dispatching
        BY <2>3, <2>5 DEF Crash, Dispatching
      <3> QED
        BY <1>2, <2>3, <3>1 DEF Lapse, Holds
    <2>6. ASSUME NEW q \in RowId, LeaseAges(q) \/ StepDue(q) PROVE FALSE
      BY <1>2, <2>3, <2>6 DEF LeaseAges, StepDue, Lapse, Open
    <2> QED
      BY <2>3, <2>4, <2>5, <2>6 DEF Next, Replace
  <1> QED
    BY <1>1, <1>2

\* A worker gets past the call only by performing the step of its row.
LEMMA PastCallPerformed ==
  ASSUME TypeOK, Present, Next, NEW w \in Workers, pc'[w] \in AfterCall
  PROVE  performed'[cur'[w]] > 0
  <1> USE DEF TypeOK, AfterCall
  <1>1. ASSUME pc[w] \in AfterCall, cur'[w] = cur[w] PROVE performed'[cur'[w]] > 0
    <2>1. cur[w] \in RowId /\ performed[cur[w]] > 0 /\ performed[cur[w]] \in Nat
      BY <1>1, HeldRow DEF Present, Dispatching, HistoryType
    <2> QED
      BY <1>1, <2>1, NothingVanishes
  <1>2. ASSUME NEW v \in Workers, v # w, pc'[w] = pc[w], cur'[w] = cur[w]
        PROVE  performed'[cur'[w]] > 0
    BY <1>1, <1>2
  <1>3. ASSUME NEW v \in Workers, WorkerStep(v), v # w PROVE pc'[w] = pc[w] /\ cur'[w] = cur[w]
    BY <1>3 DEF WorkerStep, ReleaseStale, ListDue, Lease, Skip, Load, Accepted, ReplyLost,
       Refused, Bookkeep, Mark, SetWon, LookupNext, InsertNext, Fail, Release, Return,
       At, Goto, WorkerType
  <1>4. CASE WorkerStep(w)
    <2>1. CASE Load(w) \/ Accepted(w)
      <3>1. cur[w] \in RowId /\ cur'[w] = cur[w]
        BY <2>1, HeldRow DEF Load, Accepted, At, Dispatching
      <3>2. performed' = [performed EXCEPT ![cur[w]] = @ + 1]
        <4>1. CASE Accepted(w)
          BY <4>1 DEF Accepted, TakeEffect
        <4>2. CASE Load(w)
          BY <4>2 DEF Load, Goto, WorkerType
        <4> QED
          BY <2>1, <4>1, <4>2
      <3> QED
        BY <3>1, <3>2 DEF HistoryType
    <2>2. CASE Bookkeep(w) \/ Mark(w) \/ LookupNext(w)
      <3>1. pc[w] \in AfterCall
        BY <2>2 DEF Bookkeep, Mark, LookupNext, At
      <3>2. cur'[w] = cur[w]
        BY <2>2 DEF Bookkeep, Mark, LookupNext, At, Return, Goto, WorkerType
      <3> QED
        BY <1>1, <3>1, <3>2
    <2>3. CASE \/ ReleaseStale(w) \/ ListDue(w) \/ (\E r \in RowId : Lease(w, r))
               \/ ReplyLost(w) \/ Refused(w) \/ SetWon(w) \/ InsertNext(w)
               \/ Fail(w) \/ Release(w)
      BY <2>3 DEF ReleaseStale, ListDue, Lease, Skip, ReplyLost, Refused, SetWon,
         InsertNext, Fail, Release, Return, Goto, WorkerType
    <2> QED
      BY <1>4, <2>1, <2>2, <2>3 DEF WorkerStep
  <1>5. ASSUME NEW v \in Workers, Crash(v) PROVE performed'[cur'[w]] > 0
    <2>1. v # w /\ pc'[w] = pc[w] /\ cur'[w] = cur[w]
      BY <1>5 DEF Crash, Goto, WorkerType
    <2> QED
      BY <1>2, <2>1
  <1>6. ASSUME UNCHANGED worker PROVE performed'[cur'[w]] > 0
    BY <1>1, <1>6 DEF worker
  <1> QED
    BY <1>2, <1>3, <1>4, <1>5, <1>6 DEF Next, LeaseAges, StepDue, Replace

\* Rows do not vanish under a worker, and nobody gets past the call without a call.
LEMMA PresentCorrect == Spec => []Present
  <1>1. Init => Present
    BY DEF Init, Present, Holds, Dispatching, AfterCall
  <1>2. ASSUME TypeOK, Present, [Next]_vars PROVE Present'
    <2>1. CASE UNCHANGED vars
      BY <1>2, <2>1 DEF Present, Holds, vars, table, worker, ghost
    <2>2. CASE Next
      <3>1. \A r \in RowId : (r \in lapse' \/ \E w \in Workers : Holds(w, r)')
                                => row'[r].status # "absent"
        BY <1>2, <2>2, HeldIsPresent
      <3>2. \A w \in Workers : pc'[w] \in AfterCall => performed'[cur'[w]] > 0
        BY <1>2, <2>2, PastCallPerformed
      <3> QED
        BY <3>1, <3>2 DEF Present, AfterCall
    <2> QED
      BY <1>2, <2>1, <2>2
  <1> QED
    BY <1>1, <1>2, TypeCorrect, PTL DEF Spec
\* A step that changes neither history nor the abstract status of a row stutters.
LEMMA DeliveryStutters ==
  ASSUME \A r \in RowId : StateOf(r)' = StateOf(r), UNCHANGED <<performed, lapse>>
  PROVE  UNCHANGED Delivery!vars
  BY DEF Delivery!vars

\* The first call that takes effect carries the step out.
LEMMA DeliveryPerforms ==
  ASSUME HistoryType, NEW r \in RowId, r \notin lapse, Open(r), performed[r] = 0,
         performed' = [performed EXCEPT ![r] = @ + 1], UNCHANGED <<row, lapse>>
  PROVE  Delivery!Next
  <1>1. performed' = [performed EXCEPT ![r] = 1]
    BY DEF HistoryType
  <1>2. \A q \in RowId : StateOf(q)' = StateOf(q)
    BY DEF StateOf, Open
  <1>3. Delivery!Perform(r)
    BY <1>1, <1>2 DEF Delivery!Perform, StateOf
  <1> QED
    BY <1>3 DEF Delivery!Next, Delivery!Steps, RowId

\* markStepSent and failStep settle it, as what the history says.
LEMMA DeliverySettles ==
  ASSUME TableType, NEW r \in RowId, NEW s \in {"sent", "failed"}, r \notin lapse,
         Open(r), SetStatus(r, s), performed[r] = (IF s = "sent" THEN 1 ELSE 0),
         UNCHANGED <<performed, lapse>>
  PROVE  Delivery!Next
  <1>1. row'[r].status = s /\ \A q \in RowId \ {r} : row'[q] = row[q]
    BY SetStatusType DEF TableType, RowStatus
  <1>2. /\ StateOf(r)' = s /\ StateOf(r) = "open"
        /\ \A q \in RowId \ {r} : StateOf(q)' = StateOf(q)
    BY <1>1 DEF StateOf, Open
  <1>3. [q \in RowId |-> StateOf(q)]' =
          [[q \in RowId |-> StateOf(q)] EXCEPT
             ![r] = IF performed[r] = 1 THEN "sent" ELSE "failed"]
    <2>1. s = IF performed[r] = 1 THEN "sent" ELSE "failed"
      OBVIOUS
    <2>2. [q \in RowId |-> StateOf(q)]' = [[q \in RowId |-> StateOf(q)] EXCEPT ![r] = s]
      BY <1>2
    <2> QED
      BY <2>1, <2>2
  <1>4. Delivery!Settle(r)
    BY <1>2, <1>3 DEF Delivery!Settle
  <1> QED
    BY <1>4 DEF Delivery!Next, Delivery!Steps, RowId

\* A fault breaks an open step.
LEMMA DeliveryBreaks ==
  ASSUME HistoryType, NEW r \in RowId, r \notin lapse, Open(r), Lapse(r),
         \A q \in RowId : row'[q].status = row[q].status,
         \/ UNCHANGED performed
         \/ performed[r] = 0 /\ performed' = [performed EXCEPT ![r] = @ + 1]
  PROVE  Delivery!Next
  <1>1. UNCHANGED performed \/ (performed[r] = 0 /\ performed' = [performed EXCEPT ![r] = 1])
    BY DEF HistoryType
  <1>2. \A q \in RowId : StateOf(q)' = StateOf(q)
    BY DEF StateOf, Open
  <1>3. Delivery!Break(r)
    BY <1>1, <1>2 DEF Delivery!Break, StateOf, Lapse
  <1> QED
    BY <1>3 DEF Delivery!Next, Delivery!Steps, RowId

\* A broken step drifts, as long as it does not vanish.
LEMMA DeliveryDrifts ==
  ASSUME TypeOK, TypeOK', NEW r \in RowId, r \in lapse, UNCHANGED lapse,
         \A q \in RowId \ {r} : row'[q].status = row[q].status,
         row'[r].status # "absent",
         UNCHANGED performed \/ performed' = [performed EXCEPT ![r] = @ + 1]
  PROVE  Delivery!Next
  <1>1. \A q \in RowId \ {r} : StateOf(q)' = StateOf(q)
    BY DEF StateOf, Open
  <1>2. StateOf(r)' \in {"open", "sent", "failed"}
    <2>1. row'[r].status \in RowStatus
      BY DEF TypeOK, TableType, Row
    <2> QED
      BY <2>1 DEF StateOf, Open, RowStatus
  <1>3. \E to \in {"open", "sent", "failed"} :
          [q \in RowId |-> StateOf(q)]' = [[q \in RowId |-> StateOf(q)] EXCEPT ![r] = to]
    <2>1. [q \in RowId |-> StateOf(q)]' =
            [[q \in RowId |-> StateOf(q)] EXCEPT ![r] = StateOf(r)']
      BY <1>1
    <2> QED
      BY <1>2, <2>1
  <1>4. \E n \in {0, 1} : performed' = [performed EXCEPT ![r] = @ + n]
    <2>1. CASE UNCHANGED performed
      <3>1. performed' = [performed EXCEPT ![r] = @ + 0]
        BY <2>1 DEF TypeOK, HistoryType
      <3> QED
        BY <3>1
    <2>2. CASE performed' = [performed EXCEPT ![r] = @ + 1]
      BY <2>2
    <2> QED
      BY <2>1, <2>2
  <1>5. Delivery!Drift(r)
    BY <1>3, <1>4 DEF Delivery!Drift
  <1> QED
    BY <1>5 DEF Delivery!Next, Delivery!Steps, RowId

\* CreateProspectStep opens the next step, behind the one its worker still holds.
LEMMA DeliveryOpens ==
  ASSUME TypeOK, LeaseDiscipline, OneToken, Present, NEW w \in Workers, InsertNext(w)
  PROVE  Delivery!Next \/ UNCHANGED Delivery!vars
  <1> USE DEF TypeOK, ghost
  <1> DEFINE r == cur[w]
  <1>1. r \in RowId /\ Holds(w, r) /\ pc[w] = "insert" /\ performed[r] > 0
    BY HeldRow DEF Holds, InsertNext, Dispatching, Present, AfterCall
  <1>2. CASE UNCHANGED row
    BY <1>2, DeliveryStutters DEF InsertNext, StateOf, Open
  <1>3. ASSUME NEW n \in 1..MaxRows, row[<<r[1], n>>].status = "absent",
               row' = [row EXCEPT ![<<r[1], n>>] = NewRow(ctx[w].next, plan[ctx[w].next[2]])]
        PROVE  Delivery!Next
    <2> DEFINE new == <<r[1], n>>
    <2>1. new \in RowId /\ new[1] = r[1]
      BY <1>1, RowIds
    <2>2. row'[new].status = "pending" /\ \A q \in RowId \ {new} : row'[q] = row[q]
      BY <1>3, <2>1 DEF NewRow, TableType
    <2>3. [q \in RowId |-> StateOf(q)]' = [[q \in RowId |-> StateOf(q)] EXCEPT ![new] = "open"]
      BY <2>1, <2>2 DEF StateOf, Open
    <2>4. StateOf(new) = "absent"
      BY <1>3 DEF StateOf, Open
    <2>5. ~Lapsed(r[1]) => \A q \in RowId : q[1] = r[1] => StateOf(q) # "open"
      <3> SUFFICES ASSUME ~Lapsed(r[1]), NEW q \in RowId, q[1] = r[1]
                   PROVE  ~Open(q) /\ row[q].status # "open"
        BY DEF StateOf
      <3>1. row[q].status \in RowStatus
        BY DEF TableType, Row
      <3>2. row[r].status = "sent"
        BY <1>1, UnlapsedRow DEF RowInv, AfterMark
      <3>3. Open(q) => q = r
        BY <1>1 DEF OneToken, Token
      <3> QED
        BY <3>1, <3>2, <3>3 DEF Open, RowStatus
    <2>6. Delivery!Broken(r[1]) <=> Lapsed(r[1])
      BY DEF Delivery!Broken, Lapsed
    <2>7. UNCHANGED <<performed, lapse>>
      BY DEF InsertNext
    <2>8. Delivery!Open(new)
      BY <1>1, <2>1, <2>3, <2>4, <2>5, <2>6, <2>7 DEF Delivery!Open, Delivery!Steps, RowId
    <2> QED
      BY <2>1, <2>8 DEF Delivery!Next, Delivery!Steps, RowId
  <1> QED
    BY <1>2, <1>3 DEF InsertNext

\* A worker inside dispatchStep, up to the end of the bookkeeping.
LEMMA DeliveryCalls ==
  ASSUME TypeOK, TypeOK', LeaseDiscipline, Present, NEW w \in Workers,
         \/ Load(w) \/ Accepted(w) \/ ReplyLost(w) \/ Refused(w) \/ Bookkeep(w)
         \/ Mark(w) \/ Fail(w) \/ Release(w)
  PROVE  Delivery!Next \/ UNCHANGED Delivery!vars
  <1> USE DEF table, ghost
  <1>0. TableType /\ WorkerType /\ HistoryType
    BY DEF TypeOK
  <1> DEFINE r == cur[w]
  <1>1. r \in RowId /\ Holds(w, r)
    BY <1>0, HeldRow DEF Holds, Load, Accepted, ReplyLost, Refused, Bookkeep, Mark,
                         Fail, Release, At, Dispatching
  <1>2. row[r].status # "absent"
    BY <1>1 DEF Present
  <1>3. r \notin lapse => RowInv(r)
    BY <1>1 DEF LeaseDiscipline
  <1>4. r \notin lapse /\ pc[w] \notin AfterMark => Open(r) /\ row[r].status = "processing"
    BY <1>1, <1>3 DEF RowInv, Open
  <1>5. r \notin lapse /\ pc[w] \in BeforeCall => performed[r] = 0
    BY <1>1, <1>3 DEF RowInv
  <1>6. CASE UNCHANGED <<row, performed, lapse>>
    BY <1>6, DeliveryStutters DEF StateOf, Open
  <1>7. CASE /\ performed' = [performed EXCEPT ![r] = @ + 1] /\ UNCHANGED <<row, lapse>>
             /\ pc[w] \in {"load", "call"}
    <2>1. CASE r \in lapse
      BY <1>1, <1>2, <1>7, <2>1, DeliveryDrifts
    <2>2. CASE r \notin lapse
      BY <1>0, <1>1, <1>4, <1>5, <1>7, <2>2, DeliveryPerforms DEF BeforeCall, AfterMark
    <2> QED
      BY <2>1, <2>2
  <1>8. CASE ReplyLost(w)
    <2>0. /\ performed' = [performed EXCEPT ![r] = @ + 1] /\ Lapse(r) /\ UNCHANGED row
          /\ pc[w] = "call"
      BY <1>8 DEF ReplyLost, TakeEffect, At
    <2>1. CASE r \in lapse
      <3>1. UNCHANGED lapse
        BY <2>0, <2>1 DEF Lapse
      <3> QED
        BY <1>1, <1>2, <2>0, <2>1, <3>1, DeliveryDrifts
    <2>2. CASE r \notin lapse
      BY <1>0, <1>1, <1>4, <1>5, <2>0, <2>2, DeliveryBreaks DEF BeforeCall, AfterMark
    <2> QED
      BY <2>1, <2>2
  <1>9. CASE Lapse(r) /\ UNCHANGED <<row, performed>> /\ pc[w] \in {"book", "mark"}
    <2>1. CASE r \in lapse
      BY <1>6, <1>9, <2>1 DEF Lapse
    <2>2. CASE r \notin lapse
      BY <1>0, <1>1, <1>4, <1>9, <2>2, DeliveryBreaks DEF AfterMark
    <2> QED
      BY <2>1, <2>2
  <1>10. ASSUME NEW s \in {"sent", "failed"}, SetStatus(r, s), UNCHANGED <<performed, lapse>>,
                pc[w] = (IF s = "sent" THEN "mark" ELSE "fail")
         PROVE  Delivery!Next
    <2>1. CASE r \in lapse
      <3>1. row'[r].status = s /\ \A q \in RowId \ {r} : row'[q] = row[q]
        BY <1>0, <1>1, <1>10, SetStatusType DEF TableType, RowStatus
      <3>2. row'[r].status # "absent"
        BY <1>10, <3>1
      <3> QED
        BY <1>1, <1>10, <2>1, <3>1, DeliveryDrifts
    <2>2. CASE r \notin lapse
      <3>1. performed[r] = IF s = "sent" THEN 1 ELSE 0
        BY <1>1, <1>3, <1>10, <2>2 DEF RowInv, BeforeCall
      <3> QED
        BY <1>0, <1>1, <1>4, <1>10, <2>2, <3>1, DeliverySettles DEF AfterMark
    <2> QED
      BY <2>1, <2>2
  <1>11. CASE Load(w) \/ Accepted(w) \/ Refused(w)
    BY <1>6, <1>7, <1>11 DEF Load, Accepted, Refused, TakeEffect, At
  <1>12. CASE Bookkeep(w)
    BY <1>6, <1>9, <1>12 DEF Bookkeep, At
  <1>13. CASE Mark(w)
    <2>1. pc[w] = "mark" /\ UNCHANGED performed
      BY <1>13 DEF Mark, At
    <2>2. CASE UNCHANGED lapse /\ (SetStatus(r, "sent") \/ UNCHANGED row)
      BY <1>6, <1>10, <2>1, <2>2
    <2>3. CASE Lapse(r) /\ UNCHANGED row
      BY <1>9, <2>1, <2>3
    <2> QED
      BY <1>13, <2>2, <2>3 DEF Mark
  <1>14. CASE Fail(w)
    BY <1>6, <1>10, <1>14 DEF Fail
  <1>15. CASE Release(w)
    <2>1. UNCHANGED <<performed, lapse>>
      BY <1>15 DEF Release
    <2>2. \A q \in RowId : StateOf(q)' = StateOf(q)
      <3>1. CASE UNCHANGED row
        BY <3>1 DEF StateOf, Open
      <3>2. CASE row[r].status = "processing" /\ SetStatus(r, "pending")
        BY <1>0, <1>1, <3>2, SetStatusType DEF StateOf, Open, TableType, RowStatus
      <3> QED
        BY <1>15, <3>1, <3>2 DEF Release
    <2> QED
      BY <2>1, <2>2, DeliveryStutters
  <1> QED
    BY <1>8, <1>11, <1>12, <1>13, <1>14, <1>15

\* Every step of the campaign loop is a step of StepDelivery, or none.
LEMMA DeliveryStep ==
  ASSUME TypeOK, TypeOK', LeaseDiscipline, OneToken, Present, Next
  PROVE  Delivery!Next \/ UNCHANGED Delivery!vars
  <1> USE DEF table, ghost, worker
  <1>0. TableType /\ WorkerType /\ HistoryType
    BY DEF TypeOK
  <1>1. ASSUME \A q \in RowId : row'[q].status = row[q].status, UNCHANGED <<performed, lapse>>
        PROVE  UNCHANGED Delivery!vars
    BY <1>1, DeliveryStutters DEF StateOf, Open
  <1>2. ASSUME NEW r \in RowId, row[r].status = "processing", Lapse(r), UNCHANGED performed,
               \A q \in RowId : row'[q].status = row[q].status
        PROVE  Delivery!Next \/ UNCHANGED Delivery!vars
    <2>1. CASE r \in lapse
      BY <1>1, <1>2, <2>1 DEF Lapse
    <2>2. CASE r \notin lapse
      BY <1>0, <1>2, <2>2, DeliveryBreaks DEF Open
    <2> QED
      BY <2>1, <2>2
  <1>3. ASSUME NEW w \in Workers, WorkerStep(w)
        PROVE  Delivery!Next \/ UNCHANGED Delivery!vars
    <2>1. CASE ReleaseStale(w)
      <3>1. \A q \in RowId : StateOf(q)' = StateOf(q)
        BY <1>0, <2>1, WithStatusType
        DEF ReleaseStale, Stale, StateOf, Open, TableType, RowStatus
      <3> QED
        BY <2>1, <3>1, DeliveryStutters DEF ReleaseStale
    <2>2. CASE ListDue(w) \/ SetWon(w) \/ LookupNext(w)
      BY <1>1, <2>2 DEF ListDue, SetWon, LookupNext
    <2>3. ASSUME NEW r \in RowId, Lease(w, r) PROVE UNCHANGED Delivery!vars
      <3>1. CASE UNCHANGED row
        BY <1>1, <2>3, <3>1 DEF Lease
      <3>2. CASE Leasable(r) /\ SetStatus(r, "processing")
        <4>1. \A q \in RowId : StateOf(q)' = StateOf(q)
          BY <1>0, <3>2, SetStatusType DEF Leasable, StateOf, Open, TableType, RowStatus
        <4> QED
          BY <2>3, <4>1, DeliveryStutters DEF Lease
      <3> QED
        BY <2>3, <3>1, <3>2 DEF Lease, Skip
    <2> QED
      BY <1>3, <2>1, <2>2, <2>3, DeliveryCalls, DeliveryOpens DEF WorkerStep
  <1>4. ASSUME NEW w \in Workers, Crash(w)
        PROVE  Delivery!Next \/ UNCHANGED Delivery!vars
    <2>1. CASE pc[w] \in {"book", "mark"}
      <3> DEFINE r == cur[w]
      <3>1. r \in RowId /\ Holds(w, r)
        BY <1>0, <2>1, HeldRow DEF Holds, Dispatching
      <3>2. r \notin lapse => row[r].status = "processing"
        BY <2>1, <3>1 DEF LeaseDiscipline, RowInv, AfterMark
      <3>3. CASE r \in lapse
        BY <1>1, <1>4, <2>1, <3>3 DEF Crash, Lapse
      <3>4. CASE r \notin lapse
        BY <1>2, <1>4, <2>1, <3>1, <3>2, <3>4 DEF Crash
      <3> QED
        BY <3>3, <3>4
    <2>2. CASE pc[w] \notin {"book", "mark"}
      BY <1>1, <1>4, <2>2 DEF Crash
    <2> QED
      BY <2>1, <2>2
  <1>5. ASSUME NEW r \in RowId, LeaseAges(r) \/ StepDue(r)
        PROVE  Delivery!Next \/ UNCHANGED Delivery!vars
    <2>1. \A q \in RowId : row'[q].status = row[q].status
      BY <1>0, <1>5 DEF LeaseAges, StepDue, TableType, Row
    <2>2. \/ UNCHANGED <<performed, lapse>>
          \/ row[r].status = "processing" /\ Lapse(r) /\ UNCHANGED performed
      BY <1>5 DEF LeaseAges, StepDue
    <2> QED
      BY <1>1, <1>2, <2>1, <2>2
  <1>6. ASSUME NEW newPlan \in Plans, Replace(newPlan) PROVE UNCHANGED Delivery!vars
    <2>1. \A q \in RowId : row'[q].status = row[q].status
      BY <1>0, <1>6 DEF Replace, TableType, Row
    <2> QED
      BY <1>1, <1>6, <2>1 DEF Replace
  <1> QED
    BY <1>3, <1>4, <1>5, <1>6 DEF Next

\* The campaign loop delivers: it implements StepDelivery for every number of
\* instances and prospects and every sequence of faults and edits.
THEOREM DispatchDelivers == Spec => Delivers
  <1>1. Init => Delivery!Init
    <2>1. ASSUME Init, NEW r \in RowId
          PROVE  StateOf(r) = IF r[2] = 1 THEN "open" ELSE "absent"
      BY <2>1 DEF Init, StateOf, Open, NewRow, Absent
    <2> QED
      BY <2>1 DEF Init, Delivery!Init, Delivery!Steps, RowId
  <1>2. /\ TypeOK /\ TypeOK' /\ LeaseDiscipline /\ OneToken /\ Present /\ [Next]_vars
        => [Delivery!Next]_(Delivery!vars)
    <2>1. ASSUME UNCHANGED vars PROVE UNCHANGED Delivery!vars
      BY <2>1, DeliveryStutters DEF vars, table, ghost, StateOf, Open
    <2> QED
      BY <2>1, DeliveryStep
  <1> QED
    BY <1>1, <1>2, TypeCorrect, LeaseCorrect, TokenCorrect, PresentCorrect, PTL
    DEF Spec, Delivers, Delivery!Spec

-----------------------------------------------------------------------------
(* Sequence order                                                          *)

\* The step a worker leased is still the one its row refers to, or belongs to a
\* sequence that was replaced; the next step it looked up is the one behind it.
StepFits(w) ==
  /\ pc[w] \in Dispatching =>
       row[cur[w]].step = ctx[w].step \/ ctx[w].step[1] < version
  /\ pc[w] = "insert" =>
       ctx[w].next = <<ctx[w].step[1], ctx[w].step[2] + 1>> /\ ctx[w].step[2] > 0
StepsFit == \A w \in Workers : StepFits(w)

\* Statements other than Replace and CreateProspectStep leave step ids alone.
LEMMA StepsKept ==
  ASSUME TypeOK, Next, ~\E w \in Workers : InsertNext(w),
         ~\E newPlan \in Plans : Replace(newPlan)
  PROVE  version' = version /\ \A r \in RowId : row'[r].step = row[r].step
  <1> USE DEF TypeOK, table
  <1>1. ASSUME NEW w \in Workers, WorkerStep(w)
        PROVE  version' = version /\ \A r \in RowId : row'[r].step = row[r].step
    <2>1. CASE ReleaseStale(w)
      BY <2>1, WithStatusType DEF ReleaseStale, TableType, RowStatus
    <2>2. ASSUME NEW r \in RowId, NEW s \in RowStatus, SetStatus(r, s)
          PROVE  \A q \in RowId : row'[q].step = row[q].step
      <3>1. row'[r].step = WithStatus(r, s).step /\ \A q \in RowId \ {r} : row'[q] = row[q]
        BY <2>2 DEF SetStatus, TableType
      <3>2. WithStatus(r, s).step = row[r].step
        BY WithStatusType DEF TableType
      <3> QED
        BY <3>1, <3>2
    <2>3. ASSUME NEW r \in RowId, Lease(w, r)
          PROVE  version' = version /\ \A q \in RowId : row'[q].step = row[q].step
      BY <2>2, <2>3 DEF Lease, Skip, RowStatus
    <2>4. CASE Mark(w) \/ Fail(w) \/ Release(w)
      <3>1. cur[w] \in RowId
        BY <2>4, HeldRow DEF Mark, Fail, Release, At, Dispatching
      <3> QED
        BY <2>2, <2>4, <3>1 DEF Mark, Fail, Release, RowStatus
    <2> QED
      BY <1>1, <2>1, <2>3, <2>4
      DEF WorkerStep, ListDue, Load, Accepted, ReplyLost, Refused, Bookkeep, SetWon,
          LookupNext
  <1>2. ASSUME \/ \E w \in Workers : Crash(w)
               \/ \E q \in RowId : LeaseAges(q) \/ StepDue(q)
        PROVE  version' = version /\ \A r \in RowId : row'[r].step = row[r].step
    BY <1>2 DEF Crash, LeaseAges, StepDue, TableType, Row
  <1> QED
    BY <1>1, <1>2 DEF Next

\* What a worker remembers changes only in its own steps.
LEMMA ContextKept ==
  ASSUME WorkerType, NEW w \in Workers, NEW v \in Workers, v # w,
         WorkerStep(v) \/ Crash(v)
  PROVE  pc'[w] = pc[w] /\ cur'[w] = cur[w] /\ ctx'[w] = ctx[w]
  BY DEF WorkerStep, ReleaseStale, ListDue, Lease, Skip, Load, Accepted, TakeEffect,
     ReplyLost, Refused, Bookkeep, Mark, SetWon, LookupNext, InsertNext, Fail, Release,
     Crash, Return, At, Goto, WorkerType

\* A worker that goes on keeps its row and its step, and where it looks up the next
\* step, that is the one behind its own.
LEMMA HolderStep ==
  ASSUME TypeOK, NEW w \in Workers, WorkerStep(w), pc'[w] \in Dispatching,
         pc[w] \in Dispatching
  PROVE  /\ cur'[w] = cur[w] /\ ctx'[w].step = ctx[w].step
         /\ pc'[w] = "insert" =>
              ctx'[w].next = <<ctx[w].step[1], ctx[w].step[2] + 1>> /\ ctx[w].step[2] > 0
  <1> USE DEF TypeOK
  <1>1. ctx[w] \in Context /\ ctx[w].step \in StepId
    BY DEF WorkerType, Context
  <1>2. CASE Load(w) \/ Refused(w) \/ Bookkeep(w) \/ Mark(w)
    BY <1>2 DEF Load, Refused, Bookkeep, Mark, At, Goto, WorkerType, Context
  <1>3. CASE Accepted(w) \/ ReplyLost(w)
    <2>1. ctx' = ctx \/ ctx' = [ctx EXCEPT ![w].chat = chats[cur[w][1]] + 1]
      BY <1>3 DEF Accepted, ReplyLost, TakeEffect
    <2>2. pc'[w] # "insert" /\ cur'[w] = cur[w]
      BY <1>3 DEF Accepted, ReplyLost, At, Goto, WorkerType
    <2> QED
      BY <2>1, <2>2 DEF WorkerType, Context
  <1>4. CASE LookupNext(w)
    <2> DEFINE next == IF ctx[w].found THEN NextStep(ctx[w].step) ELSE NoStep
    <2>1. ~Return(w)
      BY DEF Return, Goto, WorkerType, Dispatching
    <2>2. /\ next # NoStep /\ Goto(w, "insert") /\ UNCHANGED <<batch, cur>>
          /\ ctx' = [ctx EXCEPT ![w].next = next]
      BY <1>4, <2>1 DEF LookupNext
    <2>3. StepExists(ctx[w].step) /\ next = <<version, ctx[w].step[2] + 1>>
      BY <2>2 DEF NextStep
    <2>4. next = <<ctx[w].step[1], ctx[w].step[2] + 1>> /\ ctx[w].step[2] > 0
      BY <2>3 DEF StepExists
    <2>5. ctx'[w].next = next /\ ctx'[w].step = ctx[w].step
      BY <2>2 DEF WorkerType, Context
    <2> QED
      BY <2>2, <2>4, <2>5
  <1>5. CASE SetWon(w) \/ InsertNext(w) \/ Fail(w) \/ Release(w)
    BY <1>5 DEF SetWon, InsertNext, Fail, Release, Return, Goto, WorkerType, Dispatching
  <1>6. CASE ReleaseStale(w) \/ ListDue(w) \/ \E r \in RowId : Lease(w, r)
    BY <1>6 DEF ReleaseStale, ListDue, Lease, Dispatching
  <1> QED
    BY <1>2, <1>3, <1>4, <1>5, <1>6 DEF WorkerStep

\* A worker that gets a row remembers the row's step.
LEMMA LeaseStepId ==
  ASSUME TypeOK, NEW w \in Workers, WorkerStep(w), pc'[w] \in Dispatching,
         pc[w] \notin Dispatching
  PROVE  cur'[w] \in RowId /\ ctx'[w].step = row[cur'[w]].step /\ pc'[w] = "load"
  <1> USE DEF TypeOK
  <1>1. PICK r \in RowId : Lease(w, r)
    BY DEF WorkerStep, ReleaseStale, ListDue, Load, Accepted, ReplyLost, Refused,
       Bookkeep, Mark, SetWon, LookupNext, InsertNext, Fail, Release, At, Goto,
       WorkerType, Dispatching
  <1>2. cur' = [cur EXCEPT ![w] = r] /\ ctx' = [ctx EXCEPT ![w].step = row[r].step]
        /\ Goto(w, "load")
    BY <1>1 DEF Lease, Skip, Goto, WorkerType, Dispatching
  <1> QED
    BY <1>2 DEF Goto, WorkerType, Context

\* An absent row was not performed, and it is nobody's.
LEMMA AbsentRow ==
  ASSUME LeaseDiscipline, Present, NEW r \in RowId, row[r].status = "absent"
  PROVE  performed[r] = 0 /\ \A w \in Workers : ~Holds(w, r)
  BY DEF LeaseDiscipline, Present, RowInv

\* Every step keeps StepsFit.
LEMMA StepsFitStep ==
  ASSUME TypeOK, References, LeaseDiscipline, Present, StepsFit, Next
  PROVE  StepsFit'
  <1> SUFFICES ASSUME NEW w \in Workers PROVE StepFits(w)'
    BY DEF StepsFit
  <1>1. StepFits(w) /\ version \in Nat /\ ctx[w].step \in StepId
    BY DEF StepsFit, TypeOK, WorkerType, TableType, Context
  <1>2. ASSUME pc[w] \in Dispatching PROVE cur[w] \in RowId /\ Holds(w, cur[w])
    BY <1>2, HeldRow DEF TypeOK, Holds
  <1>3. ASSUME version' = version, \A r \in RowId : row'[r].step = row[r].step,
               pc'[w] = pc[w], cur'[w] = cur[w], ctx'[w] = ctx[w]
        PROVE  StepFits(w)'
    BY <1>1, <1>2, <1>3 DEF StepFits
  <1>4. ASSUME NEW newPlan \in Plans, Replace(newPlan) PROVE StepFits(w)'
    <2>1. ASSUME pc[w] \in Dispatching PROVE ctx[w].step[1] < version + 1
      <3>1. row[cur[w]].step[1] <= version
        BY <1>1, <1>2, <2>1 DEF References, StepExists, NoStep
      <3>2. ctx[w].step[1] \in Nat
        BY <1>1 DEF StepId
      <3> QED
        BY <1>1, <2>1, <3>1, <3>2 DEF StepFits
    <2> QED
      BY <1>1, <1>4, <2>1 DEF Replace, StepFits, worker
  <1>5. ASSUME NEW v \in Workers, InsertNext(v) PROVE StepFits(w)'
    <2>1. CASE v = w
      BY <1>5, <2>1 DEF InsertNext, Return, Goto, StepFits, Dispatching, TypeOK, WorkerType
    <2>2. CASE v # w
      <3>1. pc'[w] = pc[w] /\ cur'[w] = cur[w] /\ ctx'[w] = ctx[w]
        BY <1>5, <2>2, ContextKept DEF TypeOK, WorkerStep
      <3>2. ASSUME pc[w] \in Dispatching PROVE row'[cur[w]] = row[cur[w]]
        <4>1. row[cur[w]].status # "absent"
          BY <1>2, <3>2 DEF Present
        <4> QED
          BY <1>2, <1>5, <3>2, <4>1 DEF InsertNext, TypeOK, TableType
      <3> QED
        BY <1>1, <1>5, <3>1, <3>2 DEF InsertNext, StepFits
    <2> QED
      BY <2>1, <2>2
  <1>6. CASE ~(\E v \in Workers : InsertNext(v)) /\ ~(\E newPlan \in Plans : Replace(newPlan))
    <2>1. version' = version /\ \A r \in RowId : row'[r].step = row[r].step
      BY <1>6, StepsKept
    <2>2. CASE WorkerStep(w)
      <3>1. CASE pc[w] \in Dispatching /\ pc'[w] \in Dispatching
        BY <1>1, <1>2, <2>1, <2>2, <3>1, HolderStep DEF StepFits
      <3>2. CASE pc[w] \notin Dispatching /\ pc'[w] \in Dispatching
        BY <2>1, <2>2, <3>2, LeaseStepId DEF StepFits
      <3>3. CASE pc'[w] \notin Dispatching
        BY <3>3 DEF StepFits, Dispatching
      <3> QED
        BY <3>1, <3>2, <3>3
    <2>3. ASSUME NEW v \in Workers, v # w, WorkerStep(v) \/ Crash(v) PROVE StepFits(w)'
      BY <1>3, <2>1, <2>3, ContextKept DEF TypeOK
    <2>4. CASE Crash(w)
      BY <2>4 DEF Crash, Goto, StepFits, Dispatching, TypeOK, WorkerType
    <2>5. CASE UNCHANGED worker
      BY <1>3, <2>1, <2>5 DEF worker
    <2> QED
      BY <1>6, <2>2, <2>3, <2>4, <2>5 DEF Next, LeaseAges, StepDue
  <1> QED
    BY <1>4, <1>5, <1>6

\* What dispatchStep remembers of its row fits the row, until the sequence is replaced.
LEMMA StepsFitCorrect == Spec => []StepsFit
  <1>1. Init => StepsFit
    BY DEF Init, StepsFit, StepFits, Dispatching
  <1>2. ASSUME TypeOK, References, LeaseDiscipline, Present, StepsFit, [Next]_vars
        PROVE  StepsFit'
    <2>1. CASE UNCHANGED vars
      BY <1>2, <2>1 DEF StepsFit, StepFits, vars, table, worker
    <2> QED
      BY <1>2, <2>1, StepsFitStep
  <1> QED
    BY <1>1, <1>2, TypeCorrect, ReferencesHold, LeaseCorrect, PresentCorrect, PTL DEF Spec

\* Row r has a step behind the first: the row of the step before it took effect.
Follows(r) ==
  row[r].step # NoStep /\ row[r].step[2] > 1 =>
    \E q \in RowId : /\ q[1] = r[1] /\ performed[q] > 0
                     /\ row[q].step = <<row[r].step[1], row[r].step[2] - 1>>

\* A row whose step, and whose predecessors' steps, stay keeps its predecessor.
LEMMA FollowsKept ==
  ASSUME TypeOK, Next, NEW r \in RowId, Follows(r), row'[r].step = row[r].step,
         \A q \in RowId : performed[q] > 0 => row'[q].step = row[q].step
  PROVE  Follows(r)'
  <1> SUFFICES ASSUME row'[r].step # NoStep, row'[r].step[2] > 1
               PROVE  \E q \in RowId :
                        /\ q[1] = r[1] /\ performed'[q] > 0
                        /\ row'[q].step = <<row'[r].step[1], row'[r].step[2] - 1>>
    BY DEF Follows
  <1>1. PICK q \in RowId : /\ q[1] = r[1] /\ performed[q] > 0
                           /\ row[q].step = <<row[r].step[1], row[r].step[2] - 1>>
    BY DEF Follows
  <1>2. performed'[q] > 0
    <2>1. performed[q] \in Nat /\ performed'[q] \in Nat /\ performed'[q] >= performed[q]
      BY NothingVanishes DEF TypeOK, HistoryType
    <2> QED
      BY <1>1, <2>1
  <1> QED
    BY <1>1, <1>2

\* The row CreateProspectStep inserts follows the one its worker holds.
LEMMA InsertFollows ==
  ASSUME TypeOK, LeaseDiscipline, Present, StepsFit, Next,
         NEW w \in Workers, InsertNext(w), NEW r \in RowId, \A q \in RowId : Follows(q)
  PROVE  Follows(r)'
  <1> USE DEF TypeOK
  <1> DEFINE c == cur[w]
             s == ctx[w].next
  <1>1. c \in RowId /\ Holds(w, c) /\ pc[w] = "insert"
    BY HeldRow DEF Holds, InsertNext, Dispatching
  <1>2. CASE UNCHANGED row
    BY <1>2, FollowsKept
  <1>3. ASSUME MayInsert(c[1], s), NEW n \in 1..MaxRows, row[<<c[1], n>>].status = "absent",
               row' = [row EXCEPT ![<<c[1], n>>] = NewRow(s, plan[s[2]])]
        PROVE  Follows(r)'
    <2> DEFINE new == <<c[1], n>>
    <2>1. new \in RowId /\ new[1] = c[1]
      BY <1>1, RowIds
    <2>2. row'[new].step = s /\ \A q \in RowId \ {new} : row'[q] = row[q]
      BY <1>3, <2>1 DEF NewRow, TableType
    <2>3. performed[new] = 0
      BY <1>3, <2>1, AbsentRow
    <2>4. \A q \in RowId : performed[q] > 0 => row'[q].step = row[q].step
      BY <2>2, <2>3
    <2>5. CASE r # new
      BY <2>2, <2>4, <2>5, FollowsKept
    <2>6. CASE r = new
      <3>1. s = <<ctx[w].step[1], ctx[w].step[2] + 1>> /\ s[1] = version
        BY <1>1, <1>3 DEF StepsFit, StepFits, MayInsert, StepExists
      <3>2. ctx[w].step \in StepId /\ version \in Nat
        BY DEF WorkerType, TableType, Context
      <3>3. row[c].step = ctx[w].step
        BY <1>1, <3>1, <3>2 DEF StepsFit, StepFits, Dispatching, StepId
      <3>4. performed[c] > 0 /\ performed'[c] > 0
        BY <1>1 DEF Present, AfterCall, InsertNext, ghost
      <3>5. row'[c].step = ctx[w].step
        BY <1>1, <2>4, <3>3, <3>4
      <3>6. ctx[w].step = <<s[1], s[2] - 1>>
        BY <3>1, <3>2 DEF StepId
      <3> QED
        BY <1>1, <2>1, <2>2, <2>6, <3>4, <3>5, <3>6 DEF Follows
    <2> QED
      BY <2>5, <2>6
  <1> QED
    BY <1>2, <1>3 DEF InsertNext

\* A row for step k exists only behind a performed row of step k-1, whatever fails,
\* crashes or is edited in between.
THEOREM SequenceInOrder == Spec => []InOrder
  <1>1. Init => InOrder
    <2> SUFFICES ASSUME Init, NEW r \in RowId, row[r].step # NoStep PROVE ~(row[r].step[2] > 1)
      BY DEF InOrder
    <2>1. row[r].step = <<1, 1>>
      BY DEF Init, NewRow, Absent
    <2> QED
      BY <2>1
  <1>2. ASSUME TypeOK, LeaseDiscipline, Present, StepsFit, InOrder, [Next]_vars
        PROVE  InOrder'
    <2>1. \A r \in RowId : Follows(r)
      BY <1>2 DEF InOrder, Follows
    <2>2. CASE UNCHANGED vars
      BY <1>2, <2>2 DEF InOrder, vars, table, ghost
    <2>3. ASSUME Next, NEW r \in RowId PROVE Follows(r)'
      <3>1. CASE \E w \in Workers : InsertNext(w)
        BY <1>2, <2>1, <2>3, <3>1, InsertFollows
      <3>2. ASSUME NEW newPlan \in Plans, Replace(newPlan) PROVE Follows(r)'
        BY <1>2, <3>2 DEF Replace, Follows, TypeOK, TableType, Row
      <3>3. CASE ~(\E w \in Workers : InsertNext(w)) /\ ~(\E newPlan \in Plans : Replace(newPlan))
        BY <1>2, <2>1, <2>3, <3>3, StepsKept, FollowsKept
      <3> QED
        BY <3>1, <3>2, <3>3
    <2> QED
      BY <1>2, <2>2, <2>3 DEF InOrder, Follows
  <1> QED
    BY <1>1, <1>2, TypeCorrect, LeaseCorrect, PresentCorrect, StepsFitCorrect, PTL DEF Spec

-----------------------------------------------------------------------------
(* The chain goes on                                                       *)

\* Until its row loses the reference, a worker knows the row's step, and from the load on that
\* the step is there.
Remembers(w) ==
  pc[w] \in Dispatching /\ row[cur[w]].step # NoStep =>
    row[cur[w]].step = ctx[w].step /\ (pc[w] # "load" => ctx[w].found)
StepsRemembered == \A w \in Workers : Remembers(w)

\* Whether the sequence step is there is looked up once, when the context is loaded.
LEMMA FoundOnce ==
  ASSUME TypeOK, NEW w \in Workers, WorkerStep(w), pc'[w] \in Dispatching, pc[w] \in Dispatching
  PROVE  \/ pc[w] = "load" /\ ctx'[w].found = StepExists(ctx[w].step)
         \/ pc[w] # "load" /\ ctx'[w].found = ctx[w].found
  <1> USE DEF TypeOK
  <1>1. CASE Load(w)
    BY <1>1 DEF Load, At, WorkerType, Context
  <1>2. CASE Refused(w) \/ Bookkeep(w) \/ Mark(w)
    BY <1>2 DEF Refused, Bookkeep, Mark, At
  <1>3. CASE Accepted(w) \/ ReplyLost(w)
    <2>1. ctx' = ctx \/ ctx' = [ctx EXCEPT ![w].chat = chats[cur[w][1]] + 1]
      BY <1>3 DEF Accepted, ReplyLost, TakeEffect
    <2>2. pc[w] # "load"
      BY <1>3 DEF Accepted, ReplyLost, At
    <2> QED
      BY <2>1, <2>2 DEF WorkerType, Context
  <1>4. CASE LookupNext(w)
    <2>1. ~Return(w)
      BY DEF Return, Goto, WorkerType, Dispatching
    <2>2. pc[w] = "chain" /\ \E next : ctx' = [ctx EXCEPT ![w].next = next]
      BY <1>4, <2>1 DEF LookupNext
    <2> QED
      BY <2>2 DEF WorkerType, Context
  <1>5. CASE SetWon(w) \/ InsertNext(w) \/ Fail(w) \/ Release(w)
    BY <1>5 DEF SetWon, InsertNext, Fail, Release, Return, Goto, WorkerType, Dispatching
  <1>6. CASE ReleaseStale(w) \/ ListDue(w) \/ \E r \in RowId : Lease(w, r)
    BY <1>6 DEF ReleaseStale, ListDue, Lease, Dispatching
  <1> QED
    BY <1>1, <1>2, <1>3, <1>4, <1>5, <1>6 DEF WorkerStep

\* Every step keeps what the workers remember.
LEMMA RememberedStep ==
  ASSUME TypeOK, References, Present, StepsRemembered, Next
  PROVE  StepsRemembered'
  <1> SUFFICES ASSUME NEW w \in Workers PROVE Remembers(w)'
    BY DEF StepsRemembered
  <1>1. Remembers(w)
    BY DEF StepsRemembered
  <1>2. ASSUME pc[w] \in Dispatching PROVE cur[w] \in RowId /\ Holds(w, cur[w])
    BY <1>2, HeldRow DEF TypeOK, Holds
  <1>3. ASSUME pc'[w] = pc[w], cur'[w] = cur[w], ctx'[w] = ctx[w],
               pc[w] \in Dispatching => row'[cur[w]].step = row[cur[w]].step
        PROVE  Remembers(w)'
    BY <1>1, <1>3 DEF Remembers
  <1>4. ASSUME NEW newPlan \in Plans, Replace(newPlan) PROVE Remembers(w)'
    <2>1. ASSUME pc[w] \in Dispatching PROVE row'[cur[w]].step = NoStep
      BY <1>2, <1>4, <2>1 DEF Replace, TypeOK, TableType, Row
    <2> QED
      BY <1>4, <2>1 DEF Replace, Remembers, worker
  <1>5. ASSUME NEW v \in Workers, InsertNext(v) PROVE Remembers(w)'
    <2>1. CASE v = w
      BY <1>5, <2>1 DEF InsertNext, Return, Goto, Remembers, Dispatching, TypeOK, WorkerType
    <2>2. CASE v # w
      <3>1. pc'[w] = pc[w] /\ cur'[w] = cur[w] /\ ctx'[w] = ctx[w]
        BY <1>5, <2>2, ContextKept DEF TypeOK, WorkerStep
      <3>2. ASSUME pc[w] \in Dispatching PROVE row'[cur[w]] = row[cur[w]]
        <4>1. row[cur[w]].status # "absent"
          BY <1>2, <3>2 DEF Present
        <4> QED
          BY <1>2, <1>5, <3>2, <4>1 DEF InsertNext, TypeOK, TableType
      <3> QED
        BY <1>3, <3>1, <3>2
    <2> QED
      BY <2>1, <2>2
  <1>6. CASE ~(\E v \in Workers : InsertNext(v)) /\ ~(\E newPlan \in Plans : Replace(newPlan))
    <2>1. \A r \in RowId : row'[r].step = row[r].step
      BY <1>6, StepsKept
    <2>2. CASE WorkerStep(w)
      <3>1. CASE pc[w] \in Dispatching /\ pc'[w] \in Dispatching
        <4>1. cur'[w] = cur[w] /\ ctx'[w].step = ctx[w].step /\ row'[cur[w]].step = row[cur[w]].step
          BY <1>2, <2>1, <2>2, <3>1, HolderStep
        <4>2. SUFFICES ASSUME row[cur[w]].step # NoStep PROVE ctx'[w].found
          BY <1>1, <3>1, <4>1 DEF Remembers
        <4>3. row[cur[w]].step = ctx[w].step /\ StepExists(row[cur[w]].step)
          BY <1>1, <1>2, <3>1, <4>2 DEF Remembers, References
        <4> QED
          BY <1>1, <2>2, <3>1, <4>2, <4>3, FoundOnce DEF Remembers
      <3>2. CASE pc[w] \notin Dispatching /\ pc'[w] \in Dispatching
        BY <2>1, <2>2, <3>2, LeaseStepId DEF Remembers
      <3>3. CASE pc'[w] \notin Dispatching
        BY <3>3 DEF Remembers, Dispatching
      <3> QED
        BY <3>1, <3>2, <3>3
    <2>3. ASSUME NEW v \in Workers, v # w, WorkerStep(v) \/ Crash(v) PROVE Remembers(w)'
      BY <1>2, <1>3, <2>1, <2>3, ContextKept DEF TypeOK
    <2>4. CASE Crash(w)
      BY <2>4 DEF Crash, Goto, Remembers, Dispatching, TypeOK, WorkerType
    <2>5. CASE UNCHANGED worker
      BY <1>2, <1>3, <2>1, <2>5 DEF worker
    <2> QED
      BY <1>6, <2>2, <2>3, <2>4, <2>5 DEF Next, LeaseAges, StepDue
  <1> QED
    BY <1>4, <1>5, <1>6

\* It holds in every reachable state.
LEMMA RememberedCorrect == Spec => []StepsRemembered
  <1>1. Init => StepsRemembered
    BY DEF Init, StepsRemembered, Remembers, Dispatching
  <1>2. ASSUME TypeOK, References, Present, StepsRemembered, [Next]_vars
        PROVE  StepsRemembered'
    <2>1. CASE UNCHANGED vars
      BY <1>2, <2>1 DEF StepsRemembered, Remembers, vars, table, worker
    <2> QED
      BY <1>2, <2>1, RememberedStep
  <1> QED
    BY <1>1, <1>2, TypeCorrect, ReferencesHold, PresentCorrect, PTL DEF Spec

\* A fault is spent where it strikes.
LEMMA FaultSpends ==
  ASSUME TypeOK, NEW kind, Fault(kind) PROVE budget' < budget
  BY DEF Fault, TypeOK, HistoryType

\* A worker between markStepSent and the end of scheduleNextStep gives its row up with the
\* successor's row in place, or because a fault has hit it.
LEMMA ChainStep ==
  ASSUME TypeOK, References, StepsFit, StepsRemembered, Next, NEW w \in Workers,
         pc[w] \in {"chain", "insert"}, cur'[w] # cur[w],
         NextStep(row[cur[w]].step) # NoStep, ~(budget' < budget)
  PROVE  \E q \in RowId : q[1] = cur[w][1] /\ row'[q].step = NextStep(row[cur[w]].step)
  <1> USE DEF TypeOK
  <1> DEFINE c == cur[w]
             next == NextStep(row[c].step)
  <1>1. c \in RowId /\ c[1] \in Prospects
    BY HeldRow, RowIds DEF Dispatching
  <1>2. StepExists(row[c].step) /\ row[c].step # NoStep
    <2>1. StepExists(row[c].step)
      BY DEF NextStep
    <2>2. ~StepExists(NoStep)
      BY DEF StepExists, NoStep
    <2> QED
      BY <2>1, <2>2
  <1>3. row[c].step = ctx[w].step /\ ctx[w].found
    BY <1>2 DEF StepsRemembered, Remembers, Dispatching
  <1>4. ~(\E kind : Fault(kind))
    BY FaultSpends
  <1>5. LookupNext(w) \/ InsertNext(w)
    <2>1. \A v \in Workers : WorkerStep(v) \/ Crash(v) => v = w
      BY ContextKept
    <2>2. ~Crash(w)
      BY <1>4 DEF Crash
    <2>3. WorkerStep(w)
      BY <2>1, <2>2 DEF Next, LeaseAges, StepDue, Replace, worker
    <2> QED
      BY <2>3 DEF WorkerStep, ReleaseStale, ListDue, Lease, Load, Accepted, ReplyLost, Refused,
         Bookkeep, Mark, SetWon, Fail, Release, At
  <1>6. InsertNext(w)
    <2>1. ASSUME LookupNext(w) PROVE FALSE
      <3>1. next = IF ctx[w].found THEN NextStep(ctx[w].step) ELSE NoStep
        BY <1>3
      <3>2. UNCHANGED cur
        BY <1>4, <2>1, <3>1 DEF LookupNext
      <3> QED
        BY <3>2
    <2> QED
      BY <1>5, <2>1
  <1>7. ctx[w].next = next
    <2>1. pc[w] = "insert" /\ ctx[w].next = <<ctx[w].step[1], ctx[w].step[2] + 1>>
      BY <1>6 DEF InsertNext, StepsFit, StepFits
    <2>2. next = <<version, row[c].step[2] + 1>> /\ row[c].step[1] = version
      BY <1>2 DEF NextStep, StepExists
    <2> QED
      BY <1>3, <2>1, <2>2
  <1>8. CASE MayInsert(c[1], next)
    <2>1. PICK n \in 1..MaxRows : row' = [row EXCEPT ![<<c[1], n>>] = NewRow(next, plan[next[2]])]
      BY <1>4, <1>6, <1>7, <1>8 DEF InsertNext
    <2>2. <<c[1], n>> \in RowId
      BY <1>1, RowIds
    <2>3. row'[<<c[1], n>>].step = next
      BY <2>1, <2>2 DEF TableType, NewRow
    <2> QED
      BY <2>2, <2>3
  <1>9. CASE ~MayInsert(c[1], next)
    <2>1. UNCHANGED row
      BY <1>4, <1>6, <1>7, <1>9 DEF InsertNext
    <2>2. StepExists(next)
      <3>1. plan \in Seq(Kinds)
        BY PlanType DEF TableType
      <3>2. next = <<version, row[c].step[2] + 1>> /\ row[c].step[2] < Len(plan) /\ row[c].step[2] \in 1..Len(plan)
        BY <1>2 DEF NextStep, StepExists
      <3>3. row[c].step[2] + 1 \in 1..Len(plan)
        BY <3>1, <3>2
      <3> QED
        BY <3>2, <3>3 DEF StepExists
    <2>3. PICK q \in RowId : q[1] = c[1] /\ row[q].step = next
      BY <1>9, <2>2 DEF MayInsert, Indexed
    <2> QED
      BY <2>1, <2>3
  <1> QED
    BY <1>8, <1>9

\* What breaks a chain between markStepSent and CreateProspectStep is a crash or a failing
\* statement, whatever is edited and whoever else dispatches the prospect's rows.
THEOREM ChainsStopByFault == Spec => ChainStopsByFault
  <1>1. TypeOK /\ References /\ StepsFit /\ StepsRemembered /\ [Next]_vars =>
          [\A w \in Workers :
             LET next == NextStep(row[cur[w]].step)
             IN pc[w] \in {"chain", "insert"} /\ cur'[w] # cur[w] /\ next # NoStep
                  => \/ budget' < budget
                     \/ \E q \in RowId : q[1] = cur[w][1] /\ row'[q].step = next]_vars
    BY ChainStep
  <1> QED
    BY <1>1, TypeCorrect, ReferencesHold, StepsFitCorrect, RememberedCorrect, PTL
    DEF Spec, ChainStopsByFault

-----------------------------------------------------------------------------
(* One conversation                                                        *)

\* Worker w is about to store the id of the chat it opened with p.
Storing(w, p) ==
  pc[w] = "book" /\ cur[w][1] = p /\ row[cur[w]].kind # "invite"

\* At most one chat is open with p; its id is stored or a worker is about to store
\* it; and a worker about to call has read the id that is stored.
ChatFits(p) ==
  /\ chats[p] <= 1
  /\ \A w \in Workers : Storing(w, p) => ctx[w].chat = chats[p]
  /\ \A w \in Workers : pc[w] = "call" /\ cur[w][1] = p => ctx[w].chat = prospect[p].chat
  /\ chats[p] = prospect[p].chat \/ \E w \in Workers : Storing(w, p)
ChatsFit == \A p \in Prospects : ~Lapsed(p) => ChatFits(p)

\* Without a lapse only one worker at a time is busy with a prospect.
LEMMA OneBusyWorker ==
  ASSUME TypeOK, LeaseDiscipline, OneToken, NEW v \in Workers, NEW w \in Workers,
         pc[v] \in Dispatching, pc[w] \in Dispatching, cur[v][1] = cur[w][1],
         ~Lapsed(cur[w][1])
  PROVE  v = w
  <1>1. cur[v] \in RowId /\ Holds(v, cur[v]) /\ cur[w] \in RowId /\ Holds(w, cur[w])
    BY HeldRow DEF TypeOK, Holds
  <1>2. cur[v] = cur[w]
    BY <1>1 DEF OneToken, Token
  <1>3. RowInv(cur[w])
    BY <1>1, UnlapsedRow
  <1> QED
    BY <1>1, <1>2, <1>3 DEF RowInv

\* The kind of a row that is there never changes.
LEMMA KindKept ==
  ASSUME TypeOK, Next, NEW r \in RowId, row[r].status # "absent"
  PROVE  row'[r].kind = row[r].kind
  <1> USE DEF TypeOK, table
  <1>1. ASSUME NEW q \in RowId, NEW s \in RowStatus, SetStatus(q, s)
        PROVE  row'[r].kind = row[r].kind
    <2>1. row'[q].kind = WithStatus(q, s).kind /\ \A o \in RowId \ {q} : row'[o] = row[o]
      BY <1>1 DEF SetStatus, TableType
    <2>2. WithStatus(q, s).kind = row[q].kind
      BY WithStatusType DEF TableType
    <2> QED
      BY <2>1, <2>2
  <1>2. ASSUME NEW w \in Workers, WorkerStep(w) PROVE row'[r].kind = row[r].kind
    <2>1. CASE ReleaseStale(w)
      BY <2>1, WithStatusType DEF ReleaseStale, TableType, RowStatus
    <2>2. ASSUME NEW q \in RowId, Lease(w, q) PROVE row'[r].kind = row[r].kind
      BY <1>1, <2>2 DEF Lease, Skip, RowStatus
    <2>3. CASE Mark(w) \/ Fail(w) \/ Release(w)
      <3>1. cur[w] \in RowId
        BY <2>3, HeldRow DEF Mark, Fail, Release, At, Dispatching
      <3> QED
        BY <1>1, <2>3, <3>1 DEF Mark, Fail, Release, RowStatus
    <2>4. CASE InsertNext(w)
      BY <2>4 DEF InsertNext, TableType
    <2> QED
      BY <1>2, <2>1, <2>2, <2>3, <2>4
      DEF WorkerStep, ListDue, Load, Accepted, ReplyLost, Refused, Bookkeep, SetWon,
          LookupNext
  <1>3. ASSUME \/ \E w \in Workers : Crash(w)
               \/ \E q \in RowId : LeaseAges(q) \/ StepDue(q)
               \/ \E newPlan \in Plans : Replace(newPlan)
        PROVE  row'[r].kind = row[r].kind
    BY <1>3 DEF Crash, LeaseAges, StepDue, Replace, TableType, Row
  <1> QED
    BY <1>2, <1>3 DEF Next

\* Where w stands decides whether it is storing a chat id of p.
LEMMA StoringKept ==
  ASSUME TypeOK, Present, Next, NEW w \in Workers, NEW p \in Prospects,
         pc'[w] = pc[w], cur'[w] = cur[w]
  PROVE  Storing(w, p)' <=> Storing(w, p)
  <1>1. CASE pc[w] = "book"
    <2>1. cur[w] \in RowId /\ row[cur[w]].status # "absent"
      BY <1>1, HeldRow DEF TypeOK, Holds, Dispatching, Present
    <2>2. row'[cur[w]].kind = row[cur[w]].kind
      BY <2>1, KindKept
    <2> QED
      BY <2>2 DEF Storing
  <1>2. CASE pc[w] # "book"
    BY <1>2 DEF Storing
  <1> QED
    BY <1>1, <1>2

\* A worker that neither is, nor gets, before or behind the call concerns no chat.
LEMMA ChatUndisturbed ==
  ASSUME TypeOK, Present, Next, NEW p \in Prospects, ChatFits(p), NEW w \in Workers,
         chats'[p] = chats[p], prospect'[p].chat = prospect[p].chat,
         \A v \in Workers \ {w} : pc'[v] = pc[v] /\ cur'[v] = cur[v] /\ ctx'[v] = ctx[v],
         \/ pc'[w] = pc[w] /\ cur'[w] = cur[w] /\ ctx'[w] = ctx[w]
         \/ /\ pc[w] # "book" \/ cur[w][1] # p
            /\ pc'[w] \notin {"call", "book"} \/ cur'[w][1] # p
  PROVE  ChatFits(p)'
  <1>1. \A v \in Workers \ {w} : Storing(v, p)' <=> Storing(v, p)
    BY StoringKept
  <1>2. CASE pc'[w] = pc[w] /\ cur'[w] = cur[w] /\ ctx'[w] = ctx[w]
    <2>1. \A v \in Workers : Storing(v, p)' <=> Storing(v, p)
      BY <1>1, <1>2, StoringKept
    <2>2. \A v \in Workers : pc'[v] = pc[v] /\ cur'[v] = cur[v] /\ ctx'[v] = ctx[v]
      BY <1>2
    <2> QED
      BY <2>1, <2>2 DEF ChatFits
  <1>3. CASE /\ pc[w] # "book" \/ cur[w][1] # p
             /\ pc'[w] \notin {"call", "book"} \/ cur'[w][1] # p
    <2>1. ~Storing(w, p) /\ ~Storing(w, p)'
      BY <1>3 DEF Storing
    <2>2. ~(pc'[w] = "call" /\ cur'[w][1] = p)
      BY <1>3
    <2> QED
      BY <1>1, <2>1, <2>2 DEF ChatFits
  <1> QED
    BY <1>2, <1>3

\* Every step keeps ChatsFit.
LEMMA ChatsFitStep ==
  ASSUME TypeOK, LeaseDiscipline, OneToken, Present, ChatsFit, Next,
         NEW p \in Prospects, ~Lapsed(p)'
  PROVE  ChatFits(p)'
  <1> USE DEF TypeOK, table, ghost, worker
  <1>1. ~Lapsed(p) /\ ChatFits(p)
    BY LapseGrows DEF Lapsed, ChatsFit
  <1>2. ASSUME NEW w \in Workers, WorkerStep(w) PROVE ChatFits(p)'
    <2>1. \A v \in Workers \ {w} : pc'[v] = pc[v] /\ cur'[v] = cur[v] /\ ctx'[v] = ctx[v]
      BY <1>2, ContextKept
    <2>2. CASE ReleaseStale(w) \/ ListDue(w) \/ \E r \in RowId : Lease(w, r)
      <3>1. pc[w] # "book" /\ pc'[w] \notin {"call", "book"} /\ UNCHANGED <<chats, prospect>>
        BY <2>2 DEF ReleaseStale, ListDue, Lease, Skip, Goto, WorkerType
      <3> QED
        BY <1>1, <2>1, <3>1, ChatUndisturbed
    <2>3. CASE Refused(w) \/ Mark(w) \/ LookupNext(w) \/ InsertNext(w) \/ Fail(w) \/ Release(w)
      <3>1. pc[w] # "book" /\ pc'[w] \notin {"call", "book"} /\ UNCHANGED <<chats, prospect>>
        BY <2>3 DEF Refused, Mark, LookupNext, InsertNext, Fail, Release, Return, At, Goto,
                    WorkerType
      <3> QED
        BY <1>1, <2>1, <3>1, ChatUndisturbed
    <2>4. CASE SetWon(w)
      <3>1. /\ pc[w] # "book" /\ pc'[w] \notin {"call", "book"} /\ UNCHANGED chats
            /\ prospect'[p].chat = prospect[p].chat
        BY <2>4 DEF SetWon, Return, Goto, WorkerType, TableType
      <3> QED
        BY <1>1, <2>1, <3>1, ChatUndisturbed
    <2>5. CASE (Load(w) \/ Accepted(w) \/ ReplyLost(w) \/ Bookkeep(w)) /\ cur[w][1] # p
      <3>1. cur[w] \in RowId /\ cur[w][1] \in Prospects /\ cur'[w] = cur[w]
        BY <2>5, HeldRow, RowIds
        DEF Load, Accepted, ReplyLost, Bookkeep, At, Dispatching
      <3>2. chats'[p] = chats[p]
        BY <2>5, <3>1 DEF Load, Accepted, ReplyLost, Bookkeep, TakeEffect, HistoryType
      <3>3. prospect'[p].chat = prospect[p].chat
        BY <2>5, <3>1 DEF Load, Accepted, ReplyLost, Bookkeep, Invited, ChatStored, TableType
      <3> QED
        BY <1>1, <2>1, <2>5, <3>1, <3>2, <3>3, ChatUndisturbed
    <2>6. ASSUME cur[w][1] = p, pc[w] \in {"load", "call", "book"}
          PROVE  \A v \in Workers \ {w} : pc[v] \in Dispatching => cur[v][1] # p
      BY <1>1, <2>6, OneBusyWorker DEF Dispatching
    <2>7. ASSUME cur[w][1] = p, pc[w] \in {"load", "call", "book"}
          PROVE  \A v \in Workers \ {w} :
                   ~Storing(v, p) /\ ~Storing(v, p)' /\ ~(pc'[v] = "call" /\ cur'[v][1] = p)
      BY <2>1, <2>6, <2>7 DEF Storing, Dispatching
    <2>8. CASE Load(w) /\ cur[w][1] = p
      <3>1. /\ pc[w] = "load" /\ pc'[w] # "book" /\ cur'[w] = cur[w]
            /\ UNCHANGED <<chats, prospect>> /\ ctx'[w].chat = prospect[p].chat
        BY <2>8 DEF Load, At, Goto, WorkerType, Context
      <3>2. ~Storing(w, p) /\ ~Storing(w, p)'
        BY <3>1 DEF Storing
      <3> QED
        BY <1>1, <2>7, <2>8, <3>1, <3>2 DEF ChatFits
    <2>9. CASE ReplyLost(w) /\ cur[w][1] = p
      <3>1. cur[w] \in lapse'
        BY <2>9 DEF ReplyLost, Lapse
      <3> QED
        BY <2>9, <3>1 DEF Lapsed
    <2>10. CASE Accepted(w) /\ cur[w][1] = p
      <3>1. /\ pc[w] = "call" /\ cur'[w] = cur[w] /\ UNCHANGED <<row, prospect>>
            /\ ctx[w].chat = prospect[p].chat /\ chats[p] = prospect[p].chat
            /\ chats[p] \in Nat
        BY <1>1, <2>7, <2>10 DEF Accepted, At, ChatFits, Storing, HistoryType
      <3>2. CASE row[cur[w]].kind = "message" /\ ctx[w].chat = 0
        <4>1. /\ pc'[w] = "book" /\ chats'[p] = chats[p] + 1
              /\ ctx'[w].chat = chats[p] + 1
          BY <2>10, <3>2
          DEF Accepted, TakeEffect, HasBookkeeping, Goto, WorkerType, HistoryType, Context
        <4>2. Storing(w, p)'
          BY <2>10, <3>1, <3>2, <4>1 DEF Storing
        <4>3. chats[p] = 0
          BY <3>1, <3>2
        <4> QED
          BY <2>7, <2>10, <3>1, <4>1, <4>2, <4>3 DEF ChatFits
      <3>3. CASE ~(row[cur[w]].kind = "message" /\ ctx[w].chat = 0)
        <4>1. UNCHANGED <<chats, ctx>>
          BY <2>10, <3>3 DEF Accepted, TakeEffect
        <4>2. pc'[w] # "call"
          BY <2>10 DEF Accepted, Goto, WorkerType
        <4>3. ctx'[w].chat = chats'[p] /\ chats'[p] = prospect'[p].chat
          BY <3>1, <4>1
        <4> QED
          BY <1>1, <2>7, <2>10, <3>1, <4>1, <4>2, <4>3 DEF ChatFits
      <3> QED
        BY <3>2, <3>3
    <2>11. CASE Bookkeep(w) /\ cur[w][1] = p
      <3>1. pc[w] = "book" /\ pc'[w] = "mark" /\ UNCHANGED chats
        BY <2>11 DEF Bookkeep, At, Goto, WorkerType
      <3>2. cur[w] \notin lapse'
        BY <2>11, HeldRow DEF Lapsed
      <3>3. prospect' = IF row[cur[w]].kind = "invite"
                          THEN Invited(p) ELSE ChatStored(p, ctx[w].chat)
        BY <2>11, <3>2 DEF Bookkeep, Lapse
      <3>4. prospect'[p].chat = chats'[p]
        <4>1. CASE Storing(w, p)
          <5>1. ctx[w].chat = chats[p]
            BY <1>1, <4>1 DEF ChatFits
          <5>2. prospect' = ChatStored(p, ctx[w].chat)
            BY <3>3, <4>1 DEF Storing
          <5> QED
            BY <3>1, <5>1, <5>2 DEF ChatStored, TableType
        <4>2. CASE ~Storing(w, p)
          <5>1. chats[p] = prospect[p].chat
            BY <1>1, <2>7, <2>11, <3>1, <4>2 DEF ChatFits
          <5>2. prospect' = Invited(p)
            BY <2>11, <3>1, <3>3, <4>2 DEF Storing
          <5> QED
            BY <3>1, <5>1, <5>2 DEF Invited, TableType
        <4> QED
          BY <4>1, <4>2
      <3>5. ~Storing(w, p)' /\ pc'[w] # "call"
        BY <3>1 DEF Storing
      <3> QED
        BY <1>1, <2>7, <2>11, <3>1, <3>4, <3>5 DEF ChatFits
    <2> QED
      BY <1>2, <2>2, <2>3, <2>4, <2>5, <2>8, <2>9, <2>10, <2>11 DEF WorkerStep
  <1>3. ASSUME NEW w \in Workers, Crash(w) PROVE ChatFits(p)'
    <2>1. \A v \in Workers \ {w} : pc'[v] = pc[v] /\ cur'[v] = cur[v] /\ ctx'[v] = ctx[v]
      BY <1>3, ContextKept
    <2>2. pc'[w] = "idle" /\ UNCHANGED <<chats, prospect>>
      BY <1>3 DEF Crash, Goto, WorkerType
    <2>3. CASE pc[w] = "book"
      <3>1. cur[w] \in RowId /\ cur[w] \in lapse'
        BY <1>3, <2>3, HeldRow DEF Crash, Lapse, Dispatching
      <3>2. cur[w][1] # p
        BY <3>1 DEF Lapsed
      <3> QED
        BY <1>1, <2>1, <2>2, <3>2, ChatUndisturbed
    <2>4. CASE pc[w] # "book"
      BY <1>1, <2>1, <2>2, <2>4, ChatUndisturbed
    <2> QED
      BY <2>3, <2>4
  <1>4. ASSUME UNCHANGED <<worker, chats, prospect>> PROVE ChatFits(p)'
    <2>1. \A v \in Workers : Storing(v, p)' <=> Storing(v, p)
      BY <1>4, StoringKept
    <2> QED
      BY <1>1, <1>4, <2>1 DEF ChatFits
  <1> QED
    BY <1>2, <1>3, <1>4 DEF Next, LeaseAges, StepDue, Replace

\* dispatchMessage opens a second chat with a prospect only after a lapse, although
\* it reads chat_id long before it writes it.
THEOREM ConversationIsOne == Spec => []OneConversation
  <1>1. Init => ChatsFit
    BY DEF Init, ChatsFit, ChatFits, Storing
  <1>2. ASSUME TypeOK, LeaseDiscipline, OneToken, Present, ChatsFit, [Next]_vars
        PROVE  ChatsFit'
    <2>1. CASE UNCHANGED vars
      BY <1>2, <2>1
      DEF ChatsFit, ChatFits, Storing, Lapsed, vars, table, worker, ghost
    <2>2. CASE Next
      BY <1>2, <2>2, ChatsFitStep DEF ChatsFit
    <2> QED
      BY <1>2, <2>1, <2>2
  <1>3. TypeOK /\ ChatsFit => OneConversation
    <2> SUFFICES ASSUME TypeOK, ChatsFit, NEW p \in Prospects, ~Lapsed(p)
                 PROVE  ~(chats[p] > 1)
      BY DEF OneConversation
    <2>1. chats[p] \in Nat /\ chats[p] <= 1
      BY DEF ChatsFit, ChatFits, TypeOK, HistoryType
    <2> QED
      BY <2>1
  <1> QED
    BY <1>1, <1>2, <1>3, TypeCorrect, LeaseCorrect, TokenCorrect, PresentCorrect, PTL
    DEF Spec

-----------------------------------------------------------------------------
(* The end of the sequence                                                 *)

\* Once a prospect is 'won' no row of it is open or in a worker's hands.
WonIsOver ==
  \A r \in RowId : prospect[r[1]].status = "won" /\ ~Lapsed(r[1]) => ~Token(r)

\* A prospect's status is written only by the worker that holds its token.
LEMMA StatusWritten ==
  ASSUME TypeOK, Next, NEW p \in Prospects, prospect'[p].status # prospect[p].status
  PROVE  \E w \in Workers : /\ SetWon(w) \/ (Bookkeep(w) /\ pc[w] = "book")
                            /\ cur[w] \in RowId /\ Holds(w, cur[w]) /\ cur[w][1] = p
  <1> USE DEF TypeOK, table
  <1>1. PICK w \in Workers : SetWon(w) \/ Bookkeep(w)
    BY DEF Next, WorkerStep, ReleaseStale, ListDue, Lease, Load, Accepted, ReplyLost,
       Refused, Mark, LookupNext, InsertNext, Fail, Release, Crash, LeaseAges, StepDue,
       Replace
  <1>2. cur[w] \in RowId /\ Holds(w, cur[w])
    BY <1>1, HeldRow DEF SetWon, Bookkeep, At, Holds, Dispatching
  <1>3. cur[w][1] = p
    BY <1>1, <1>2, RowIds DEF SetWon, Bookkeep, Invited, ChatStored, TableType
  <1> QED
    BY <1>1, <1>2, <1>3 DEF Bookkeep, At

\* Every step keeps WonIsOver: SetWon's worker held the only token and returns.
LEMMA WonIsOverStep ==
  ASSUME TypeOK, LeaseDiscipline, OneToken, WonIsOver, Next, NEW r \in RowId,
         (prospect[r[1]].status = "won")', ~Lapsed(r[1])'
  PROVE  ~Token(r)'
  <1> USE DEF TypeOK
  <1>1. ~Lapsed(r[1]) /\ r[1] \in Prospects
    BY LapseGrows, RowIds DEF Lapsed
  <1>2. CASE prospect[r[1]].status = "won"
    <2>1. \A q \in RowId : q[1] = r[1] => ~Token(q)
      BY <1>1, <1>2 DEF WonIsOver
    <2>2. ASSUME NEW w \in Workers, InsertNext(w) PROVE ~Token(r)'
      <3>1. cur[w] \in RowId /\ Holds(w, cur[w])
        BY <2>2, HeldRow DEF InsertNext, Holds, Dispatching
      <3>2. cur[w][1] # r[1]
        BY <2>1, <3>1 DEF Token
      <3>3. row'[r] = row[r]
        <4>1. \A n \in 1..MaxRows : <<cur[w][1], n>> # r
          BY <3>2
        <4>2. CASE UNCHANGED row
          BY <4>2
        <4>3. \A n \in 1..MaxRows : \A x : row' = [row EXCEPT ![<<cur[w][1], n>>] = x]
                => row'[r] = row[r]
          BY <4>1 DEF TableType
        <4> QED
          BY <2>2, <4>2, <4>3 DEF InsertNext
      <3>4. \A v \in Workers : Holds(v, r)' => Holds(v, r)
        BY <2>2, ReturnHolds DEF InsertNext
      <3> QED
        BY <2>1, <3>3, <3>4 DEF Token, Open
    <2> QED
      BY <2>1, <2>2, TokenKept
  <1>3. CASE prospect[r[1]].status # "won"
    <2>1. PICK w \in Workers : /\ SetWon(w) \/ (Bookkeep(w) /\ pc[w] = "book")
                               /\ cur[w] \in RowId /\ Holds(w, cur[w]) /\ cur[w][1] = r[1]
      BY <1>1, <1>3, StatusWritten
    <2>2. SetWon(w)
      BY <1>1, <1>3, <2>1 DEF Bookkeep, Invited, ChatStored, TableType
    <2>3. Token(r) => r = cur[w]
      BY <1>1, <2>1 DEF OneToken, Token
    <2>4. RowInv(cur[w])
      BY <1>1, <2>1, UnlapsedRow
    <2>5. row[cur[w]].status = "sent" /\ \A v \in Workers : Holds(v, cur[w]) => v = w
      BY <2>1, <2>2, <2>4 DEF RowInv, AfterMark, SetWon
    <2>6. UNCHANGED row
      BY <2>2 DEF SetWon
    <2>7. \A v \in Workers : Holds(v, r)' => Holds(v, r) /\ v # w
      BY <2>2, ReturnHolds DEF SetWon
    <2> QED
      BY <2>3, <2>5, <2>6, <2>7 DEF Token, Open
  <1> QED
    BY <1>2, <1>3

\* SetProspectInvited writes 'invited' unconditionally, yet a 'won' prospect is
\* turned back only after a lapse.
THEOREM WonStaysWon == Spec => WonIsFinal
  <1>1. Init => WonIsOver
    <2> SUFFICES ASSUME Init, NEW r \in RowId PROVE prospect[r[1]].status # "won"
      BY DEF WonIsOver
    <2> QED
      BY RowIds DEF Init
  <1>2. ASSUME TypeOK, LeaseDiscipline, OneToken, WonIsOver, [Next]_vars
        PROVE  WonIsOver'
    <2>1. CASE UNCHANGED vars
      BY <1>2, <2>1
      DEF WonIsOver, Token, Open, Holds, Lapsed, vars, table, worker, ghost
    <2>2. CASE Next
      BY <1>2, <2>2, WonIsOverStep DEF WonIsOver
    <2> QED
      BY <1>2, <2>1, <2>2
  <1>3. TypeOK /\ WonIsOver /\ [Next]_vars =>
          [\A p \in Prospects :
             prospect[p].status = "won" /\ prospect'[p].status # "won" => Lapsed(p)']_vars
    <2> SUFFICES ASSUME TypeOK, WonIsOver, Next, NEW p \in Prospects,
                        prospect[p].status = "won", prospect'[p].status # "won"
                 PROVE  Lapsed(p)'
      OBVIOUS
    <2>1. PICK w \in Workers : cur[w] \in RowId /\ Holds(w, cur[w]) /\ cur[w][1] = p
      BY StatusWritten
    <2>2. Lapsed(p)
      BY <2>1 DEF WonIsOver, Token
    <2> QED
      BY <2>2, LapseGrows DEF Lapsed
  <1> QED
    BY <1>1, <1>2, <1>3, TypeCorrect, LeaseCorrect, TokenCorrect, PTL DEF Spec, WonIsFinal
=============================================================================
