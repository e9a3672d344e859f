----------------------- MODULE CampaignDispatchProps -----------------------
(***************************************************************************)
(* What the campaign loop promises.  Most promises are about rows that no  *)
(* fault has hit at the wrong moment: `lapse` holds the others.  A row     *)
(* lapses when its worker dies, or a statement fails, between LinkedIn's   *)
(* acceptance and the end of the bookkeeping, when the answer of an        *)
(* accepted call is lost, or when a live worker outlasts its lease.        *)
(***************************************************************************)
EXTENDS CampaignDispatch

TableType ==
  /\ plan \in Plans /\ version \in Nat
  /\ prospect \in [Prospects -> [status: {"queued", "invited", "won"}, chat: Nat]]
  /\ row \in [RowId -> Row]

WorkerType ==
  /\ pc \in [Workers -> {"idle", "list", "work"} \cup Dispatching]
  /\ batch \in [Workers -> SUBSET RowId]
  /\ cur \in [Workers -> RowId \cup {NoRow}]
  /\ ctx \in [Workers -> Context]
  /\ \A w \in Workers : pc[w] \in Dispatching <=> cur[w] # NoRow

HistoryType ==
  /\ budget \in Nat
  /\ performed \in [RowId -> Nat] /\ chats \in [Prospects -> Nat]
  /\ lapse \in SUBSET RowId

\* Every variable has its type, and a worker holds a row exactly while it is
\* inside dispatchStep.
TypeOK == TableType /\ WorkerType /\ HistoryType

Lapsed(p) == \E r \in lapse : r[1] = p

\* LeaseProspectStep is a lock: unless the row has lapsed, two workers are never
\* inside dispatchStep with the same row, however ticks, crashes and stale-lease
\* releases of several instances interleave.
ExclusiveLease ==
  \A r \in RowId \ lapse : \A v, w \in Workers :
    Holds(v, r) /\ Holds(w, r) => v = w

\* A step reaches LinkedIn twice only if its row lapsed: the four causes of a
\* duplicate invitation or message are the ones that set `lapse`, no other.
DuplicateNeedsLapse ==
  \A r \in RowId : performed[r] > 1 => r \in lapse

\* What LinkedIn has carried out is recorded: once no worker is busy with it, the
\* row of a performed step says 'sent', not 'failed' and not 'pending', although
\* failStep, releaseStep and the stale-lease release all write to the row.
AcceptedIsRecorded ==
  \A r \in RowId \ lapse :
    performed[r] > 0 /\ (\A w \in Workers : ~Holds(w, r)) => row[r].status = "sent"

\* How a row, its status and what LinkedIn has seen hang together: the holder is
\* the only one, its lease is young, the row is 'processing' before markStepSent
\* and 'sent' after it, and the step is performed exactly from the call on.
BeforeCall == {"load", "call", "fail", "release"}
AfterMark == {"won", "chain", "insert"}
RowInv(r) ==
  /\ \A v, w \in Workers : Holds(v, r) /\ Holds(w, r) => v = w
  /\ \A w \in Workers : Holds(w, r) =>
       /\ ~row[r].aged
       /\ row[r].status = (IF pc[w] \in AfterMark THEN "sent" ELSE "processing")
       /\ performed[r] = (IF pc[w] \in BeforeCall THEN 0 ELSE 1)
  /\ (\A w \in Workers : ~Holds(w, r)) =>
       performed[r] = (IF row[r].status = "sent" THEN 1 ELSE 0)
LeaseDiscipline == \A r \in RowId \ lapse : RowInv(r)

\* A prospect is in one place of its sequence: without a lapse it has at most one
\* row that is still to be dispatched.
Open(r) == row[r].status \in {"pending", "processing"}
OneOpenStep ==
  \A q, r \in RowId : q[1] = r[1] /\ Open(q) /\ Open(r) /\ ~Lapsed(r[1]) => q = r

\* dispatchMessage reads chat_id long before it writes it; still it opens a second
\* chat with a prospect only after a lapse.
OneConversation ==
  \A p \in Prospects : chats[p] > 1 => Lapsed(p)

\* Sequence order: a row for step k exists only if the prospect has a row of step
\* k-1 that took effect, whatever fails, crashes or is edited in between.
InOrder ==
  \A r \in RowId : row[r].step # NoStep /\ row[r].step[2] > 1 =>
    \E q \in RowId : /\ q[1] = r[1] /\ performed[q] > 0
                     /\ row[q].step = <<row[r].step[1], row[r].step[2] - 1>>

\* The foreign key and the partial unique index hold: a row refers to a step of
\* the saved sequence, and no two live rows of a prospect to the same one.
Live(r) == r \in Indexed(r[1], row[r].step)
References ==
  /\ \A r \in RowId : row[r].step # NoStep => StepExists(row[r].step)
  /\ \A q, r \in RowId : /\ Live(q) /\ Live(r)
                         /\ q[1] = r[1] /\ row[q].step = row[r].step
                         => q = r

\* markStepSent, failStep and the lease write by id alone, yet a row that says
\* 'sent' never leaves that status unless it lapsed.
SentIsFinal ==
  [][\A r \in RowId : row[r].status = "sent" /\ row'[r].status # "sent"
                        => r \in lapse']_vars

\* SetProspectInvited writes 'invited' unconditionally, yet a prospect that is
\* 'won' is never turned back unless one of its rows lapsed.
WonIsFinal ==
  [][\A p \in Prospects : prospect[p].status = "won" /\ prospect'[p].status # "won"
                            => Lapsed(p)']_vars

\* markStepSent and scheduleNextStep's two statements are not one transaction, and what
\* is missed in between is never made up for.  What breaks a chain there is a crash or a
\* failing statement, nothing else: the unique index and the foreign key refuse the
\* successor's row only if it exists already, or the operator replaced the sequence.
ChainStopsByFault ==
  [][\A w \in Workers :
       LET next == NextStep(row[cur[w]].step)
       IN pc[w] \in {"chain", "insert"} /\ cur'[w] # cur[w] /\ next # NoStep
            => \/ budget' < budget
               \/ \E q \in RowId : q[1] = cur[w][1] /\ row'[q].step = next]_vars

\* No row is lost: a step that is to be dispatched is eventually sent or failed,
\* through crashes, failing statements and throttling, because leases go stale
\* and every tick frees the stale ones.
Settles ==
  \A r \in RowId : Open(r) ~> row[r].status \in {"sent", "failed"}

\* The chain goes on: when a step is sent its successor's row appears, unless the
\* operator replaced the sequence.  scheduleNextStep is a statement of its own after
\* markStepSent, so this holds only without crashes and failing statements.
Advances ==
  \A r \in RowId :
    row[r].status = "sent" /\ NextStep(row[r].step) # NoStep
      ~> \/ row[r].step = NoStep
         \/ \E q \in RowId : q[1] = r[1] /\ row[q].step = NextStep(row[r].step)
=============================================================================
