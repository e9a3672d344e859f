-------------------------- MODULE CampaignDispatch --------------------------
(***************************************************************************)
(* The campaign loop of the scheduler: one or more server instances (a     *)
(* deploy overlaps the old one with the new one) run tickCampaign against  *)
(* the same Postgres tables.  A tick frees stale leases, lists the due     *)
(* prospect_steps and dispatches them one by one: lease the row, load its  *)
(* context, call LinkedIn through Unipile, do the bookkeeping, mark the    *)
(* row sent and insert the prospect's next step.  Every SQL write and      *)
(* every remote call is one atomic step, the reads that load the context   *)
(* are one, so that instances, crashes and the operator's edit of the      *)
(* sequence interleave with all of them.                                   *)
(***************************************************************************)
EXTENDS Naturals, Sequences, FiniteSets

CONSTANTS
  Workers,    \* server instances running the campaign loop
  Prospects,  \* prospects of one campaign, each with its first step inserted
  Resolved,   \* the prospects that have a linkedin_provider_id
  Plans,      \* the sequences (of step kinds) the operator may save
  BatchSize,  \* Config.BatchSize: rows dispatched in one tick, at most
  Faults,     \* the kinds of fault the environment may cause
  MaxFaults,  \* bound: how many faults happen in one behaviour
  MaxEdits,   \* bound: how often the operator replaces the sequence
  MaxRows,    \* bound: prospect_steps rows of one prospect
  NoRow       \* no row: what a worker that dispatches nothing holds

\* "message" also stands for 'send_message'; "other" for the step types that
\* are not implemented and for a message whose template renders to nothing.
Kinds == {"invite", "message", "wait", "end", "other"}

\* "load" covers every refusal before the call that fails the row: a load
\* error, the kill switch, no account_id.  "lost" is a call LinkedIn carried
\* out although the client saw an error (a timeout), "slow" a live worker that
\* holds its lease for longer than StaleLeaseAge, "db" a statement that fails.
FaultKinds ==
  {"crash", "slow", "db", "load", "nocreds", "throttle", "refuse", "lost"}

RowId == Prospects \X (1..MaxRows)
\* A sequence step is identified by the edit that created it and its index;
\* NoStep is the NULL that ON DELETE SET NULL leaves in step_id.
StepId == Nat \X Nat
NoStep == <<0, 0>>

ASSUME DispatchAssumption ==
  /\ Resolved \subseteq Prospects
  /\ Plans # {} /\ Plans \subseteq Seq(Kinds) \ {<<>>}
  /\ BatchSize \in Nat \ {0}
  /\ Faults \subseteq FaultKinds
  /\ MaxFaults \in Nat /\ MaxEdits \in Nat
  /\ MaxRows \in Nat \ {0}
  /\ NoRow \notin RowId

VARIABLES
  plan,      \* the campaign's sequence_steps: their kinds by index
  version,   \* which edit created them
  prospect,  \* the prospects table: status and chat_id (0 is NULL)
  row,       \* the prospect_steps table
  pc, batch, cur, ctx,  \* per worker: position, rows listed, row held, context
  budget,    \* faults left
  performed, \* history: how often the step of a row took effect on LinkedIn
  chats,     \* history: how many chats were opened with a prospect
  lapse      \* history: the rows whose lease or bookkeeping a fault broke

table  == <<plan, version, prospect, row>>
worker == <<pc, batch, cur, ctx>>
ghost  == <<performed, chats, lapse>>
vars   == <<table, worker, budget, ghost>>

RowStatus == {"absent", "pending", "processing", "sent", "failed"}
\* due: scheduled_at <= NOW(); aged: 'processing' for longer than StaleLeaseAge.
Row == [status: RowStatus, step: StepId, kind: Kinds, due: BOOLEAN, aged: BOOLEAN]
Absent == [status |-> "absent", step |-> NoStep, kind |-> "other",
           due |-> FALSE, aged |-> FALSE]
Context == [step: StepId, found: BOOLEAN, chat: Nat, next: StepId]
NoContext == [step |-> NoStep, found |-> FALSE, chat |-> 0, next |-> NoStep]

\* Where a worker is inside dispatchStep: it holds the lease of cur.
Dispatching ==
  {"load", "call", "book", "mark", "won", "chain", "insert", "fail", "release"}
Holds(w, r) == cur[w] = r /\ pc[w] \in Dispatching

StepExists(s)  == s[1] = version /\ s[2] \in 1..Len(plan)
\* Variant: step_index + 2.
NextStepSkipping(s) ==
  IF StepExists(s) /\ s[2] + 1 < Len(plan) THEN <<version, s[2] + 2>> ELSE NoStep
\* GetNextSequenceStep: the step at step_index + 1, NoStep when there is none.
NextStep(s) ==
  IF StepExists(s) /\ s[2] < Len(plan) THEN <<version, s[2] + 1>> ELSE NoStep

\* The rows uniq_prospect_steps_active indexes under (p, s): a step that is not
\* NULL, and neither failed nor cancelled.
Indexed(p, s) ==
  {q \in RowId : /\ q[1] = p /\ row[q].step = s /\ s # NoStep
                 /\ row[q].status \notin {"absent", "failed"}}

\* Variant: an index on prospect_id alone.
MayInsertOnePerProspect(p, s) ==
  StepExists(s) /\ \A q \in RowId : q[1] = p => row[q].status \in {"absent", "failed"}
\* What the foreign key and the unique index let through.
MayInsert(p, s) == StepExists(s) /\ Indexed(p, s) = {}

NewRow(s, kind) ==
  [status |-> "pending", step |-> s, kind |-> kind, due |-> FALSE, aged |-> FALSE]

Init ==
  /\ plan \in Plans
  /\ version = 1
  /\ prospect = [p \in Prospects |-> [status |-> "queued", chat |-> 0]]
  /\ row = [r \in RowId |-> IF r[2] = 1 THEN NewRow(<<1, 1>>, plan[1]) ELSE Absent]
  /\ pc = [w \in Workers |-> "idle"]
  /\ batch = [w \in Workers |-> {}]
  /\ cur = [w \in Workers |-> NoRow]
  /\ ctx = [w \in Workers |-> NoContext]
  /\ budget = MaxFaults
  /\ performed = [r \in RowId |-> 0]
  /\ chats = [p \in Prospects |-> 0]
  /\ lapse = {}

-----------------------------------------------------------------------------
Fault(kind) == kind \in Faults /\ budget > 0 /\ budget' = budget - 1
NoFault     == UNCHANGED budget
Goto(w, where)   == pc' = [pc EXCEPT ![w] = where]
\* Row r with another status; processing_started_at counts only in 'processing'.
WithStatus(r, s) == [row[r] EXCEPT !.status = s, !.aged = FALSE]
SetStatus(r, s)  == row' = [row EXCEPT ![r] = WithStatus(r, s)]
Lapse(r)         == lapse' = lapse \cup {r}

\* Variant: the worker keeps the row.
ReturnHolding(w) ==
  /\ Goto(w, IF batch[w] = {} THEN "idle" ELSE "work")
  /\ UNCHANGED <<batch, cur, ctx>>
\* dispatchStep returns: on to the next row of the batch, or the tick is over.
Return(w) ==
  /\ Goto(w, IF batch[w] = {} THEN "idle" ELSE "work")
  /\ cur' = [cur EXCEPT ![w] = NoRow]
  /\ ctx' = [ctx EXCEPT ![w] = NoContext]
  /\ UNCHANGED batch

\* A worker at `where` takes a step of dispatchStep that keeps its row.
At(w, where) == pc[w] = where /\ UNCHANGED <<batch, cur>>

-----------------------------------------------------------------------------
(* tickCampaign                                                            *)

\* Variants: whatever the age, and the wrong status.
StaleAtAnyAge(r) == row[r].status = "processing"
StaleWhenPending(r) == row[r].status = "pending" /\ row[r].aged
\* The WHERE clause of ReleaseStaleLeases.
Stale(r) == row[r].status = "processing" /\ row[r].aged

\* ReleaseStaleLeases; an error is logged and the tick goes on.
ReleaseStale(w) ==
  /\ pc[w] = "idle"
  /\ Goto(w, "list")
  /\ \/ /\ NoFault
        /\ row' = [r \in RowId |->
                     IF Stale(r) THEN WithStatus(r, "pending") ELSE row[r]]
     \/ Fault("db") /\ UNCHANGED row
  /\ UNCHANGED <<plan, version, prospect, batch, cur, ctx, ghost>>

DuePending == {r \in RowId : row[r].status = "pending" /\ row[r].due}

\* ListPendingProspectSteps: BatchSize rows at most.  Which of them, and in
\* which order they are dispatched, is left open.
ListDue(w) ==
  /\ pc[w] = "list"
  /\ \/ /\ NoFault
        /\ \E B \in SUBSET DuePending :
             /\ Cardinality(B) <= BatchSize
             /\ B # DuePending => Cardinality(B) = BatchSize
             /\ batch' = [batch EXCEPT ![w] = B]
             /\ Goto(w, IF B = {} THEN "idle" ELSE "work")
     \/ Fault("db") /\ Goto(w, "idle") /\ UNCHANGED batch
  /\ UNCHANGED <<table, cur, ctx, ghost>>

-----------------------------------------------------------------------------
(* dispatchStep                                                            *)

\* Variant: no condition on the status.
LeasableAlways(r) == row[r].status # "absent"
\* The WHERE clause of LeaseProspectStep.
Leasable(r) == row[r].status = "pending"

Skip(w, r) ==
  /\ Goto(w, IF batch[w] = {r} THEN "idle" ELSE "work")
  /\ UNCHANGED <<row, cur, ctx>>

\* LeaseProspectStep: compare and set from 'pending' to 'processing'.  No row
\* returned means another worker took it; an error drops the row as well.
Lease(w, r) ==
  /\ pc[w] = "work" /\ r \in batch[w]
  /\ batch' = [batch EXCEPT ![w] = @ \ {r}]
  /\ \/ /\ NoFault /\ Leasable(r)
        /\ SetStatus(r, "processing")
        /\ cur' = [cur EXCEPT ![w] = r]
        /\ ctx' = [ctx EXCEPT ![w].step = row[r].step]
        /\ Goto(w, "load")
     \/ NoFault /\ ~Leasable(r) /\ Skip(w, r)
     \/ Fault("db") /\ Skip(w, r)
  /\ UNCHANGED <<plan, version, prospect, ghost>>

\* What dispatchInvite and dispatchMessage require before they call Unipile.
\* A step whose sequence_step is gone renders to "": an invite then goes out
\* without a note, an empty message is refused.
Callable(kind, p, found, chat) ==
  \/ kind = "invite" /\ p \in Resolved
  \/ kind = "message" /\ found /\ (chat # 0 \/ p \in Resolved)

\* Load the context (GetProspect, GetStep, GetAccountByID), then decide.  'wait' and 'end' have
\* no remote effect: the step has taken place once it is decided to mark it.
Load(w) ==
  LET r == cur[w]
      kind == row[r].kind
      found == StepExists(ctx[w].step)
      chat == prospect[r[1]].chat
  IN /\ At(w, "load")
     /\ ctx' = [ctx EXCEPT ![w].found = found, ![w].chat = chat]
     /\ \/ /\ NoFault /\ kind \in {"invite", "message"}
           /\ Goto(w, IF Callable(kind, r[1], found, chat) THEN "call" ELSE "fail")
           /\ UNCHANGED performed
        \/ /\ NoFault /\ kind \in {"wait", "end"}
           /\ Goto(w, "mark")
           /\ performed' = [performed EXCEPT ![r] = @ + 1]
        \/ NoFault /\ kind = "other" /\ Goto(w, "fail") /\ UNCHANGED performed
        \/ Fault("load") /\ Goto(w, "fail") /\ UNCHANGED performed
        \/ Fault("nocreds") /\ Goto(w, "release") /\ UNCHANGED performed
     /\ UNCHANGED <<table, chats, lapse>>

\* SendInvitation, SendMessage or StartNewChat takes effect on LinkedIn.
TakeEffect(w) ==
  LET r == cur[w]
      p == r[1]
      opens == row[r].kind = "message" /\ ctx[w].chat = 0
  IN /\ performed' = [performed EXCEPT ![r] = @ + 1]
     /\ chats' = IF opens THEN [chats EXCEPT ![p] = @ + 1] ELSE chats
     /\ ctx' = IF opens THEN [ctx EXCEPT ![w].chat = chats[p] + 1] ELSE ctx

\* Variant: the chat id is not stored.
HasInviteBookkeeping(w) == row[cur[w]].kind = "invite"
\* An invite has a status to book, a message that opened a chat its id.
HasBookkeeping(w) == row[cur[w]].kind = "invite" \/ ctx[w].chat = 0

Accepted(w) ==
  /\ At(w, "call") /\ NoFault
  /\ TakeEffect(w)
  /\ Goto(w, IF HasBookkeeping(w) THEN "book" ELSE "mark")
  /\ UNCHANGED <<table, lapse>>

\* The call took effect, the client saw a network error: treated as transient.
ReplyLost(w) ==
  /\ At(w, "call") /\ Fault("lost")
  /\ TakeEffect(w)
  /\ Lapse(cur[w])
  /\ Goto(w, "release")
  /\ UNCHANGED table

\* handleUnipileError on an answer that says nothing was done.
Refused(w) ==
  /\ At(w, "call")
  /\ \/ Fault("throttle") /\ Goto(w, "release")
     \/ Fault("refuse") /\ Goto(w, "fail")
  /\ UNCHANGED <<table, ctx, ghost>>

\* SetProspectInvited and SetProspectChatID: WHERE id only.
Invited(p) == [prospect EXCEPT ![p].status = "invited"]
ChatStored(p, chat) == [prospect EXCEPT ![p].chat = chat]

\* The statement that fits the step; an error is only logged.  "db" is also
\* the answer without a chat_id, for which SetProspectChatID is not called.
Bookkeep(w) ==
  LET r == cur[w]
  IN /\ At(w, "book")
     /\ Goto(w, "mark")
     /\ \/ /\ NoFault /\ UNCHANGED lapse
           /\ prospect' = IF row[r].kind = "invite"
                            THEN Invited(r[1])
                            ELSE ChatStored(r[1], ctx[w].chat)
        \/ Fault("db") /\ Lapse(r) /\ UNCHANGED prospect
     /\ UNCHANGED <<plan, version, row, ctx, performed, chats>>

\* markStepSent: WHERE id only.  The unique index also guards this update,
\* and an error is only logged.
Mark(w) ==
  LET r == cur[w]
  IN /\ At(w, "mark")
     /\ Goto(w, IF row[r].kind = "end" THEN "won" ELSE "chain")
     /\ \/ /\ NoFault /\ UNCHANGED lapse
           /\ IF Indexed(r[1], row[r].step) \subseteq {r} THEN SetStatus(r, "sent") ELSE UNCHANGED row
        \/ Fault("db") /\ Lapse(r) /\ UNCHANGED row
     /\ UNCHANGED <<plan, version, prospect, ctx, performed, chats>>

\* setProspectStatus(prospect, "won") at an 'end' step.
SetWon(w) ==
  /\ pc[w] = "won" /\ Return(w)
  /\ \/ NoFault /\ prospect' = [prospect EXCEPT ![cur[w][1]].status = "won"]
     \/ Fault("db") /\ UNCHANGED prospect
  /\ UNCHANGED <<plan, version, row, ghost>>

\* scheduleNextStep, first statement: GetNextSequenceStep.
LookupNext(w) ==
  LET next == IF ctx[w].found THEN NextStep(ctx[w].step) ELSE NoStep
  IN /\ pc[w] = "chain"
     /\ \/ /\ NoFault /\ next # NoStep
           /\ Goto(w, "insert")
           /\ ctx' = [ctx EXCEPT ![w].next = next]
           /\ UNCHANGED <<batch, cur>>
        \/ NoFault /\ next = NoStep /\ Return(w)
        \/ Fault("db") /\ Return(w)
     /\ UNCHANGED <<table, ghost>>

\* scheduleNextStep, second statement: CreateProspectStep.  The foreign key and
\* the unique index may refuse the row; either error ends the dispatch.
InsertNext(w) ==
  LET p == cur[w][1]
      s == ctx[w].next
      free(n) == row[<<p, n>>].status = "absent"
  IN /\ pc[w] = "insert" /\ Return(w)
     /\ \/ /\ NoFault /\ MayInsert(p, s)
           /\ \E n \in 1..MaxRows :
                /\ free(n) /\ \A m \in 1..(n - 1) : ~free(m)
                /\ row' = [row EXCEPT ![<<p, n>>] = NewRow(s, plan[s[2]])]
        \/ NoFault /\ ~MayInsert(p, s) /\ UNCHANGED row
        \/ Fault("db") /\ UNCHANGED row
     /\ UNCHANGED <<plan, version, prospect, ghost>>

\* failStep: WHERE id only; retry_count is raised but nothing reads it.
Fail(w) ==
  /\ pc[w] = "fail" /\ Return(w)
  /\ \/ NoFault /\ SetStatus(cur[w], "failed")
     \/ Fault("db") /\ UNCHANGED row
  /\ UNCHANGED <<plan, version, prospect, ghost>>

\* releaseStep: back to 'pending' if the row is still 'processing'.
Release(w) ==
  /\ pc[w] = "release" /\ Return(w)
  /\ \/ /\ NoFault
        /\ IF row[cur[w]].status = "processing"
             THEN SetStatus(cur[w], "pending") ELSE UNCHANGED row
     \/ Fault("db") /\ UNCHANGED row
  /\ UNCHANGED <<plan, version, prospect, ghost>>

-----------------------------------------------------------------------------
(* The environment                                                         *)

\* The instance dies, or its context is cancelled at shutdown: nothing it would
\* still have written is written.  It comes back with its loop at the start.
Crash(w) ==
  /\ pc[w] # "idle" /\ Fault("crash")
  /\ Goto(w, "idle")
  /\ batch' = [batch EXCEPT ![w] = {}]
  /\ cur' = [cur EXCEPT ![w] = NoRow]
  /\ ctx' = [ctx EXCEPT ![w] = NoContext]
  /\ IF pc[w] \in {"book", "mark"} THEN Lapse(cur[w]) ELSE UNCHANGED lapse
  /\ UNCHANGED <<table, performed, chats>>

\* StaleLeaseAge passes.  A live worker is assumed faster ("slow" is the fault
\* that it is not): the HTTP client gives up after 30 seconds.
LeaseAges(r) ==
  /\ row[r].status = "processing" /\ ~row[r].aged
  /\ row' = [row EXCEPT ![r].aged = TRUE]
  /\ \/ NoFault /\ (\A w \in Workers : ~Holds(w, r)) /\ UNCHANGED lapse
     \/ Fault("slow") /\ (\E w \in Workers : Holds(w, r)) /\ Lapse(r)
  /\ UNCHANGED <<plan, version, prospect, worker, performed, chats>>

\* NOW() reaches scheduled_at.
StepDue(r) ==
  /\ row[r].status = "pending" /\ ~row[r].due
  /\ row' = [row EXCEPT ![r].due = TRUE]
  /\ UNCHANGED <<plan, version, prospect, worker, budget, ghost>>

\* SequenceHandler.Replace: one transaction deletes every sequence_step, which
\* sets step_id of the campaign's rows to NULL, and inserts the new list.
Replace(newPlan) ==
  /\ version <= MaxEdits
  /\ version' = version + 1
  /\ plan' = newPlan
  /\ row' = [r \in RowId |-> [row[r] EXCEPT !.step = NoStep]]
  /\ UNCHANGED <<prospect, worker, budget, ghost>>

WorkerStep(w) ==
  \/ ReleaseStale(w) \/ ListDue(w) \/ \E r \in RowId : Lease(w, r)
  \/ Load(w) \/ Accepted(w) \/ ReplyLost(w) \/ Refused(w)
  \/ Bookkeep(w) \/ Mark(w) \/ SetWon(w)
  \/ LookupNext(w) \/ InsertNext(w) \/ Fail(w) \/ Release(w)

Next ==
  \/ \E w \in Workers : WorkerStep(w) \/ Crash(w)
  \/ \E r \in RowId : LeaseAges(r) \/ StepDue(r)
  \/ \E newPlan \in Plans : Replace(newPlan)

Spec == Init /\ [][Next]_vars

\* Every instance keeps ticking (runLoop, and a crashed one is restarted), and
\* time passes.  Nothing is assumed of the operator or of the faults.
Fairness ==
  /\ \A w \in Workers : WF_vars(WorkerStep(w))
  /\ \A r \in RowId : WF_vars(LeaseAges(r)) /\ WF_vars(StepDue(r))

FairSpec == Spec /\ Fairness
=============================================================================
