---------------------------- MODULE CampaignStore ----------------------------
(***************************************************************************)
(* The HTTP handlers that write one campaign, its sequence and its         *)
(* prospects, called concurrently.  Each handler is a list of statements,  *)
(* two of them in a transaction; Postgres runs them READ COMMITTED with    *)
(* its row locks and breaks a cycle of waiting ones.  A value in a table   *)
(* is the request that wrote it.                                           *)
(***************************************************************************)
EXTENDS Naturals, Sequences, FiniteSets

CONSTANTS
  Requests,
  Assignments,  \* the jobs the requests may come with: functions from Requests
  Columns,      \* the columns PATCH may change
  Urls,         \* the prospects the requests are about, by profile_url
  Templates,    \* the template_kinds the requests are about
  Written,      \* those of them that have a text at the start
  HomeOf,       \* per URL: the campaign of its row at the start, "here" is this one
  OldSteps,     \* how many steps the sequence has at the start
  MaxSteps,     \* bound: steps of a sequence
  Faults,       \* {"db"} when statements may fail (also: the request times out)
  MaxFaults     \* bound: how many do in one behaviour

Index == 0..(MaxSteps - 1)
StepKey(k) == <<"step", k>>
UrlKey(u) == <<"url", u>>
CampaignKey == <<"campaign", "row">>
TemplateKey(t) == <<"template", t>>
\* What a transaction can lock.
Keys == {StepKey(k) : k \in Index} \cup {UrlKey(u) : u \in Urls} \cup {CampaignKey}
          \cup {TemplateKey(t) : t \in Templates}
\* A CSV cell that is no URL: an empty one, one Postgres refuses, a record that ends
\* before its column.  A step is TRUE when it meets the table's CHECK constraints.
BadCells == {"empty", "refused", "short"}
Job ==
  [kind : {"replace"}, steps : Seq(BOOLEAN)] \cup [kind : {"upload"}, cells : Seq(Urls \cup BadCells)]
    \cup [kind : {"patch"}, column : Columns] \cup [kind : {"remove"}, url : Urls]
    \cup [kind : {"status", "toggle", "delete", "duplicate"}]
    \cup [kind : {"write_template", "drop_template"}, template : Templates \cup {"unknown"}]
    \cup [kind : {"create"}, named : BOOLEAN, given : SUBSET Columns]

ASSUME StoreAssumption ==
  /\ \A f \in Assignments : DOMAIN f = Requests /\ \A r \in Requests : f[r] \in Job
  /\ HomeOf \in [Urls -> {"here", "elsewhere", "none"}]
  /\ MaxSteps \in Nat \ {0} /\ OldSteps \in 0..MaxSteps /\ MaxFaults \in Nat
  /\ \A f \in Assignments, r \in Requests : f[r].kind = "replace" => Len(f[r].steps) <= MaxSteps
  /\ Requests \cap {"old", "none", "default", "draft"} = {} /\ "status" \notin Columns
  /\ Written \subseteq Templates /\ Templates \cap (Columns \cup {"status", "unknown"}) = {}

VARIABLES
  job,       \* per request: what it asks for
  exists,    \* the campaign is there
  row,       \* its columns and its status
  steps,     \* per step_index: the writer of the sequence_steps row, or "none"
  prospect,  \* per URL: the writer and the campaign of the prospects row
  template,  \* per template kind: the writer of the campaign_templates row, or "none"
  born,      \* per request: the row of the campaign it created, or None
  lock,      \* who holds a row that is written or deleted and not yet committed
  share,     \* who holds the campaign's row FOR KEY SHARE, for a foreign key
  at, pos, wants, snap,  \* per request: position, next step or cell, rows a DELETE has
                         \* found and not reached, the campaign's row as it was read
  aborted,   \* uploads whose transaction Postgres has aborted
  reply,     \* per request: the HTTP status, 0 before
  budget,
  owed,      \* history: per column and template the last acknowledged change
  raced,     \* history: columns changed while another patch was between its statements
  stored     \* history: per URL the requests whose write was committed

tables == <<exists, row, steps, prospect, template, born>>
locks  == <<lock, share>>
ghost  == <<owed, raced, stored>>
vars == <<job, tables, locks, at, pos, wants, snap, aborted, reply, budget, ghost>>

Writer == Requests \cup {"old"}
Absent == [by |-> "none", home |-> "none"]
None == [c \in Columns \cup {"status"} |-> "none"]
Kind(r) == job[r].kind

Init ==
  /\ job \in Assignments
  /\ exists = TRUE /\ row = [c \in Columns \cup {"status"} |-> "old"]
  /\ steps = [k \in Index |-> IF k < OldSteps THEN "old" ELSE "none"]
  /\ prospect = [u \in Urls |-> IF HomeOf[u] = "none" THEN Absent
                                ELSE [by |-> "old", home |-> HomeOf[u]]]
  /\ template = [t \in Templates |-> IF t \in Written THEN "old" ELSE "none"]
  /\ born = [r \in Requests |-> None]
  /\ lock = [k \in Keys |-> "none"] /\ share = {}
  /\ at = [r \in Requests |-> "idle"] /\ pos = [r \in Requests |-> 0]
  /\ wants = [r \in Requests |-> {}] /\ snap = [r \in Requests |-> row]
  /\ aborted = {} /\ reply = [r \in Requests |-> 0] /\ budget = MaxFaults
  /\ owed = [k \in DOMAIN row \cup Templates |-> IF k \in Templates THEN template[k] ELSE "old"]
  /\ raced = {} /\ stored = [u \in Urls |-> {}]

-----------------------------------------------------------------------------
(* Row locks                                                               *)

Others(r, holders) == holders \ {r, "none"}
Holders(keys) == {lock[k] : k \in keys}
\* Variant: the campaign is looked up, but not locked against its deletion.
ShareNeedsNothing(r) == {}
\* Who keeps r from a key-share lock on the campaign: a DELETE of it.
ShareBlockers(r) == IF r \in share THEN {} ELSE Others(r, Holders({CampaignKey}))

\* The rows a DELETE may reach next: the steps in their order, then the templates, then
\* the prospects, as the tables were created.
Reaches(r) ==
  LET ks == {k \in Index : StepKey(k) \in wants[r]}
      ts == {TemplateKey(t) : t \in Templates} \cap wants[r]
  IN CASE ks # {}             -> {StepKey(k) : k \in {j \in ks : \A i \in ks : j <= i}}
       [] ks = {} /\ ts # {} -> ts
       [] OTHER               -> wants[r]

Wiped(r) == at[r] = "wipe" /\ wants[r] = {}
NextStep(r) == job[r].steps[pos[r] + 1]
NextCell(r) == job[r].cells[pos[r] + 1]
MoreSteps(r) == Wiped(r) /\ pos[r] < Len(job[r].steps)
MoreCells(r) == at[r] = "upload" /\ pos[r] < Len(job[r].cells)

\* Who r's next statement has to wait for.
Blockers(r) ==
  CASE at[r] \in {"wipe", "cascade"} /\ wants[r] # {} ->
         IF \E k \in Reaches(r) : Others(r, Holders({k})) = {} THEN {}
         ELSE Others(r, Holders(Reaches(r)))
    [] MoreSteps(r) /\ NextStep(r) ->
         Others(r, Holders({StepKey(pos[r])})) \cup ShareBlockers(r)
    [] MoreCells(r) /\ r \notin aborted /\ NextCell(r) \in Urls ->
         Others(r, Holders({UrlKey(NextCell(r))}))
           \cup (IF prospect[NextCell(r)] = Absent THEN ShareBlockers(r) ELSE {})
    [] at[r] = "write" ->
         CASE Kind(r) = "remove" -> Others(r, Holders(wants[r]))
           [] Kind(r) = "delete" -> Others(r, Holders({CampaignKey}) \cup share)
           [] Kind(r) = "write_template" ->
                Others(r, Holders({TemplateKey(job[r].template)}))
                  \cup (IF template[job[r].template] = "none" THEN ShareBlockers(r) ELSE {})
           [] Kind(r) = "drop_template" -> Others(r, Holders({TemplateKey(job[r].template)}))
           [] Kind(r) \in {"create", "duplicate"} -> {}
           [] OTHER -> Others(r, Holders({CampaignKey}))
    [] OTHER -> {}

\* r waits in a cycle: Postgres aborts the statement of one that does.
InCycle(r) == \E S \in SUBSET Requests :
  /\ r \in S
  /\ \A q \in S : Cardinality(Blockers(q) \cap S) = 1
  /\ \A q \in S : \E p \in S : q \in Blockers(p)

Free(r) == Blockers(r) = {}
Release(r) == /\ lock' = [k \in Keys |-> IF lock[k] = r THEN "none" ELSE lock[k]]
              /\ share' = share \ {r}
\* A deleted row is gone for the DELETE that waits for it, too.
Answer(r, code, gone) ==
  /\ at' = [at EXCEPT ![r] = "done"] /\ reply' = [reply EXCEPT ![r] = code]
  /\ wants' = [q \in Requests |-> IF q = r THEN {} ELSE wants[q] \ gone]
Held(r) == {k \in Keys : lock[k] = r}
Goto(r, where) == at' = [at EXCEPT ![r] = where]
Advance(r) == pos' = [pos EXCEPT ![r] = @ + 1]

\* Variant: the wipe is issued on the pool instead of the transaction.
UndoneButTheWipe(r) == [k \in Index |-> IF lock[StepKey(k)] = r THEN "none" ELSE steps[k]]
\* The sequence after a rollback of r.
Undone(r) == steps

\* Variant: a failed row leaves the transaction usable.
PoisonedNever(r) == {}
\* The uploads whose transaction is aborted once a statement of r failed.
Poisoned(r) == {r}

\* The statement r executes or waits for fails: an upload notes it and goes on with the
\* next row, every other handler answers and its transaction is rolled back.
StatementFails(r) ==
  /\ Release(r) /\ steps' = Undone(r)
  /\ IF MoreCells(r)
       THEN /\ Advance(r) /\ aborted' = aborted \cup Poisoned(r)
            /\ UNCHANGED <<at, reply, wants>>
       ELSE /\ Answer(r, IF MoreSteps(r) THEN 400 ELSE 500, {})
            /\ UNCHANGED <<pos, aborted>>
  /\ UNCHANGED <<job, exists, row, prospect, template, born, snap, ghost>>

Interrupted(r) ==
  /\ at[r] \notin {"idle", "done"}
  /\ MoreCells(r) => NextCell(r) \notin {"empty", "short"}
  /\ "db" \in Faults /\ budget > 0 /\ budget' = budget - 1
  /\ StatementFails(r)
Victim(r) == InCycle(r) /\ StatementFails(r) /\ UNCHANGED budget

-----------------------------------------------------------------------------
(* The handlers                                                            *)

\* GetCampaignForAccount: the row as it is read, and whether it is there.
Found(r) == exists /\ snap' = [snap EXCEPT ![r] = row]

\* isValidTemplateKind.
KnownTemplate(t) == t \in Templates

\* What a handler refuses before it touches the database: no steps, no name, a template
\* kind it does not know.
Refused(r) == CASE Kind(r) = "replace" -> job[r].steps = <<>>
                [] Kind(r) = "create"  -> ~job[r].named
                [] Kind(r) \in {"write_template", "drop_template"} -> ~KnownTemplate(job[r].template)
                [] OTHER               -> FALSE

\* The first statement: loadCampaignByPath, or Begin and what follows it.  The DELETE of
\* Replace wants the rows it finds; a prospect is removed by its id.
Arrive(r) ==
  /\ at[r] = "idle"
  /\ CASE Refused(r) -> Answer(r, 400, {}) /\ UNCHANGED snap
       [] Kind(r) = "replace" /\ ~Refused(r) ->
            /\ Goto(r, "wipe") /\ UNCHANGED <<snap, reply>>
            /\ wants' = [wants EXCEPT ![r] = {StepKey(k) : k \in {j \in Index : steps[j] # "none"}}]
       [] Kind(r) \in {"upload", "toggle", "write_template", "drop_template", "create"} /\ ~Refused(r) ->
            /\ Goto(r, IF Kind(r) = "upload" THEN "upload" ELSE "write")
            /\ UNCHANGED <<snap, reply, wants>>
       [] Kind(r) = "remove" ->
            /\ Goto(r, "write") /\ UNCHANGED <<snap, reply>>
            /\ wants' = [wants EXCEPT ![r] =
                 {UrlKey(u) : u \in {v \in {job[r].url} : prospect[v] # Absent}}]
       [] Kind(r) \in {"patch", "status", "delete", "duplicate"} ->
            \/ Found(r) /\ Goto(r, "write") /\ UNCHANGED <<reply, wants>>
            \/ ~exists /\ Answer(r, 404, {}) /\ UNCHANGED snap
  /\ UNCHANGED <<job, tables, locks, pos, aborted, budget, ghost>>

\* A DELETE takes the next of the rows it wants.
TakeRow(r) ==
  /\ at[r] \in {"wipe", "cascade"}
  /\ \E k \in Reaches(r) : /\ lock[k] = "none" /\ lock' = [lock EXCEPT ![k] = r]
                           /\ wants' = [wants EXCEPT ![r] = @ \ {k}]
  /\ UNCHANGED <<job, tables, share, at, pos, snap, aborted, reply, budget, ghost>>

\* The unique index on (campaign_id, step_index).
Taken(r, k) == steps[k] # "none" /\ lock[StepKey(k)] # r

\* CreateStep: the table's conditions hold, the campaign is there, the index free.
CreatesStep(r) == NextStep(r) /\ exists /\ ~Taken(r, pos[r])

InsertStep(r) ==
  /\ MoreSteps(r) /\ Free(r) /\ UNCHANGED budget
  /\ IF CreatesStep(r)
       THEN /\ lock' = [lock EXCEPT ![StepKey(pos[r])] = r] /\ share' = share \cup {r}
            /\ Advance(r)
            /\ UNCHANGED <<job, tables, at, wants, snap, aborted, reply, ghost>>
       ELSE StatementFails(r)

CommitReplace(r) ==
  /\ Wiped(r) /\ ~MoreSteps(r)
  /\ steps' = [k \in Index |-> IF lock[StepKey(k)] # r THEN steps[k]
                               ELSE IF k < pos[r] THEN r ELSE "none"]
  /\ Answer(r, 200, Held(r)) /\ Release(r)
  /\ UNCHANGED <<job, exists, row, prospect, template, born, pos, snap, aborted, budget, ghost>>

\* Variant: without the deferred Rollback.
NoRollback(r) == UNCHANGED locks
DeferredRollback(r) == Release(r)

\* rec[idxURL] on a record that is too short.
Panic(r) ==
  /\ MoreCells(r) /\ NextCell(r) = "short"
  /\ DeferredRollback(r) /\ Answer(r, 500, {})
  /\ UNCHANGED <<job, tables, pos, snap, aborted, budget, ghost>>

\* The loop of Upload; in an aborted transaction every row is an error.
UploadRow(r) ==
  /\ MoreCells(r) /\ NextCell(r) # "short" /\ Free(r) /\ UNCHANGED budget
  /\ IF NextCell(r) = "empty" \/ r \in aborted
       THEN /\ Advance(r)
            /\ UNCHANGED <<job, tables, locks, at, wants, snap, aborted, reply, ghost>>
       ELSE LET u == NextCell(r)
                new == u \in Urls /\ prospect[u] = Absent /\ lock[UrlKey(u)] # r
            IN IF u = "refused" \/ (new /\ ~exists) THEN StatementFails(r)
               ELSE /\ lock' = [lock EXCEPT ![UrlKey(u)] = r]
                    /\ share' = IF new THEN share \cup {r} ELSE share
                    /\ Advance(r)
                    /\ UNCHANGED <<job, tables, at, wants, snap, aborted, reply, ghost>>

\* What CreateProspect leaves of u: the values are new, an existing row stays in its
\* campaign.
Upserted(r, u) == [by |-> r, home |-> IF prospect[u] = Absent THEN "here" ELSE prospect[u].home]

CommitUpload(r) ==
  LET mine == {u \in Urls : lock[UrlKey(u)] = r}
  IN /\ at[r] = "upload" /\ ~MoreCells(r)
     /\ prospect' = [u \in Urls |-> IF u \in mine THEN Upserted(r, u) ELSE prospect[u]]
     /\ stored' = [u \in Urls |-> IF u \in mine THEN stored[u] \cup {r} ELSE stored[u]]
     /\ Answer(r, IF r \in aborted THEN 500 ELSE 200, {}) /\ Release(r)
     /\ UNCHANGED <<job, exists, row, steps, template, born, pos, snap, aborted, budget, owed, raced>>

\* Variant: the status is one of the columns written back.
PatchedWithStatus(r) == [snap[r] EXCEPT ![job[r].column] = r]
\* What UpdateCampaign leaves in the row: every column as it was read, except the one
\* that changes and the status, which the statement does not touch.
Patched(r) == [snap[r] EXCEPT ![job[r].column] = r, !["status"] = row["status"]]

Overlap(r) == \E q \in Requests \ {r} : at[q] = "write" /\ Kind(q) = "patch"

Update(r) ==
  /\ at[r] = "write" /\ Kind(r) = "patch" /\ Free(r)
  /\ IF exists
       THEN /\ row' = Patched(r) /\ Answer(r, 200, {})
            /\ owed' = [owed EXCEPT ![job[r].column] = r]
            /\ raced' = IF Overlap(r) THEN raced \cup {job[r].column}
                        ELSE raced \ {job[r].column}
       ELSE Answer(r, 500, {}) /\ UNCHANGED <<row, owed, raced>>
  /\ UNCHANGED <<job, exists, steps, prospect, template, born, locks, pos, snap, aborted, budget, stored>>

\* SetCampaignStatus.
WithStatus(r) == [row EXCEPT !["status"] = r]

\* One statement: the status if the campaign is there, the error otherwise.
StatusSet(r, missing) ==
  /\ IF exists
       THEN /\ row' = WithStatus(r) /\ owed' = [owed EXCEPT !["status"] = r]
            /\ Answer(r, 200, {})
       ELSE Answer(r, missing, {}) /\ UNCHANGED <<row, owed>>
  /\ UNCHANGED <<job, exists, steps, prospect, template, born, locks, pos, snap, aborted, budget, raced, stored>>

\* Start, Pause and Resume of the API, which have loaded the campaign.
SetStatus(r) == at[r] = "write" /\ Kind(r) = "status" /\ Free(r) /\ StatusSet(r, 500)
\* Start and Pause of the pages, which load nothing first.
ToggleStatus(r) == at[r] = "write" /\ Kind(r) = "toggle" /\ Free(r) /\ StatusSet(r, 404)

\* DELETE FROM campaigns locks the row and cascades to what it finds; no row is no error.
Delete(r) ==
  /\ at[r] = "write" /\ Kind(r) = "delete" /\ Free(r)
  /\ IF exists
       THEN /\ lock' = [lock EXCEPT ![CampaignKey] = r] /\ Goto(r, "cascade")
            /\ wants' = [wants EXCEPT ![r] =
                 {StepKey(k) : k \in {j \in Index : steps[j] # "none"}}
                   \cup {UrlKey(u) : u \in {v \in Urls : prospect[v].home = "here"}}
                   \cup {TemplateKey(t) : t \in {k \in Templates : template[k] # "none"}}]
            /\ UNCHANGED reply
       ELSE Answer(r, 204, {}) /\ UNCHANGED lock
  /\ UNCHANGED <<job, tables, share, pos, snap, aborted, budget, ghost>>

CommitDelete(r) ==
  /\ at[r] = "cascade" /\ wants[r] = {}
  /\ exists' = FALSE
  /\ steps' = [k \in Index |-> IF lock[StepKey(k)] = r THEN "none" ELSE steps[k]]
  /\ prospect' = [u \in Urls |-> IF lock[UrlKey(u)] = r THEN Absent ELSE prospect[u]]
  /\ template' = [t \in Templates |-> IF lock[TemplateKey(t)] = r THEN "none" ELSE template[t]]
  /\ Answer(r, 204, Held(r)) /\ Release(r)
  /\ UNCHANGED <<job, row, born, pos, snap, aborted, budget, ghost>>

\* ProspectsHandler.Delete.
Remove(r) ==
  /\ at[r] = "write" /\ Kind(r) = "remove" /\ Free(r)
  /\ prospect' = [u \in Urls |-> IF UrlKey(u) \in wants[r] THEN Absent ELSE prospect[u]]
  /\ Answer(r, 204, wants[r])
  /\ UNCHANGED <<job, exists, row, steps, template, born, locks, pos, snap, aborted, budget, ghost>>

-----------------------------------------------------------------------------
(* Templates and new campaigns: one statement each                         *)

TextStored(r) == [template EXCEPT ![job[r].template] = r]
TextDropped(r) == [template EXCEPT ![job[r].template] = "none"]

\* INSERT .. ON CONFLICT: a new row needs the campaign, an old one is overwritten.
UpsertTemplate(r) ==
  /\ at[r] = "write" /\ Kind(r) = "write_template" /\ Free(r)
  /\ LET t == job[r].template IN
     IF exists \/ template[t] # "none"
       THEN /\ template' = TextStored(r) /\ owed' = [owed EXCEPT ![t] = r]
            /\ Answer(r, 200, {})
       ELSE Answer(r, 500, {}) /\ UNCHANGED <<template, owed>>
  /\ UNCHANGED <<job, exists, row, steps, prospect, born, locks, pos, snap, aborted, budget, raced, stored>>

\* A DELETE of no row is no error.
DeleteTemplate(r) ==
  /\ at[r] = "write" /\ Kind(r) = "drop_template" /\ Free(r)
  /\ template' = TextDropped(r)
  /\ owed' = [owed EXCEPT ![job[r].template] = "none"]
  /\ Answer(r, 204, {TemplateKey(job[r].template)})
  /\ UNCHANGED <<job, exists, row, steps, prospect, born, locks, pos, snap, aborted, budget, raced, stored>>

\* A campaign begins as a draft.  A number that is zero or missing is the default, so
\* that working hours cannot start at midnight; with the status it is the whole row.
CreatedRow(r) == [c \in Columns \cup {"status"} |->
  CASE c = "status" -> "draft" [] c \in job[r].given -> r [] OTHER -> "default"]

Create(r) ==
  /\ at[r] = "write" /\ Kind(r) = "create"
  /\ born' = [born EXCEPT ![r] = CreatedRow(r)] /\ Answer(r, 201, {})
  /\ UNCHANGED <<job, exists, row, steps, prospect, template, locks, pos, snap, aborted, budget, ghost>>

\* The columns as they are when the INSERT .. SELECT reads them, no longer as they were
\* when the campaign was loaded; neither steps nor templates go with them.
CopiedRow == [row EXCEPT !["status"] = "draft"]

Duplicate(r) ==
  /\ at[r] = "write" /\ Kind(r) = "duplicate"
  /\ IF exists THEN born' = [born EXCEPT ![r] = CopiedRow] /\ Answer(r, 201, {})
               ELSE Answer(r, 500, {}) /\ UNCHANGED born
  /\ UNCHANGED <<job, exists, row, steps, prospect, template, locks, pos, snap, aborted, budget, ghost>>

Proceed(r) ==
  \/ TakeRow(r) \/ InsertStep(r) \/ CommitReplace(r)
  \/ Panic(r) \/ UploadRow(r) \/ CommitUpload(r)
  \/ Update(r) \/ SetStatus(r) \/ ToggleStatus(r) \/ Delete(r) \/ CommitDelete(r) \/ Remove(r)
  \/ UpsertTemplate(r) \/ DeleteTemplate(r) \/ Create(r) \/ Duplicate(r)

Next == \E r \in Requests : Arrive(r) \/ Proceed(r) \/ Interrupted(r) \/ Victim(r)

Spec == Init /\ [][Next]_vars

\* A request has a goroutine of its own, and Postgres looks for cycles by itself.
Fairness == \A r \in Requests : WF_vars(Proceed(r)) /\ WF_vars(Victim(r))
FairSpec == Spec /\ Fairness
=============================================================================
