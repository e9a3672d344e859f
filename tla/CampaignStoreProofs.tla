------------------------- MODULE CampaignStoreProofs -------------------------
(***************************************************************************)
(* For any requests, columns, prospects, templates, lengths of a sequence  *)
(* and number of faults: the types of the campaign's tables, and what the  *)
(* handlers promise to operators who call them at the same time.           *)
(***************************************************************************)
EXTENDS CampaignStoreProps, FiniteSetTheorems, TLAPS

-----------------------------------------------------------------------------
(* The inductive invariant                                                 *)

Cols == Columns \cup {"status"}
At == {"idle", "wipe", "upload", "write", "cascade", "done"}
Codes == {0, 200, 201, 204, 400, 404, 500}
Open == {"wipe", "upload", "cascade"}

\* The types of the campaign's tables and of what the requests remember of them.
TablesType ==
  /\ exists \in BOOLEAN /\ row \in [Cols -> Writer]
  /\ steps \in [Index -> Writer \cup {"none"}]
  /\ prospect \in [Urls -> {Absent} \cup [by : Writer, home : {"here", "elsewhere"}]]
  /\ template \in [Templates -> Writer \cup {"none"}]
  /\ born \in [Requests -> [Cols -> Writer \cup {"none", "default", "draft"}]]
  /\ snap \in [Requests -> [Cols -> Writer]]
  /\ owed \in [Cols \cup Templates -> Writer \cup {"none"}]
  /\ raced \subseteq Columns /\ stored \in [Urls -> SUBSET Requests]

\* The types of the locks and of the requests' positions.
ControlType ==
  /\ job \in Assignments
  /\ lock \in [Keys -> Requests \cup {"none"}] /\ share \subseteq Requests
  /\ at \in [Requests -> At]
  /\ pos \in [Requests -> Nat] /\ wants \in [Requests -> SUBSET Keys]
  /\ aborted \subseteq Requests /\ reply \in [Requests -> Codes]

\* Which handler stands where, how far its list has been worked off, and who answers.
Control(r) ==
  /\ at[r] = "idle" => pos[r] = 0 /\ r \notin aborted /\ wants[r] = {}
  /\ at[r] = "wipe" => Kind(r) = "replace" /\ Len(job[r].steps) > 0 /\ pos[r] <= Len(job[r].steps)
  /\ at[r] = "upload" => Kind(r) = "upload" /\ pos[r] <= Len(job[r].cells)
  /\ at[r] = "write" => /\ Kind(r) \notin {"replace", "upload"}
                        /\ wants[r] \subseteq {UrlKey(u) : u \in Urls}
                        /\ Kind(r) \in {"write_template", "drop_template"} => job[r].template \in Templates
  /\ at[r] = "cascade" => Kind(r) = "delete"
  /\ at[r] = "done" => wants[r] = {}
  /\ (reply[r] # 0) = (at[r] = "done")

\* The locks of a request are those of its open transaction.
Locking(r) ==
  /\ at[r] \notin Open => (\A k \in Keys : lock[k] # r) /\ r \notin share
  /\ CampaignKey \notin wants[r]
  /\ lock[CampaignKey] = r <=> at[r] = "cascade"

\* Only a DELETE locks the campaign's row, and then nobody shares it; a shared row is there.
Sharing ==
  /\ lock[CampaignKey] # "none" => share = {}
  /\ share # {} => exists

\* A Replace that has, or is about to take, the first row has all the others or is about
\* to take them; what it has inserted is in its hands, and keeps the campaign.
Replacing(r) ==
  at[r] = "wipe" =>
    /\ pos[r] > 0 => wants[r] = {} /\ r \in share
    /\ \A k \in Index : k < pos[r] => lock[StepKey(k)] = r
    /\ StepKey(0) \in wants[r] \/ lock[StepKey(0)] = r =>
         \A k \in Index : steps[k] # "none" => StepKey(k) \in wants[r] \/ lock[StepKey(k)] = r

\* A DELETE that cascades has or wants every row of the campaign.
Cascading(r) ==
  at[r] = "cascade" =>
    /\ exists
    /\ \A k \in Index : steps[k] # "none" => StepKey(k) \in wants[r] \/ lock[StepKey(k)] = r
    /\ \A u \in Urls : prospect[u].home = "here" => UrlKey(u) \in wants[r] \/ lock[UrlKey(u)] = r
    /\ \A t \in Templates : template[t] # "none" => TemplateKey(t) \in wants[r] \/ lock[TemplateKey(t)] = r

\* An upload holds every URL it has passed, or, aborted, nothing; a new one keeps the campaign.
Uploading(r) ==
  at[r] = "upload" =>
    /\ r \notin aborted => \A i \in 1..pos[r] :
         job[r].cells[i] = "empty" \/ (job[r].cells[i] \in Urls /\ lock[UrlKey(job[r].cells[i])] = r)
    /\ r \in aborted => \A k \in Keys : lock[k] # r
    /\ \A u \in Urls : lock[UrlKey(u)] = r /\ prospect[u] = Absent => r \in share

\* A row of an upload is that of one that was answered 200, which has stored its whole file.
Stored(r) ==
  /\ reply[r] # 200 => \A u \in Urls : prospect[u].by # r
  /\ Kind(r) = "upload" /\ reply[r] = 200 => \A i \in 1..Len(job[r].cells) :
       job[r].cells[i] = "empty" \/ (job[r].cells[i] \in Urls /\ r \in stored[job[r].cells[i]])

\* A column a PATCH has read is the acknowledged one, or it was changed meanwhile.
Reading(r) ==
  exists /\ at[r] = "write" /\ Kind(r) = "patch" =>
    \A c \in Columns : c \in raced \/ snap[r][c] = owed[c]

\* A campaign that was created is a draft with the values of somebody.
Copied(r) ==
  born[r] # None => /\ reply[r] = 201 /\ born[r]["status"] = "draft"
                    /\ \A c \in Columns : born[r][c] \in Writer \cup {"default"}

Mine(r) == Control(r) /\ Locking(r) /\ Replacing(r) /\ Cascading(r) /\ Uploading(r)
             /\ Stored(r) /\ Reading(r) /\ Copied(r)

IInv == /\ TablesType /\ ControlType /\ Sharing
        /\ SequenceWhole /\ NoOrphans /\ AcknowledgedStands
        /\ \A r \in Requests : Mine(r)

-----------------------------------------------------------------------------
(* What the keys, the jobs and the names are                               *)

\* The keys of two rows are two keys.
LEMMA KeysApart ==
  /\ \A k \in Index : StepKey(k) \in Keys /\ StepKey(k) # CampaignKey
  /\ \A u \in Urls : UrlKey(u) \in Keys /\ UrlKey(u) # CampaignKey
  /\ \A t \in Templates : TemplateKey(t) \in Keys /\ TemplateKey(t) # CampaignKey
  /\ CampaignKey \in Keys
  /\ \A j, k \in Index : StepKey(j) = StepKey(k) => j = k
  /\ \A u, v \in Urls : UrlKey(u) = UrlKey(v) => u = v
  /\ \A t, s \in Templates : TemplateKey(t) = TemplateKey(s) => t = s
  /\ \A k \in Index, u \in Urls : StepKey(k) # UrlKey(u)
  /\ \A k \in Index, t \in Templates : StepKey(k) # TemplateKey(t)
  /\ \A u \in Urls, t \in Templates : UrlKey(u) # TemplateKey(t)
  BY DEF Keys, StepKey, UrlKey, TemplateKey, CampaignKey

\* What a request asks for, kind by kind.
LEMMA JobShape ==
  ASSUME job \in Assignments, NEW r \in Requests
  PROVE  /\ Kind(r) = "replace" => job[r].steps \in Seq(BOOLEAN) /\ Len(job[r].steps) <= MaxSteps
         /\ Kind(r) = "upload" => job[r].cells \in Seq(Urls \cup BadCells)
         /\ Kind(r) = "patch" => job[r].column \in Columns
         /\ Kind(r) \in {"write_template", "drop_template"} => job[r].template \in Templates \cup {"unknown"}
         /\ Kind(r) = "create" => job[r].given \subseteq Columns
         /\ Kind(r) = "remove" => job[r].url \in Urls
         /\ Kind(r) \in {"replace", "upload", "patch", "remove", "status", "toggle", "delete",
                         "duplicate", "write_template", "drop_template", "create"}
<1>1. job[r] \in Job
  BY StoreAssumption
<1>2. Kind(r) = "replace" => Len(job[r].steps) <= MaxSteps
  BY StoreAssumption DEF Kind
<1>3. QED
  BY <1>1, <1>2 DEF Job, Kind

\* Nobody is called like a value that is nobody's.
LEMMA NamesApart ==
  /\ \A r \in Requests : r # "none" /\ r # "old" /\ r # "default" /\ r # "draft"
  /\ "none" \notin Writer /\ Requests \subseteq Writer /\ "old" \in Writer
  /\ "status" \notin Columns /\ "unknown" \notin Templates
  /\ \A t \in Templates : t \notin Cols
  BY StoreAssumption DEF Writer, Cols

\* The sequence has a first step.
LEMMA FirstIndex == /\ 0 \in Index /\ Index \subseteq Nat
                    /\ \A k \in Nat : k < MaxSteps => k \in Index
                    /\ \A k \in Index : k < MaxSteps
  BY StoreAssumption DEF Index

-----------------------------------------------------------------------------
(* The initial states                                                      *)

LEMMA InitInv == Init => IInv
<1> SUFFICES ASSUME Init PROVE IInv
  OBVIOUS
<1> USE NamesApart, FirstIndex
<1>1. TablesType
  <2>1. row \in [Cols -> Writer] /\ row = [c \in Cols |-> "old"]
    BY DEF Init, Cols
  <2>2. steps \in [Index -> Writer \cup {"none"}] /\ template \in [Templates -> Writer \cup {"none"}]
    BY DEF Init
  <2>3. prospect \in [Urls -> {Absent} \cup [by : Writer, home : {"here", "elsewhere"}]]
    <3>1. ASSUME NEW u \in Urls, HomeOf[u] # "none"
          PROVE  [by |-> "old", home |-> HomeOf[u]] \in [by : Writer, home : {"here", "elsewhere"}]
      BY <3>1, StoreAssumption
    <3>2. QED
      BY <3>1 DEF Init
  <2>4. born \in [Requests -> [Cols -> Writer \cup {"none", "default", "draft"}]]
    BY DEF Init, None, Cols
  <2>5. snap \in [Requests -> [Cols -> Writer]]
    BY <2>1 DEF Init
  <2>6. owed \in [Cols \cup Templates -> Writer \cup {"none"}]
    BY <2>1, <2>2 DEF Init
  <2>7. QED
    BY <2>1, <2>2, <2>3, <2>4, <2>5, <2>6 DEF Init, TablesType
<1>2. ControlType
  BY DEF Init, ControlType, At, Codes
<1>3. Sharing
  BY DEF Init, Sharing
<1>4. SequenceWhole
  <2>1. exists /\ steps = [k \in Index |-> IF k < OldSteps THEN "old" ELSE "none"]
    BY DEF Init
  <2>2. QED
    BY <2>1 DEF SequenceWhole
<1>5. NoOrphans
  BY DEF Init, NoOrphans
<1>6. AcknowledgedStands
  <2>1. \A c \in Columns \cup {"status"} : row[c] = owed[c]
    BY DEF Init, Cols
  <2>2. \A t \in Templates : template[t] = owed[t]
    BY DEF Init
  <2>3. QED
    BY <2>1, <2>2 DEF AcknowledgedStands
<1>7. ASSUME NEW r \in Requests PROVE Mine(r)
  <2>1. at[r] = "idle" /\ pos[r] = 0 /\ wants[r] = {} /\ reply[r] = 0 /\ r \notin aborted /\ r \notin share
    BY DEF Init
  <2>2. \A k \in Keys : lock[k] # r
    BY DEF Init
  <2>3. \A u \in Urls : prospect[u].by # r
    BY DEF Init, Absent
  <2>4. born[r] = None
    BY DEF Init
  <2>5. Control(r) /\ Locking(r)
    BY <2>1, <2>2, KeysApart DEF Control, Locking, Open
  <2>6. Replacing(r) /\ Cascading(r) /\ Uploading(r) /\ Stored(r) /\ Reading(r) /\ Copied(r)
    BY <2>1, <2>3, <2>4 DEF Replacing, Cascading, Uploading, Stored, Reading, Copied
  <2>7. QED
    BY <2>5, <2>6 DEF Mine
<1>8. QED
  BY <1>1, <1>2, <1>3, <1>4, <1>5, <1>6, <1>7 DEF IInv

-----------------------------------------------------------------------------
(* The steps of a request, flattened                                       *)

\* The statement fails: an upload goes on in an aborted transaction, the others answer.
Fails(r) ==
  /\ at[r] \in Open \cup {"write"} /\ Release(r)
  /\ UNCHANGED <<job, tables, snap, ghost>>
  /\ \/ MoreCells(r) /\ Advance(r) /\ aborted' = aborted \cup {r} /\ UNCHANGED <<at, reply, wants>>
     \/ (\E code \in {400, 500} : Answer(r, code, {})) /\ UNCHANGED <<pos, aborted>>

\* A step is inserted.
Inserts(r) ==
  /\ MoreSteps(r) /\ Free(r) /\ CreatesStep(r)
  /\ lock' = [lock EXCEPT ![StepKey(pos[r])] = r] /\ share' = share \cup {r}
  /\ Advance(r)
  /\ UNCHANGED <<job, tables, at, wants, snap, aborted, reply, ghost>>

\* A row of an upload is skipped.
Skips(r) ==
  /\ MoreCells(r) /\ (NextCell(r) = "empty" \/ r \in aborted) /\ Advance(r)
  /\ UNCHANGED <<job, tables, locks, at, wants, snap, aborted, reply, ghost>>

\* A row of an upload is written; one that was not there keeps the campaign.
WritesUrl(r, u) ==
  /\ MoreCells(r) /\ r \notin aborted /\ u = NextCell(r) /\ u \in Urls /\ Free(r)
  /\ lock' = [lock EXCEPT ![UrlKey(u)] = r]
  /\ \/ prospect[u] = Absent /\ lock[UrlKey(u)] # r /\ exists /\ share' = share \cup {r}
     \/ ~(prospect[u] = Absent /\ lock[UrlKey(u)] # r) /\ share' = share
  /\ Advance(r)
  /\ UNCHANGED <<job, tables, at, wants, snap, aborted, reply, ghost>>

\* The status is set, or the campaign is not there.
SetsStatus(r) ==
  at[r] = "write" /\ Kind(r) \in {"status", "toggle"} /\ \E code \in {404, 500} : StatusSet(r, code)

Transition(r) ==
  \/ Arrive(r) \/ TakeRow(r) \/ Fails(r) \/ Inserts(r) \/ CommitReplace(r)
  \/ Panic(r) \/ Skips(r) \/ (\E u \in Urls : WritesUrl(r, u)) \/ CommitUpload(r)
  \/ Update(r) \/ SetsStatus(r) \/ Delete(r) \/ CommitDelete(r) \/ Remove(r)
  \/ UpsertTemplate(r) \/ DeleteTemplate(r) \/ Create(r) \/ Duplicate(r)

\* Only a request in the middle of its statements waits for another.
LEMMA VictimIsOpen ==
  ASSUME ControlType, NEW r \in Requests, InCycle(r) PROVE at[r] \in Open \cup {"write"}
<1> SUFFICES ASSUME at[r] \in {"idle", "done"} PROVE FALSE
  BY DEF ControlType, At, Open
<1>1. Blockers(r) = {}
  BY DEF Blockers, MoreSteps, MoreCells, Wiped
<1>2. PICK S \in SUBSET Requests : r \in S /\ \A q \in S : Cardinality(Blockers(q) \cap S) = 1
  BY DEF InCycle
<1>3. Blockers(r) \cap S = {}
  BY <1>1
<1>4. QED
  BY <1>2, <1>3, FS_EmptySet

\* What a failing statement leaves, in one form.
LEMMA FailingFlat ==
  ASSUME NEW r \in Requests, StatementFails(r), at[r] \in Open \cup {"write"} PROVE Fails(r)
<1>1. UNCHANGED <<job, tables, snap, ghost>> /\ Release(r)
  BY DEF StatementFails, Undone, tables
<1>2. CASE MoreCells(r)
  BY <1>1, <1>2 DEF StatementFails, Fails, Poisoned
<1>3. CASE ~MoreCells(r)
  <2>1. Answer(r, IF MoreSteps(r) THEN 400 ELSE 500, {}) /\ UNCHANGED <<pos, aborted>>
    BY <1>3 DEF StatementFails
  <2>2. \E code \in {400, 500} : Answer(r, code, {})
    BY <2>1
  <2>3. QED
    BY <1>1, <2>1, <2>2 DEF Fails
<1>4. QED
  BY <1>2, <1>3

\* Every step of a request is one of the transitions.
LEMMA StepIsTransition ==
  ASSUME ControlType, NEW r \in Requests, Control(r),
         Arrive(r) \/ Proceed(r) \/ Interrupted(r) \/ Victim(r)
  PROVE  Transition(r)
<1>1. CASE InsertStep(r)
  <2>1. CASE CreatesStep(r)
    BY <1>1, <2>1 DEF InsertStep, Inserts, Transition
  <2>2. CASE ~CreatesStep(r)
    <3>1. StatementFails(r) /\ at[r] \in Open
      BY <1>1, <2>2 DEF InsertStep, MoreSteps, Wiped, Open
    <3>2. QED
      BY <3>1, FailingFlat DEF Transition
  <2>3. QED
    BY <2>1, <2>2
<1>2. CASE UploadRow(r)
  <2>1. MoreCells(r) /\ at[r] = "upload" /\ Free(r) /\ NextCell(r) # "short"
    BY <1>2 DEF UploadRow, MoreCells
  <2>2. CASE NextCell(r) = "empty" \/ r \in aborted
    BY <1>2, <2>2 DEF UploadRow, Skips, Transition
  <2>3. CASE ~(NextCell(r) = "empty" \/ r \in aborted)
    <3> DEFINE u == NextCell(r)
               new == u \in Urls /\ prospect[u] = Absent /\ lock[UrlKey(u)] # r
    <3>1. CASE u = "refused" \/ (new /\ ~exists)
      <4>1. StatementFails(r) /\ at[r] \in Open
        BY <1>2, <2>1, <2>3, <3>1 DEF UploadRow, Open
      <4>2. QED
        BY <4>1, FailingFlat DEF Transition
    <3>2. CASE ~(u = "refused" \/ (new /\ ~exists))
      <4>1. u \in Urls
        <5>1. Kind(r) = "upload" /\ pos[r] \in Nat /\ pos[r] < Len(job[r].cells) /\ job \in Assignments
          BY <2>1 DEF Control, ControlType, MoreCells
        <5>2. job[r].cells \in Seq(Urls \cup BadCells)
          BY <5>1, JobShape
        <5>3. job[r].cells[pos[r] + 1] \in Urls \cup BadCells
          BY <5>1, <5>2
        <5>4. QED
          BY <5>3, <2>1, <2>3, <3>2 DEF NextCell, BadCells
      <4>2. /\ lock' = [lock EXCEPT ![UrlKey(u)] = r]
            /\ share' = IF new THEN share \cup {r} ELSE share
            /\ Advance(r)
            /\ UNCHANGED <<job, tables, at, wants, snap, aborted, reply, ghost>>
        BY <1>2, <2>3, <3>2 DEF UploadRow
      <4>3. WritesUrl(r, u)
        BY <2>1, <2>3, <3>2, <4>1, <4>2 DEF WritesUrl
      <4>4. QED
        BY <4>1, <4>3 DEF Transition
    <3>3. QED
      BY <3>1, <3>2
  <2>4. QED
    BY <2>2, <2>3
<1>3. CASE SetStatus(r)
  BY <1>3 DEF SetStatus, SetsStatus, Transition
<1>4. CASE ToggleStatus(r)
  BY <1>4 DEF ToggleStatus, SetsStatus, Transition
<1>5. CASE Interrupted(r)
  <2>1. at[r] \in Open \cup {"write"} /\ StatementFails(r)
    BY <1>5 DEF Interrupted, ControlType, At, Open
  <2>2. QED
    BY <2>1, FailingFlat DEF Transition
<1>6. CASE Victim(r)
  BY <1>6, VictimIsOpen, FailingFlat DEF Victim, Transition
<1>7. QED
  BY <1>1, <1>2, <1>3, <1>4, <1>5, <1>6 DEF Proceed, Transition

-----------------------------------------------------------------------------
(* What a step of one request leaves to the others                         *)

\* A step of r moves nobody else, and takes and frees no lock of anybody else.
OthersAlone(r) == \A q \in Requests \ {r} :
  /\ at'[q] = at[q] /\ pos'[q] = pos[q] /\ reply'[q] = reply[q] /\ snap'[q] = snap[q]
  /\ born'[q] = born[q] /\ wants'[q] \subseteq wants[q]
  /\ q \in aborted' <=> q \in aborted
  /\ q \in share' <=> q \in share
  /\ \A k \in Keys : lock'[k] = q <=> lock[k] = q

\* The rows a DELETE reaches are rows it wants.
LEMMA ReachesWanted == ASSUME NEW r \in Requests PROVE Reaches(r) \subseteq wants[r]
  BY DEF Reaches

\* A key nobody else holds.
LEMMA NotOthers ==
  ASSUME ControlType, NEW r \in Requests, NEW ks \in SUBSET Keys, Others(r, Holders(ks)) = {}
  PROVE  \A k \in ks : lock[k] \in {r, "none"}
  BY DEF Others, Holders, ControlType

\* A rollback or a commit frees the locks of one request.
LEMMA ReleaseTyped ==
  ASSUME ControlType, NEW r \in Requests, Release(r)
  PROVE  /\ lock' \in [Keys -> Requests \cup {"none"}] /\ share' \subseteq Requests
         /\ \A k \in Keys : lock'[k] # r
         /\ \A k \in Keys : lock[k] # r => lock'[k] = lock[k]
         /\ \A k \in Keys : lock[k] = r => lock'[k] = "none"
         /\ share' = share \ {r}
  BY NamesApart DEF ControlType, Release

\* An answer ends one request.
LEMMA AnswerTyped ==
  ASSUME ControlType, NEW r \in Requests, NEW code \in Codes \ {0}, NEW gone, Answer(r, code, gone)
  PROVE  /\ at' \in [Requests -> At] /\ reply' \in [Requests -> Codes]
         /\ wants' \in [Requests -> SUBSET Keys]
         /\ at'[r] = "done" /\ reply'[r] = code /\ wants'[r] = {}
         /\ \A q \in Requests \ {r} : /\ at'[q] = at[q] /\ reply'[q] = reply[q]
                                      /\ wants'[q] = wants[q] \ gone
  BY DEF ControlType, Answer, At

\* The locks a statement waits for are free when it goes on.
LEMMA FreeKeys ==
  ASSUME ControlType, NEW r \in Requests, Free(r)
  PROVE  /\ MoreSteps(r) /\ NextStep(r) /\ pos[r] \in Index =>
              /\ lock[StepKey(pos[r])] \in {r, "none"}
              /\ r \in share \/ lock[CampaignKey] \in {r, "none"}
         /\ \A u \in Urls : MoreCells(r) /\ r \notin aborted /\ u = NextCell(r) =>
              /\ lock[UrlKey(u)] \in {r, "none"}
              /\ prospect[u] = Absent => r \in share \/ lock[CampaignKey] \in {r, "none"}
         /\ at[r] = "write" =>
              /\ Kind(r) = "remove" => \A k \in wants[r] : lock[k] \in {r, "none"}
              /\ Kind(r) = "delete" => lock[CampaignKey] \in {r, "none"} /\ share \subseteq {r}
              /\ Kind(r) \in {"write_template", "drop_template"} /\ job[r].template \in Templates =>
                   lock[TemplateKey(job[r].template)] \in {r, "none"}
              /\ Kind(r) = "write_template" /\ template[job[r].template] = "none" =>
                   r \in share \/ lock[CampaignKey] \in {r, "none"}
<1> USE KeysApart, NotOthers
<1> DEFINE Shared == r \in share \/ lock[CampaignKey] \in {r, "none"}
<1>1. ShareBlockers(r) = {} => Shared
  BY NotOthers, KeysApart DEF ShareBlockers, Others, Holders
<1>2. ASSUME MoreSteps(r), NextStep(r), pos[r] \in Index
      PROVE  lock[StepKey(pos[r])] \in {r, "none"} /\ Shared
  <2>1. Others(r, Holders({StepKey(pos[r])})) = {} /\ ShareBlockers(r) = {}
    BY <1>2 DEF Free, Blockers, MoreSteps, Wiped, MoreCells
  <2>2. {StepKey(pos[r])} \in SUBSET Keys
    BY <1>2, KeysApart
  <2>3. QED
    BY <1>1, <2>1, <2>2, NotOthers
<1>3. ASSUME NEW u \in Urls, MoreCells(r), r \notin aborted, u = NextCell(r)
      PROVE  lock[UrlKey(u)] \in {r, "none"} /\ (prospect[u] = Absent => Shared)
  <2>1. Others(r, Holders({UrlKey(u)})) = {} /\ (prospect[u] = Absent => ShareBlockers(r) = {})
    BY <1>3 DEF Free, Blockers, MoreSteps, Wiped, MoreCells
  <2>2. {UrlKey(u)} \in SUBSET Keys
    BY KeysApart
  <2>3. QED
    BY <1>1, <2>1, <2>2, NotOthers
<1>4. ASSUME at[r] = "write", Kind(r) = "remove" PROVE \A k \in wants[r] : lock[k] \in {r, "none"}
  <2>1. Others(r, Holders(wants[r])) = {}
    BY <1>4 DEF Free, Blockers, MoreSteps, Wiped, MoreCells
  <2>2. QED
    BY <2>1, NotOthers DEF ControlType
<1>5. ASSUME at[r] = "write", Kind(r) = "delete"
      PROVE  lock[CampaignKey] \in {r, "none"} /\ share \subseteq {r}
  <2>1. Others(r, Holders({CampaignKey}) \cup share) = {}
    BY <1>5 DEF Free, Blockers, MoreSteps, Wiped, MoreCells
  <2>2. share \subseteq {r}
    BY <2>1, NamesApart DEF Others, ControlType
  <2>3. lock[CampaignKey] \in {r, "none"}
    BY <2>1 DEF Others, Holders
  <2>4. QED
    BY <2>2, <2>3
<1>6. ASSUME at[r] = "write", Kind(r) \in {"write_template", "drop_template"}
      PROVE  /\ job[r].template \in Templates => lock[TemplateKey(job[r].template)] \in {r, "none"}
             /\ Kind(r) = "write_template" /\ template[job[r].template] = "none" => Shared
  <2>1. /\ Others(r, Holders({TemplateKey(job[r].template)})) = {}
        /\ Kind(r) = "write_template" /\ template[job[r].template] = "none" => ShareBlockers(r) = {}
    BY <1>6 DEF Free, Blockers, MoreSteps, Wiped, MoreCells
  <2>2. job[r].template \in Templates => {TemplateKey(job[r].template)} \in SUBSET Keys
    BY KeysApart
  <2>3. QED
    BY <1>1, <2>1, <2>2, NotOthers
<1>7. QED
  BY <1>2, <1>3, <1>4, <1>5, <1>6

\* What the first statement of a request can come to.
LEMMA ArriveFlat ==
  ASSUME ControlType, NEW r \in Requests, Control(r), Arrive(r)
  PROVE  /\ at[r] = "idle" /\ reply[r] = 0 /\ pos[r] = 0 /\ wants[r] = {} /\ r \notin aborted
         /\ UNCHANGED <<job, tables, locks, pos, aborted, ghost>>
         /\ \/ (\E code \in {400, 404} : Answer(r, code, {})) /\ UNCHANGED snap
            \/ /\ Kind(r) = "replace" /\ job[r].steps # <<>> /\ Goto(r, "wipe") /\ UNCHANGED <<snap, reply>>
               /\ wants' = [wants EXCEPT ![r] = {StepKey(k) : k \in {j \in Index : steps[j] # "none"}}]
            \/ Kind(r) = "upload" /\ Goto(r, "upload") /\ UNCHANGED <<snap, reply, wants>>
            \/ /\ Kind(r) = "remove" /\ Goto(r, "write") /\ UNCHANGED <<snap, reply>>
               /\ wants' = [wants EXCEPT ![r] =
                    {UrlKey(u) : u \in {v \in {job[r].url} : prospect[v] # Absent}}]
            \/ /\ Kind(r) \in {"toggle", "write_template", "drop_template", "create"}
               /\ Kind(r) \in {"write_template", "drop_template"} => job[r].template \in Templates
               /\ Goto(r, "write") /\ UNCHANGED <<snap, reply, wants>>
            \/ /\ Kind(r) \in {"patch", "status", "delete", "duplicate"} /\ Found(r)
               /\ Goto(r, "write") /\ UNCHANGED <<reply, wants>>
<1>1. at[r] = "idle" /\ reply[r] = 0 /\ pos[r] = 0 /\ wants[r] = {} /\ r \notin aborted
  BY DEF Arrive, Control, ControlType
<1>2. UNCHANGED <<job, tables, locks, pos, aborted, ghost>>
  BY DEF Arrive
<1>3. CASE Refused(r)
  <2>1. (\E code \in {400, 404} : Answer(r, code, {})) /\ UNCHANGED snap
    <3>1. Kind(r) \in {"replace", "create", "write_template", "drop_template"}
      BY <1>3 DEF Refused
    <3>2. QED
      BY <1>3, <3>1 DEF Arrive
  <2>2. QED
    BY <1>1, <1>2, <2>1
<1>4. CASE ~Refused(r)
  <2>1. Kind(r) \in {"replace", "upload", "patch", "remove", "status", "toggle", "delete",
                     "duplicate", "write_template", "drop_template", "create"}
    BY JobShape DEF ControlType
  <2>2. CASE Kind(r) = "replace"
    BY <1>1, <1>2, <1>4, <2>2 DEF Arrive, Refused
  <2>3. CASE Kind(r) \in {"upload", "toggle", "write_template", "drop_template", "create"}
    <3>1. Kind(r) \in {"write_template", "drop_template"} => job[r].template \in Templates
      BY <1>4 DEF Refused, KnownTemplate
    <3>2. QED
      BY <1>1, <1>2, <1>4, <2>3, <3>1 DEF Arrive
  <2>4. CASE Kind(r) = "remove"
    BY <1>1, <1>2, <1>4, <2>4 DEF Arrive
  <2>5. CASE Kind(r) \in {"patch", "status", "delete", "duplicate"}
    <3>1. \/ Found(r) /\ Goto(r, "write") /\ UNCHANGED <<reply, wants>>
          \/ Answer(r, 404, {}) /\ UNCHANGED snap
      BY <1>4, <2>5 DEF Arrive
    <3>2. QED
      BY <1>1, <1>2, <2>5, <3>1
  <2>6. QED
    BY <2>1, <2>2, <2>3, <2>4, <2>5
<1>5. QED
  BY <1>3, <1>4

\* Where a Replace inserts its next step.
LEMMA InsertFlat ==
  ASSUME ControlType, NEW r \in Requests, Control(r), Inserts(r)
  PROVE  /\ at[r] = "wipe" /\ wants[r] = {} /\ Kind(r) = "replace" /\ exists
         /\ pos[r] \in Index /\ pos[r] \in Nat /\ pos[r] < Len(job[r].steps) /\ Len(job[r].steps) \in Nat
         /\ steps[pos[r]] = "none" \/ lock[StepKey(pos[r])] = r
         /\ lock[StepKey(pos[r])] \in {r, "none"}
         /\ r \in share \/ lock[CampaignKey] \in {r, "none"}
         /\ lock' = [lock EXCEPT ![StepKey(pos[r])] = r] /\ share' = share \cup {r}
         /\ pos' = [pos EXCEPT ![r] = pos[r] + 1]
         /\ UNCHANGED <<job, tables, at, wants, snap, aborted, reply, ghost>>
<1>1. at[r] = "wipe" /\ wants[r] = {} /\ Kind(r) = "replace" /\ pos[r] < Len(job[r].steps) /\ pos[r] \in Nat
  BY DEF Inserts, MoreSteps, Wiped, Control, ControlType
<1>2. Len(job[r].steps) \in Nat /\ Len(job[r].steps) <= MaxSteps
  BY <1>1, JobShape DEF ControlType
<1>3. pos[r] \in Index
  BY <1>1, <1>2, StoreAssumption DEF Index
<1>4. exists /\ (steps[pos[r]] = "none" \/ lock[StepKey(pos[r])] = r) /\ NextStep(r)
  BY DEF Inserts, CreatesStep, Taken
<1>5. lock[StepKey(pos[r])] \in {r, "none"} /\ (r \in share \/ lock[CampaignKey] \in {r, "none"})
  BY <1>3, <1>4, FreeKeys DEF Inserts
<1>6. QED
  BY <1>1, <1>2, <1>3, <1>4, <1>5 DEF Inserts, Advance

\* A step of a request keeps the types of locks and positions, and the others as they are.
LEMMA StepFrame ==
  ASSUME TablesType, ControlType, NEW r \in Requests, Control(r), Locking(r), Transition(r)
  PROVE  ControlType' /\ OthersAlone(r)
<1> DEFINE Lasting == UNCHANGED <<snap, born>>
           Mover == /\ at' \in [Requests -> At] /\ reply' \in [Requests -> Codes]
                    /\ wants' \in [Requests -> SUBSET Keys]
                    /\ \A q \in Requests \ {r} : /\ at'[q] = at[q] /\ reply'[q] = reply[q]
                                                 /\ wants'[q] \subseteq wants[q]
           Locker == /\ lock' \in [Keys -> Requests \cup {"none"}] /\ share' \subseteq Requests
                     /\ \A q \in Requests \ {r} : /\ q \in share' <=> q \in share
                                                  /\ \A k \in Keys : lock'[k] = q <=> lock[k] = q
           Walker == /\ pos' \in [Requests -> Nat] /\ aborted' \subseteq Requests
                     /\ \A q \in Requests \ {r} : pos'[q] = pos[q] /\ (q \in aborted' <=> q \in aborted)
           Keeper == \A q \in Requests \ {r} : snap'[q] = snap[q] /\ born'[q] = born[q]
<1>1. ASSUME Mover, Locker, Walker, Keeper, job' = job PROVE ControlType' /\ OthersAlone(r)
  BY <1>1 DEF ControlType, OthersAlone
<1>2. ASSUME NEW code \in Codes \ {0}, NEW gone, Answer(r, code, gone) PROVE Mover
  BY <1>2, AnswerTyped
<1>3. Release(r) => Locker
  <2>1. SUFFICES ASSUME Release(r) PROVE Locker
    OBVIOUS
  <2>2. QED
    BY <2>1, ReleaseTyped, NamesApart
<1>4. UNCHANGED <<lock, share>> => Locker
  BY DEF ControlType
<1>5. UNCHANGED <<pos, aborted>> => Walker
  BY DEF ControlType
<1>6. Lasting => Keeper
  OBVIOUS
<1>7. UNCHANGED <<at, reply, wants>> => Mover
  BY DEF ControlType
<1>8. ASSUME NEW k \in Keys, lock[k] \in {r, "none"}, lock' = [lock EXCEPT ![k] = r],
             share' = share \/ share' = share \cup {r}
      PROVE  Locker
  BY <1>8, NamesApart DEF ControlType
<1>9. Advance(r) /\ aborted' \in {aborted, aborted \cup {r}} => Walker
  BY DEF ControlType, Advance
<1>10. ASSUME NEW w \in At, NEW ks \in SUBSET Keys, Goto(r, w), reply' = reply,
              wants' = [wants EXCEPT ![r] = ks] \/ wants' = wants
       PROVE  Mover
  BY <1>10 DEF ControlType, Goto
<1> HIDE DEF Mover, Locker, Walker, Keeper
<1>11. CASE Arrive(r)
  <2>1. Locker /\ Walker /\ job' = job
    BY <1>4, <1>5, <1>11, ArriveFlat DEF locks
  <2>2. Keeper
    BY <1>11, ArriveFlat DEF Keeper, Found, tables, TablesType
  <2>3. Mover
    <3>1. 400 \in Codes \ {0} /\ 404 \in Codes \ {0} /\ {"wipe", "upload", "write"} \subseteq At
      BY DEF Codes, At
    <3>2. {StepKey(k) : k \in {j \in Index : steps[j] # "none"}} \in SUBSET Keys
      BY KeysApart
    <3>3. Kind(r) = "remove" => {UrlKey(u) : u \in {v \in {job[r].url} : prospect[v] # Absent}} \in SUBSET Keys
      BY KeysApart, JobShape DEF ControlType
    <3>4. \A code \in {400, 404} : Answer(r, code, {}) => Mover
      BY <1>2, <3>1
    <3> DEFINE found == {StepKey(k) : k \in {j \in Index : steps[j] # "none"}}
               there == {UrlKey(u) : u \in {v \in {job[r].url} : prospect[v] # Absent}}
    <3>5. Goto(r, "wipe") /\ reply' = reply /\ wants' = [wants EXCEPT ![r] = found] => Mover
      BY <1>10, <3>1, <3>2
    <3>6. Kind(r) = "remove" /\ Goto(r, "write") /\ reply' = reply /\ wants' = [wants EXCEPT ![r] = there] => Mover
      BY <1>10, <3>1, <3>3
    <3>7. Goto(r, "write") \/ Goto(r, "upload") => (UNCHANGED <<reply, wants>> => Mover)
      BY <1>10, <3>1, KeysApart
    <3> HIDE DEF found, there
    <3>8. QED
      BY <1>11, <3>4, <3>5, <3>6, <3>7, ArriveFlat DEF found, there
  <2>4. QED
    BY <1>1, <2>1, <2>2, <2>3
<1>12. CASE TakeRow(r)
  <2>1. PICK k \in Reaches(r) : /\ lock[k] = "none" /\ lock' = [lock EXCEPT ![k] = r]
                               /\ wants' = [wants EXCEPT ![r] = @ \ {k}]
    BY <1>12 DEF TakeRow
  <2>2. k \in Keys
    BY <2>1, ReachesWanted DEF ControlType
  <2>3. Locker
    BY <1>8, <1>12, <2>1, <2>2 DEF TakeRow
  <2>4. Mover
    BY <1>12, <2>1 DEF TakeRow, ControlType, Mover
  <2>5. QED
    BY <1>1, <1>5, <1>6, <1>12, <2>3, <2>4 DEF TakeRow, tables
<1>13. CASE Fails(r)
  <2>1. Locker /\ Keeper /\ job' = job
    BY <1>3, <1>6, <1>13 DEF Fails, tables
  <2>2. Mover /\ Walker
    BY <1>2, <1>5, <1>7, <1>9, <1>13 DEF Fails, Codes
  <2>3. QED
    BY <1>1, <2>1, <2>2
<1>14. CASE Inserts(r)
  <2>1. pos[r] \in Index /\ lock[StepKey(pos[r])] \in {r, "none"}
    BY <1>14, InsertFlat
  <2>2. StepKey(pos[r]) \in Keys
    BY <2>1, KeysApart
  <2>3. Locker
    BY <1>8, <1>14, <2>1, <2>2 DEF Inserts
  <2>4. QED
    BY <1>1, <1>6, <1>7, <1>9, <1>14, <2>3 DEF Inserts, tables
<1>15. CASE CommitReplace(r)
  <2>1. Mover
    BY <1>2, <1>15 DEF CommitReplace, Codes
  <2>2. QED
    BY <1>1, <1>3, <1>5, <1>6, <1>15, <2>1 DEF CommitReplace
<1>16. CASE Panic(r)
  <2>1. Mover
    BY <1>2, <1>16 DEF Panic, Codes
  <2>2. QED
    BY <1>1, <1>3, <1>5, <1>6, <1>16, <2>1 DEF Panic, DeferredRollback, tables
<1>17. CASE Skips(r)
  BY <1>1, <1>4, <1>6, <1>7, <1>9, <1>17 DEF Skips, tables, locks
<1>18. ASSUME NEW u \in Urls, WritesUrl(r, u) PROVE Mover /\ Locker /\ Walker /\ Keeper /\ job' = job
  <2>1. lock[UrlKey(u)] \in {r, "none"} /\ UrlKey(u) \in Keys
    BY <1>18, FreeKeys, KeysApart DEF WritesUrl
  <2>2. Locker
    BY <1>8, <1>18, <2>1 DEF WritesUrl
  <2>3. QED
    BY <1>6, <1>7, <1>9, <1>18, <2>2 DEF WritesUrl, tables
<1>19. CASE CommitUpload(r)
  <2>1. Mover
    BY <1>2, <1>19 DEF CommitUpload, Codes
  <2>2. QED
    BY <1>1, <1>3, <1>5, <1>6, <1>19, <2>1 DEF CommitUpload
<1>20. CASE Update(r)
  <2>1. Mover
    BY <1>2, <1>20 DEF Update, Codes
  <2>2. QED
    BY <1>1, <1>4, <1>5, <1>6, <1>20, <2>1 DEF Update, locks
<1>21. CASE SetsStatus(r)
  <2>1. PICK code \in {404, 500} : StatusSet(r, code)
    BY <1>21 DEF SetsStatus
  <2>2. Mover
    BY <1>2, <2>1 DEF StatusSet, Codes
  <2>3. QED
    BY <1>1, <1>4, <1>5, <1>6, <2>1, <2>2 DEF StatusSet, locks
<1>22. CASE Delete(r)
  <2>1. UNCHANGED <<job, pos, snap, aborted, born, share>>
    BY <1>22 DEF Delete, tables
  <2>2. CASE exists
    <3>1. CampaignKey \in Keys /\ lock[CampaignKey] \in {r, "none"}
      BY <1>22, KeysApart, FreeKeys DEF Delete
    <3>2. Locker
      BY <1>8, <1>22, <2>1, <2>2, <3>1 DEF Delete
    <3> DEFINE ks == {StepKey(k) : k \in {j \in Index : steps[j] # "none"}}
                   \cup {UrlKey(u) : u \in {v \in Urls : prospect[v].home = "here"}}
                   \cup {TemplateKey(t) : t \in {k \in Templates : template[k] # "none"}}
    <3>3. ks \in SUBSET Keys /\ "cascade" \in At
      BY KeysApart DEF At
    <3>4. wants' = [wants EXCEPT ![r] = ks] /\ Goto(r, "cascade") /\ reply' = reply
      BY <1>22, <2>2 DEF Delete
    <3> HIDE DEF ks
    <3>5. Mover
      BY <1>10, <3>3, <3>4
    <3>6. QED
      BY <1>1, <1>5, <1>6, <2>1, <3>2, <3>5
  <2>3. CASE ~exists
    <3>1. Mover
      BY <1>2, <1>22, <2>3 DEF Delete, Codes
    <3>2. QED
      BY <1>1, <1>4, <1>5, <1>6, <1>22, <2>1, <2>3, <3>1 DEF Delete
  <2>4. QED
    BY <2>2, <2>3
<1>23. CASE CommitDelete(r)
  <2>1. Mover
    BY <1>2, <1>23 DEF CommitDelete, Codes
  <2>2. QED
    BY <1>1, <1>3, <1>5, <1>6, <1>23, <2>1 DEF CommitDelete
<1>24. CASE Remove(r)
  <2>1. Mover
    BY <1>2, <1>24 DEF Remove, Codes
  <2>2. QED
    BY <1>1, <1>4, <1>5, <1>6, <1>24, <2>1 DEF Remove, locks
<1>25. CASE UpsertTemplate(r)
  <2>1. Mover
    BY <1>2, <1>25 DEF UpsertTemplate, Codes
  <2>2. QED
    BY <1>1, <1>4, <1>5, <1>6, <1>25, <2>1 DEF UpsertTemplate, locks
<1>26. CASE DeleteTemplate(r)
  <2>1. Mover
    BY <1>2, <1>26 DEF DeleteTemplate, Codes
  <2>2. QED
    BY <1>1, <1>4, <1>5, <1>6, <1>26, <2>1 DEF DeleteTemplate, locks
<1>27. CASE Create(r) \/ Duplicate(r)
  <2>1. Mover
    BY <1>2, <1>27 DEF Create, Duplicate, Codes
  <2>2. Keeper
    BY <1>27 DEF Create, Duplicate, Keeper, TablesType
  <2>3. UNCHANGED <<lock, share, pos, aborted, job>>
    BY <1>27 DEF Create, Duplicate, locks
  <2>4. QED
    BY <1>1, <1>4, <1>5, <2>1, <2>2, <2>3
<1>28. QED
  BY <1>1, <1>11, <1>12, <1>13, <1>14, <1>15, <1>16, <1>17, <1>18, <1>19, <1>20, <1>21, <1>22,
     <1>23, <1>24, <1>25, <1>26, <1>27 DEF Transition

\* A step keeps the types of the tables.
LEMMA TablesStep ==
  ASSUME TablesType, ControlType, NEW r \in Requests, Control(r), Transition(r)
  PROVE  TablesType'
<1> USE NamesApart
<1>1. ASSUME UNCHANGED <<tables, snap, ghost>> PROVE TablesType'
  BY <1>1 DEF TablesType, tables, ghost
<1>2. CASE Arrive(r)
  <2>1. snap' \in [Requests -> [Cols -> Writer]]
    BY <1>2, ArriveFlat DEF Found, TablesType
  <2>2. QED
    BY <1>2, <2>1, ArriveFlat DEF TablesType, tables, ghost
<1>3. CASE CommitReplace(r)
  BY <1>3 DEF CommitReplace, TablesType, ghost
<1>4. CASE CommitUpload(r)
  <2>1. ASSUME NEW u \in Urls PROVE Upserted(r, u) \in [by : Writer, home : {"here", "elsewhere"}]
    BY <2>1 DEF TablesType, Upserted
  <2>2. prospect' \in [Urls -> {Absent} \cup [by : Writer, home : {"here", "elsewhere"}]]
    BY <1>4, <2>1 DEF CommitUpload, TablesType
  <2>3. stored' \in [Urls -> SUBSET Requests]
    BY <1>4 DEF CommitUpload, TablesType
  <2>4. QED
    BY <1>4, <2>2, <2>3 DEF CommitUpload, TablesType
<1>5. CASE Update(r)
  <2>1. job[r].column \in Columns
    BY <1>5, JobShape DEF Update, ControlType
  <2>2. Patched(r) \in [Cols -> Writer]
    BY <2>1 DEF Patched, TablesType, Cols
  <2>3. row' \in [Cols -> Writer] /\ raced' \subseteq Columns
        /\ owed' \in [Cols \cup Templates -> Writer \cup {"none"}]
    BY <1>5, <2>1, <2>2 DEF Update, TablesType
  <2>4. QED
    BY <1>5, <2>3 DEF Update, TablesType
<1>6. CASE SetsStatus(r)
  <2>1. PICK code \in {404, 500} : StatusSet(r, code)
    BY <1>6 DEF SetsStatus
  <2>2. row' \in [Cols -> Writer] /\ owed' \in [Cols \cup Templates -> Writer \cup {"none"}]
    BY <2>1 DEF StatusSet, WithStatus, TablesType
  <2>3. QED
    BY <2>1, <2>2 DEF StatusSet, TablesType
<1>7. CASE CommitDelete(r)
  <2>1. steps' \in [Index -> Writer \cup {"none"}] /\ template' \in [Templates -> Writer \cup {"none"}]
        /\ prospect' \in [Urls -> {Absent} \cup [by : Writer, home : {"here", "elsewhere"}]]
    BY <1>7 DEF CommitDelete, TablesType
  <2>2. QED
    BY <1>7, <2>1 DEF CommitDelete, TablesType, ghost
<1>8. CASE Remove(r)
  <2>1. prospect' \in [Urls -> {Absent} \cup [by : Writer, home : {"here", "elsewhere"}]]
    BY <1>8 DEF Remove, TablesType
  <2>2. QED
    BY <1>8, <2>1 DEF Remove, TablesType, ghost
<1>9. CASE UpsertTemplate(r)
  <2>1. template' \in [Templates -> Writer \cup {"none"}]
        /\ owed' \in [Cols \cup Templates -> Writer \cup {"none"}]
    BY <1>9 DEF UpsertTemplate, TextStored, TablesType
  <2>2. QED
    BY <1>9, <2>1 DEF UpsertTemplate, TablesType
<1>10. CASE DeleteTemplate(r)
  <2>1. template' \in [Templates -> Writer \cup {"none"}]
        /\ owed' \in [Cols \cup Templates -> Writer \cup {"none"}]
    BY <1>10 DEF DeleteTemplate, TextDropped, TablesType
  <2>2. QED
    BY <1>10, <2>1 DEF DeleteTemplate, TablesType
<1>11. CASE Create(r)
  <2>1. CreatedRow(r) \in [Cols -> Writer \cup {"none", "default", "draft"}]
    BY DEF CreatedRow, Cols
  <2>2. born' \in [Requests -> [Cols -> Writer \cup {"none", "default", "draft"}]]
    BY <1>11, <2>1 DEF Create, TablesType
  <2>3. QED
    BY <1>11, <2>2 DEF Create, TablesType, ghost
<1>12. CASE Duplicate(r)
  <2>1. CopiedRow \in [Cols -> Writer \cup {"none", "default", "draft"}]
    BY DEF CopiedRow, TablesType
  <2>2. born' \in [Requests -> [Cols -> Writer \cup {"none", "default", "draft"}]]
    BY <1>12, <2>1 DEF Duplicate, TablesType
  <2>3. QED
    BY <1>12, <2>2 DEF Duplicate, TablesType, ghost
<1>13. QED
  <2>1. CASE \/ TakeRow(r) \/ Fails(r) \/ Inserts(r) \/ Panic(r) \/ Skips(r) \/ Delete(r)
             \/ \E u \in Urls : WritesUrl(r, u)
    BY <1>1, <2>1 DEF TakeRow, Fails, Inserts, Panic, Skips, Delete, WritesUrl
  <2>2. QED
    BY <1>2, <1>3, <1>4, <1>5, <1>6, <1>7, <1>8, <1>9, <1>10, <1>11, <1>12, <2>1 DEF Transition

\* What ends a request, with its locks freed or with none before.
Ends(r) == at'[r] = "done" /\ reply'[r] \in Codes \ {0} /\ wants'[r] = {}
             /\ (\A k \in Keys : lock'[k] # r) /\ r \notin share'

\* Which steps end a request: a COMMIT, a panic, a failure that is answered, and every
\* single statement.
LEMMA StepEnds ==
  ASSUME ControlType, NEW r \in Requests, Control(r), Locking(r)
  PROVE  /\ CommitReplace(r) \/ Panic(r) \/ CommitUpload(r) \/ CommitDelete(r) => Ends(r)
         /\ \/ Update(r) \/ SetsStatus(r) \/ Remove(r) \/ UpsertTemplate(r) \/ DeleteTemplate(r)
            \/ Create(r) \/ Duplicate(r)
            => Ends(r)
         /\ Arrive(r) /\ at'[r] \notin {"wipe", "upload", "write"} => Ends(r)
         /\ Fails(r) /\ ~(MoreCells(r) /\ at' = at) => Ends(r)
         /\ Delete(r) /\ ~exists => Ends(r)
<1>1. ASSUME NEW code \in Codes \ {0}, NEW gone, Answer(r, code, gone), Release(r) PROVE Ends(r)
  BY <1>1, AnswerTyped, ReleaseTyped DEF Ends
<1>2. ASSUME NEW code \in Codes \ {0}, NEW gone, Answer(r, code, gone), UNCHANGED locks, at[r] \notin Open
      PROVE  Ends(r)
  BY <1>2, AnswerTyped DEF Ends, Locking, locks
<1>3. {200, 201, 204, 400, 404, 500} \subseteq Codes \ {0} /\ "write" \notin Open /\ "idle" \notin Open
  BY DEF Codes, Open
<1>4. CommitReplace(r) \/ Panic(r) \/ CommitUpload(r) \/ CommitDelete(r) => Ends(r)
  BY <1>1, <1>3 DEF CommitReplace, Panic, DeferredRollback, CommitUpload, CommitDelete
<1>5. Update(r) \/ Remove(r) \/ UpsertTemplate(r) \/ DeleteTemplate(r) \/ Create(r) \/ Duplicate(r) => Ends(r)
  BY <1>2, <1>3 DEF Update, Remove, UpsertTemplate, DeleteTemplate, Create, Duplicate
<1>6. SetsStatus(r) => Ends(r)
  BY <1>2, <1>3 DEF SetsStatus, StatusSet
<1>7. Arrive(r) /\ at'[r] \notin {"wipe", "upload", "write"} => Ends(r)
  <2>1. SUFFICES ASSUME Arrive(r), at'[r] \notin {"wipe", "upload", "write"} PROVE Ends(r)
    OBVIOUS
  <2>2. ASSUME NEW w \in {"wipe", "upload", "write"}, Goto(r, w) PROVE FALSE
    BY <2>1, <2>2 DEF Goto, ControlType
  <2>3. PICK code \in {400, 404} : Answer(r, code, {})
    BY <2>1, <2>2, ArriveFlat
  <2>4. QED
    BY <1>2, <1>3, <2>1, <2>3, ArriveFlat
<1>8. Fails(r) /\ ~(MoreCells(r) /\ at' = at) => Ends(r)
  BY <1>1, <1>3 DEF Fails
<1>9. Delete(r) /\ ~exists => Ends(r)
  BY <1>2, <1>3 DEF Delete, locks
<1>10. QED
  BY <1>4, <1>5, <1>6, <1>7, <1>8, <1>9

\* A step keeps a request's control and its locks in order.
LEMMA ControlStep ==
  ASSUME TablesType, ControlType, NEW r \in Requests, Control(r), Locking(r), Transition(r)
  PROVE  Control(r)' /\ Locking(r)'
<1> USE NamesApart
<1>1. ControlType' /\ job' = job
  <2>1. job' = job
    BY ArriveFlat DEF Transition, TakeRow, Fails, Inserts, CommitReplace, Panic, Skips, WritesUrl,
       CommitUpload, Update, SetsStatus, StatusSet, Delete, CommitDelete, Remove, UpsertTemplate,
       DeleteTemplate, Create, Duplicate
  <2>2. QED
    BY <2>1, StepFrame
<1>2. CASE Ends(r)
  <2>1. Control(r)'
    BY <1>2, <1>1 DEF Ends, Control, ControlType
  <2>2. Locking(r)'
    BY <1>2, KeysApart DEF Ends, Locking, Open
  <2>3. QED
    BY <2>1, <2>2
<1>3. CASE Arrive(r) /\ at'[r] \in {"wipe", "upload", "write"}
  <2>1. UNCHANGED <<lock, share, pos, aborted>> /\ at[r] = "idle" /\ pos[r] = 0 /\ reply[r] = 0 /\ wants[r] = {}
    BY <1>3, ArriveFlat DEF locks
  <2>2. ASSUME NEW code, Answer(r, code, {}) PROVE FALSE
    BY <1>3, <2>2 DEF Answer, ControlType
  <2>3. reply' = reply
    BY <1>3, <2>2, ArriveFlat
  <2>4. /\ at' = [at EXCEPT ![r] = at'[r]]
        /\ at'[r] = "wipe" => Kind(r) = "replace" /\ job[r].steps # <<>>
        /\ at'[r] = "upload" => Kind(r) = "upload"
        /\ at'[r] = "write" => /\ Kind(r) \notin {"replace", "upload"}
                               /\ wants'[r] \subseteq {UrlKey(u) : u \in Urls}
                               /\ Kind(r) \in {"write_template", "drop_template"} => job[r].template \in Templates
    <3>1. Kind(r) = "remove" => job[r].url \in Urls
      BY JobShape DEF ControlType
    <3>2. QED
      BY <1>3, <2>1, <2>2, <3>1, ArriveFlat DEF Goto, ControlType
  <2>5. Kind(r) = "replace" /\ job[r].steps # <<>> => Len(job[r].steps) > 0
    BY JobShape DEF ControlType
  <2>6. Kind(r) = "upload" => Len(job[r].cells) >= 0
    BY JobShape DEF ControlType
  <2>7. pos'[r] = 0 /\ reply'[r] = 0 /\ at'[r] \in {"wipe", "upload", "write"}
    BY <1>3, <2>1, <2>3
  <2>8. Control(r)'
    BY <1>1, <2>4, <2>5, <2>6, <2>7 DEF Control, Kind
  <2>9. CampaignKey \notin wants'[r]
    <3>1. \/ wants' = wants
          \/ wants' = [wants EXCEPT ![r] = {StepKey(k) : k \in {j \in Index : steps[j] # "none"}}]
          \/ /\ job[r].url \in Urls
             /\ wants' = [wants EXCEPT ![r] =
                  {UrlKey(u) : u \in {v \in {job[r].url} : prospect[v] # Absent}}]
      <4>1. Kind(r) = "remove" => job[r].url \in Urls
        BY JobShape DEF ControlType
      <4>2. QED
        BY <1>3, <2>2, <4>1, ArriveFlat
    <3>2. QED
      BY <2>1, <3>1, KeysApart DEF ControlType
  <2>10. Locking(r)'
    BY <2>1, <2>7, <2>9, KeysApart DEF Locking, Open
  <2>11. QED
    BY <2>8, <2>10
<1>4. CASE TakeRow(r)
  <2>1. PICK k \in wants[r] : /\ lock' = [lock EXCEPT ![k] = r] /\ wants' = [wants EXCEPT ![r] = @ \ {k}]
    BY <1>4, ReachesWanted DEF TakeRow
  <2>2. UNCHANGED <<job, share, at, pos, aborted, reply>> /\ at[r] \in {"wipe", "cascade"}
    BY <1>4 DEF TakeRow
  <2>3. k \in Keys /\ k # CampaignKey /\ wants'[r] \subseteq wants[r]
    BY <2>1 DEF Locking, ControlType
  <2>4. Control(r)'
    BY <2>2 DEF Control, Kind
  <2>5. Locking(r)'
    BY <2>1, <2>2, <2>3, KeysApart DEF Locking, Open, ControlType
  <2>6. QED
    BY <2>4, <2>5
<1>5. CASE Inserts(r)
  <2>1. Control(r)'
    BY <1>5, InsertFlat DEF Control, Kind, ControlType
  <2>2. Locking(r)'
    BY <1>5, InsertFlat, KeysApart DEF Locking, Open, ControlType
  <2>3. QED
    BY <2>1, <2>2
<1>6. CASE /\ MoreCells(r) /\ Advance(r) /\ UNCHANGED <<job, at, wants, reply>>
           /\ \/ UNCHANGED <<lock, share>> \/ Release(r)
              \/ \E u \in Urls : lock' = [lock EXCEPT ![UrlKey(u)] = r]
  <2>1. at[r] = "upload" /\ pos[r] < Len(job[r].cells) /\ pos'[r] = pos[r] + 1
    BY <1>6 DEF MoreCells, Advance, ControlType
  <2>2. Kind(r) = "upload" => Len(job[r].cells) \in Nat
    BY JobShape DEF ControlType
  <2>3. Control(r)'
    BY <1>6, <2>1, <2>2 DEF Control, Kind, ControlType
  <2>4. lock'[CampaignKey] = r <=> lock[CampaignKey] = r
    <3>1. Release(r) => lock'[CampaignKey] # r /\ lock[CampaignKey] # r
      BY <2>1, ReleaseTyped, KeysApart DEF Locking
    <3>2. QED
      BY <1>6, <3>1, KeysApart DEF ControlType
  <2>5. Locking(r)'
    BY <1>6, <2>1, <2>4 DEF Locking, Open
  <2>6. QED
    BY <2>3, <2>5
<1>7. CASE Delete(r) /\ exists
  <2>1. /\ UNCHANGED <<job, share, pos, aborted, reply>> /\ at[r] = "write" /\ Kind(r) = "delete"
        /\ lock' = [lock EXCEPT ![CampaignKey] = r] /\ at' = [at EXCEPT ![r] = "cascade"]
        /\ wants' = [wants EXCEPT ![r] =
             {StepKey(k) : k \in {j \in Index : steps[j] # "none"}}
               \cup {UrlKey(u) : u \in {v \in Urls : prospect[v].home = "here"}}
               \cup {TemplateKey(t) : t \in {k \in Templates : template[k] # "none"}}]
    BY <1>7 DEF Delete, Goto
  <2>2. at'[r] = "cascade" /\ lock'[CampaignKey] = r /\ CampaignKey \notin wants'[r]
    BY <2>1, KeysApart DEF ControlType
  <2>3. Control(r)' /\ Locking(r)'
    BY <2>1, <2>2 DEF Control, Locking, Kind, Open
  <2>4. QED
    BY <2>3
<1>8. QED
  <2>1. Skips(r) \/ (\E u \in Urls : WritesUrl(r, u)) => Control(r)' /\ Locking(r)'
    BY <1>6 DEF Skips, WritesUrl, locks
  <2>2. Fails(r) => Ends(r) \/ (Control(r)' /\ Locking(r)')
    <3>1. Fails(r) /\ MoreCells(r) /\ at' = at => Advance(r) /\ UNCHANGED <<job, at, wants, reply>> /\ Release(r)
      <4>1. SUFFICES ASSUME Fails(r), MoreCells(r), at' = at PROVE Advance(r) /\ UNCHANGED <<job, at, wants, reply>> /\ Release(r)
        OBVIOUS
      <4>2. ASSUME NEW code, Answer(r, code, {}) PROVE FALSE
        BY <4>1, <4>2 DEF Answer, ControlType, MoreCells
      <4>3. QED
        BY <4>1, <4>2 DEF Fails
    <3>2. QED
      BY <3>1, <1>6, StepEnds
  <2>3. QED
    BY <1>2, <1>3, <1>4, <1>5, <1>7, <2>1, <2>2, StepEnds DEF Transition

\* A step of r keeps the control and the locks of everybody else in order.
LEMMA OthersControl ==
  ASSUME ControlType, ControlType', NEW r \in Requests, OthersAlone(r), job' = job,
         NEW q \in Requests \ {r}, Control(q), Locking(q)
  PROVE  Control(q)' /\ Locking(q)'
<1>1. Control(q)'
  BY DEF OthersAlone, Control, Kind
<1>2. Locking(q)'
  BY KeysApart DEF OthersAlone, Locking
<1>3. QED
  BY <1>1, <1>2

\* Which transitions change which tables.
LEMMA Disturbs ==
  ASSUME ControlType, NEW r \in Requests, Control(r), Transition(r)
  PROVE  /\ job' = job
         /\ exists' = exists \/ CommitDelete(r)
         /\ steps' = steps \/ CommitReplace(r) \/ CommitDelete(r)
         /\ prospect' = prospect \/ CommitUpload(r) \/ CommitDelete(r) \/ Remove(r)
         /\ template' = template \/ CommitDelete(r) \/ UpsertTemplate(r) \/ DeleteTemplate(r)
         /\ row' = row \/ Update(r) \/ SetsStatus(r)
         /\ owed' = owed \/ Update(r) \/ SetsStatus(r) \/ UpsertTemplate(r) \/ DeleteTemplate(r)
         /\ raced' = raced \/ Update(r)
         /\ stored' = stored \/ CommitUpload(r)
         /\ born' = born \/ Create(r) \/ Duplicate(r)
<1>1. Arrive(r) => UNCHANGED <<job, tables, ghost>>
  BY ArriveFlat
<1>2. \/ TakeRow(r) \/ Fails(r) \/ Inserts(r) \/ Panic(r) \/ Skips(r) \/ Delete(r)
      \/ \E u \in Urls : WritesUrl(r, u)
      => UNCHANGED <<job, tables, ghost>>
  BY DEF TakeRow, Fails, Inserts, Panic, Skips, Delete, WritesUrl
<1>3. CASE UNCHANGED <<job, tables, ghost>>
  BY <1>3 DEF tables, ghost
<1>4. CASE CommitReplace(r)
  BY <1>4 DEF CommitReplace, ghost
<1>5. CASE CommitUpload(r)
  BY <1>5 DEF CommitUpload
<1>6. CASE Update(r)
  BY <1>6 DEF Update
<1>7. CASE SetsStatus(r)
  BY <1>7 DEF SetsStatus, StatusSet
<1>8. CASE CommitDelete(r)
  BY <1>8 DEF CommitDelete, ghost
<1>9. CASE Remove(r)
  BY <1>9 DEF Remove, ghost
<1>10. CASE UpsertTemplate(r) \/ DeleteTemplate(r)
  BY <1>10 DEF UpsertTemplate, DeleteTemplate
<1>11. CASE Create(r) \/ Duplicate(r)
  BY <1>11 DEF Create, Duplicate, ghost
<1>12. QED
  BY <1>1, <1>2, <1>3, <1>4, <1>5, <1>6, <1>7, <1>8, <1>9, <1>10, <1>11 DEF Transition

\* Who waits for a row that is deleted no longer wants it; nothing else disturbs a DELETE.
LEMMA WantsOfOthers ==
  ASSUME ControlType, NEW r \in Requests, Control(r), Transition(r), NEW q \in Requests \ {r}
  PROVE  \/ wants'[q] = wants[q]
         \/ CommitReplace(r) /\ wants'[q] = wants[q] \ Held(r)
         \/ CommitDelete(r) /\ wants'[q] = wants[q] \ Held(r)
         \/ Remove(r) /\ wants'[q] = wants[q] \ wants[r]
         \/ DeleteTemplate(r) /\ wants'[q] = wants[q] \ {TemplateKey(job[r].template)}
<1>1. ASSUME NEW code, NEW gone, Answer(r, code, gone) PROVE wants'[q] = wants[q] \ gone
  BY <1>1 DEF Answer
<1>2. ASSUME NEW code, Answer(r, code, {}) PROVE wants'[q] = wants[q]
  BY <1>1, <1>2
<1>3. Arrive(r) => wants'[q] = wants[q]
  BY <1>2, ArriveFlat DEF ControlType
<1>4. TakeRow(r) => wants'[q] = wants[q]
  BY DEF TakeRow, ControlType
<1>5. Fails(r) \/ Inserts(r) \/ Panic(r) \/ Skips(r) \/ (\E u \in Urls : WritesUrl(r, u)) => wants'[q] = wants[q]
  BY <1>2 DEF Fails, Inserts, Panic, Skips, WritesUrl
<1>6. CommitUpload(r) \/ Update(r) \/ SetsStatus(r) \/ UpsertTemplate(r) \/ Create(r) \/ Duplicate(r)
      => wants'[q] = wants[q]
  BY <1>2 DEF CommitUpload, Update, SetsStatus, StatusSet, UpsertTemplate, Create, Duplicate
<1>7. Delete(r) => wants'[q] = wants[q]
  BY <1>2 DEF Delete, ControlType
<1>8. CommitReplace(r) => wants'[q] = wants[q] \ Held(r)
  BY <1>1 DEF CommitReplace
<1>9. CommitDelete(r) => wants'[q] = wants[q] \ Held(r)
  BY <1>1 DEF CommitDelete
<1>10. Remove(r) => wants'[q] = wants[q] \ wants[r]
  BY <1>1 DEF Remove
<1>11. DeleteTemplate(r) => wants'[q] = wants[q] \ {TemplateKey(job[r].template)}
  BY <1>1 DEF DeleteTemplate
<1>12. QED
  BY <1>3, <1>4, <1>5, <1>6, <1>7, <1>8, <1>9, <1>10, <1>11 DEF Transition

-----------------------------------------------------------------------------
(* The campaign's row                                                      *)

\* Who comes to share the campaign's row finds it there and nobody deleting it.
LEMMA NewShare ==
  ASSUME TablesType, ControlType, Sharing, NEW r \in Requests, Control(r), Locking(r), Transition(r),
         r \in share', r \notin share
  PROVE  exists /\ lock[CampaignKey] = "none" /\ lock'[CampaignKey] = "none" /\ share' = share \cup {r}
<1>1. CASE Inserts(r)
  <2>1. lock[CampaignKey] = "none" /\ exists
    BY <1>1, InsertFlat DEF Locking
  <2>2. lock'[CampaignKey] = lock[CampaignKey] /\ share' = share \cup {r}
    BY <1>1, InsertFlat, KeysApart DEF ControlType
  <2>3. QED
    BY <2>1, <2>2
<1>2. ASSUME NEW u \in Urls, WritesUrl(r, u)
      PROVE  exists /\ lock[CampaignKey] = "none" /\ lock'[CampaignKey] = "none" /\ share' = share \cup {r}
  <2>1. at[r] = "upload" /\ exists /\ prospect[u] = Absent /\ share' = share \cup {r}
        /\ lock' = [lock EXCEPT ![UrlKey(u)] = r]
    BY <1>2 DEF WritesUrl, MoreCells
  <2>2. lock[CampaignKey] \in {r, "none"}
    BY <1>2, <2>1, FreeKeys DEF WritesUrl
  <2>3. lock[CampaignKey] = "none"
    BY <2>1, <2>2 DEF Locking
  <2>4. QED
    BY <2>1, <2>3, KeysApart DEF ControlType
<1>3. CASE share' = share \/ share' = share \ {r}
  BY <1>3
<1>4. QED
  <2>1. Arrive(r) => share' = share
    BY ArriveFlat DEF locks
  <2>2. \/ TakeRow(r) \/ Skips(r) \/ Update(r) \/ SetsStatus(r) \/ Delete(r) \/ Remove(r)
        \/ UpsertTemplate(r) \/ DeleteTemplate(r) \/ Create(r) \/ Duplicate(r)
        => share' = share
    BY DEF TakeRow, Skips, Update, SetsStatus, StatusSet, Delete, Remove, UpsertTemplate, DeleteTemplate,
       Create, Duplicate, locks
  <2>3. Fails(r) \/ CommitReplace(r) \/ Panic(r) \/ CommitUpload(r) \/ CommitDelete(r) => share' = share \ {r}
    BY DEF Fails, CommitReplace, Panic, DeferredRollback, CommitUpload, CommitDelete, Release
  <2>4. share' = share \/ share' = share \ {r} \/ Inserts(r) \/ \E u \in Urls : WritesUrl(r, u)
    BY <2>1, <2>2, <2>3 DEF Transition
  <2>5. CASE \E u \in Urls : WritesUrl(r, u)
    BY <1>2, <2>5
  <2>6. QED
    BY <1>1, <1>3, <2>4, <2>5

\* Only a DELETE comes to lock the campaign's row, when nobody shares it.
LEMMA NewOwner ==
  ASSUME TablesType, ControlType, Sharing, NEW r \in Requests, Control(r), Locking(r), Transition(r),
         at'[r] = "cascade", at[r] # "cascade"
  PROVE  Delete(r) /\ exists /\ share = {} /\ share' = {}
<1>1. ~Ends(r) /\ at' # at
  BY DEF Ends
<1>2. Delete(r) /\ exists
  <2>1. ~Arrive(r)
    <3>1. SUFFICES ASSUME Arrive(r) PROVE FALSE
      OBVIOUS
    <3>2. at'[r] \in {"wipe", "upload", "write"}
      BY <1>1, <3>1, StepEnds
    <3>3. QED
      BY <3>2
  <2>2. ~TakeRow(r) /\ ~Inserts(r) /\ ~Skips(r) /\ \A u \in Urls : ~WritesUrl(r, u)
    BY <1>1 DEF TakeRow, Inserts, Skips, WritesUrl
  <2>3. QED
    BY <1>1, <2>1, <2>2, StepEnds DEF Transition
<1>3. share \subseteq {r} /\ r \notin share /\ share' = share
  BY <1>2, FreeKeys DEF Delete, Locking, Open
<1>4. QED
  BY <1>2, <1>3

LEMMA SharingStep ==
  ASSUME TablesType, ControlType, ControlType', Sharing, NEW r \in Requests, Control(r), Locking(r), Locking(r)',
         OthersAlone(r), Transition(r)
  PROVE  Sharing'
<1> USE NamesApart, KeysApart
<1>1. lock'[CampaignKey] # "none" => share' = {}
  <2>1. SUFFICES ASSUME NEW q \in Requests, lock'[CampaignKey] = q PROVE share' = {}
    BY DEF ControlType
  <2>2. CASE q = r
    <3>1. at'[r] = "cascade"
      BY <2>1, <2>2 DEF Locking
    <3>2. CASE at[r] = "cascade"
      <4>1. share = {}
        BY <3>2 DEF Locking, Sharing
      <4>2. r \notin share'
        BY <2>1, <2>2, <4>1, NewShare
      <4>3. QED
        BY <4>1, <4>2 DEF OthersAlone, ControlType
    <3>3. QED
      BY <3>1, <3>2, NewOwner
  <2>3. CASE q # r
    <3>1. lock[CampaignKey] = q
      BY <2>1, <2>3 DEF OthersAlone
    <3>2. share = {}
      BY <3>1 DEF Sharing
    <3>3. r \notin share'
      BY <3>1, <3>2, NewShare
    <3>4. QED
      BY <3>2, <3>3 DEF OthersAlone, ControlType
  <2>4. QED
    BY <2>2, <2>3
<1>2. share' # {} => exists'
  <2>1. SUFFICES ASSUME NEW q \in share' PROVE exists'
    OBVIOUS
  <2>2. exists
    <3>1. q \in share => exists
      BY DEF Sharing
    <3>2. q \notin share => exists
      BY <2>1, NewShare DEF OthersAlone, ControlType
    <3>3. QED
      BY <3>1, <3>2
  <2>3. CASE CommitDelete(r)
    <3>1. share = {}
      BY <2>3 DEF CommitDelete, Locking, Sharing
    <3>2. share' = {}
      BY <2>3, <3>1, ReleaseTyped DEF CommitDelete
    <3>3. QED
      BY <3>2
  <2>4. QED
    BY <2>2, <2>3, Disturbs
<1>3. QED
  BY <1>1, <1>2 DEF Sharing

-----------------------------------------------------------------------------
(* A new sequence is the whole one                                         *)

\* Who takes a step has not been answered.
LEMMA NotDone ==
  ASSUME ControlType, NEW r \in Requests, Control(r), Transition(r)
  PROVE  at[r] # "done" /\ reply[r] = 0
<1>1. at[r] # "done"
  BY ArriveFlat DEF Transition, TakeRow, Fails, Open, Inserts, MoreSteps, Wiped, CommitReplace, Panic, Skips,
     MoreCells, WritesUrl, CommitUpload, Update, SetsStatus, Delete, CommitDelete, Remove, UpsertTemplate,
     DeleteTemplate, Create, Duplicate
<1>2. QED
  BY <1>1 DEF Control

\* A Replace that commits holds every step there is, the first included, and the campaign.
LEMMA CommitReplaceFlat ==
  ASSUME ControlType, TablesType, Sharing, NEW r \in Requests, Control(r), Locking(r), Replacing(r),
         CommitReplace(r)
  PROVE  /\ Kind(r) = "replace" /\ r \in share /\ exists /\ lock[CampaignKey] = "none"
         /\ lock[StepKey(0)] = r /\ pos[r] = Len(job[r].steps) /\ reply'[r] = 200
         /\ steps' = [k \in Index |-> IF k < Len(job[r].steps) THEN r ELSE "none"]
<1>1. at[r] = "wipe" /\ wants[r] = {} /\ Kind(r) = "replace" /\ Len(job[r].steps) > 0
      /\ pos[r] <= Len(job[r].steps) /\ pos[r] \in Nat /\ ~(pos[r] < Len(job[r].steps))
  BY DEF CommitReplace, Wiped, MoreSteps, Control, ControlType
<1>2. Len(job[r].steps) \in Nat /\ Len(job[r].steps) <= MaxSteps
  BY <1>1, JobShape DEF ControlType
<1>3. pos[r] = Len(job[r].steps) /\ pos[r] > 0
  BY <1>1, <1>2
<1>4. r \in share /\ \A k \in Index : k < pos[r] => lock[StepKey(k)] = r
  BY <1>1, <1>3 DEF Replacing
<1>5. exists /\ lock[CampaignKey] = "none"
  BY <1>4 DEF Sharing
<1>6. lock[StepKey(0)] = r
  BY <1>3, <1>4, FirstIndex
<1>7. \A k \in Index : steps[k] # "none" => lock[StepKey(k)] = r
  BY <1>1, <1>6 DEF Replacing
<1>8. steps' = [k \in Index |-> IF k < pos[r] THEN r ELSE "none"]
  <2>1. \A k \in Index : lock[StepKey(k)] # r => steps[k] = "none" /\ ~(k < pos[r])
    BY <1>4, <1>7
  <2>2. steps' = [k \in Index |-> IF lock[StepKey(k)] # r THEN steps[k]
                               ELSE IF k < pos[r] THEN r ELSE "none"]
    BY DEF CommitReplace
  <2>3. QED
    BY <2>1, <2>2
<1>9. reply'[r] = 200
  BY DEF CommitReplace, Answer, ControlType
<1>10. QED
  BY <1>1, <1>3, <1>4, <1>5, <1>6, <1>8, <1>9

\* A DELETE that commits holds every row of the campaign.
LEMMA CommitDeleteFlat ==
  ASSUME ControlType, TablesType, Sharing, NEW r \in Requests, Control(r), Locking(r), Cascading(r),
         CommitDelete(r)
  PROVE  /\ at[r] = "cascade" /\ lock[CampaignKey] = r /\ share = {} /\ exists' = FALSE
         /\ \A k \in Index : steps'[k] = "none"
         /\ \A u \in Urls : /\ prospect'[u].home # "here"
                            /\ prospect'[u] = IF lock[UrlKey(u)] = r THEN Absent ELSE prospect[u]
         /\ \A t \in Templates : template'[t] = "none"
<1>1. at[r] = "cascade" /\ wants[r] = {} /\ exists' = FALSE /\ lock[CampaignKey] = r
  BY DEF CommitDelete, Locking
<1>2. share = {}
  BY <1>1, NamesApart DEF Sharing
<1>3. \A k \in Index : steps'[k] = "none"
  BY <1>1 DEF CommitDelete, Cascading
<1>4. \A u \in Urls : prospect'[u].home # "here" /\ prospect'[u] = IF lock[UrlKey(u)] = r THEN Absent ELSE prospect[u]
  BY <1>1 DEF CommitDelete, Cascading, Absent
<1>5. \A t \in Templates : template'[t] = "none"
  BY <1>1 DEF CommitDelete, Cascading
<1>6. QED
  BY <1>1, <1>2, <1>3, <1>4, <1>5

\* The sequence stays somebody's whole one.
LEMMA SequenceStep ==
  ASSUME TablesType, ControlType, Sharing, SequenceWhole, NEW r \in Requests, Control(r), Locking(r),
         Replacing(r), Cascading(r), OthersAlone(r), Transition(r)
  PROVE  SequenceWhole'
<1>1. CASE CommitReplace(r)
  <2>1. exists'
    BY <1>1, CommitReplaceFlat DEF CommitReplace
  <2>2. r \in Writer /\ Kind(r)' = "replace" /\ reply'[r] = 200 /\ Len(job'[r].steps) = Len(job[r].steps)
    BY <1>1, NamesApart, CommitReplaceFlat DEF CommitReplace, Kind
  <2>3. steps' = [k \in Index |-> IF k < Len(job'[r].steps) THEN r ELSE "none"] /\ r # "old"
    BY <1>1, <2>2, NamesApart, CommitReplaceFlat
  <2>4. QED
    BY <2>1, <2>2, <2>3 DEF SequenceWhole
<1>2. CASE CommitDelete(r)
  BY <1>2, CommitDeleteFlat DEF SequenceWhole
<1>3. CASE ~CommitReplace(r) /\ ~CommitDelete(r)
  <2>1. exists' = exists /\ steps' = steps /\ job' = job
    BY <1>3, Disturbs
  <2>2. CASE exists
    <3> DEFINE StepsOf(o) == IF o = "old" THEN OldSteps ELSE Len(job[o].steps)
               SetBy(o) == o = "old" \/ (Kind(o) = "replace" /\ reply[o] = 200)
    <3>1. PICK o \in Writer : SetBy(o) /\ steps = [k \in Index |-> IF k < StepsOf(o) THEN o ELSE "none"]
      BY <2>2 DEF SequenceWhole
    <3>2. o # "old" => o \in Requests \ {r}
      BY <3>1, NotDone DEF Writer
    <3>3. SetBy(o)'
      BY <2>1, <3>1, <3>2 DEF OthersAlone, Kind
    <3>4. steps' = [k \in Index |-> IF k < StepsOf(o)' THEN o ELSE "none"]
      BY <2>1, <3>1
    <3>5. QED
      BY <2>1, <2>2, <3>3, <3>4 DEF SequenceWhole
  <2>3. CASE ~exists
    BY <2>1, <2>3 DEF SequenceWhole
  <2>4. QED
    BY <2>2, <2>3
<1>4. QED
  BY <1>1, <1>2, <1>3

\* Without a first step there is none.
LEMMA FirstStep ==
  ASSUME TablesType, ControlType, SequenceWhole, exists, steps[0] = "none", \A r \in Requests : Control(r)
  PROVE  \A k \in Index : steps[k] = "none"
<1> DEFINE StepsOf(o) == IF o = "old" THEN OldSteps ELSE Len(job[o].steps)
<1>1. PICK o \in Writer : /\ o = "old" \/ (Kind(o) = "replace" /\ reply[o] = 200)
                          /\ steps = [k \in Index |-> IF k < StepsOf(o) THEN o ELSE "none"]
  BY DEF SequenceWhole
<1>2. StepsOf(o) \in Nat
  <2>1. o # "old" => Len(job[o].steps) \in Nat
    BY <1>1, JobShape DEF Writer, ControlType
  <2>2. OldSteps \in Nat
    BY StoreAssumption
  <2>3. QED
    BY <2>1, <2>2
<1>3. ~(0 < StepsOf(o))
  BY <1>1, FirstIndex, NamesApart
<1> HIDE DEF StepsOf
<1>4. \A k \in Index : ~(k < StepsOf(o))
  BY <1>2, <1>3, FirstIndex
<1>5. QED
  BY <1>1, <1>4

\* A Replace keeps what it has inserted, and has or will take what was there.
LEMMA ReplacingStep ==
  ASSUME TablesType, ControlType, SequenceWhole, NEW r \in Requests, \A q \in Requests : Control(q),
         Locking(r), Replacing(r), Transition(r)
  PROVE  Replacing(r)'
<1> USE NamesApart, KeysApart
<1>1. SUFFICES ASSUME at'[r] = "wipe" PROVE Replacing(r)'
  BY DEF Replacing
<1>2. Control(r)
  OBVIOUS
<1>3. CASE Arrive(r)
  <2>1. ASSUME NEW code, Answer(r, code, {}) PROVE FALSE
    BY <1>1, <2>1 DEF Answer, ControlType
  <2>2. /\ wants' = [wants EXCEPT ![r] = {StepKey(k) : k \in {j \in Index : steps[j] # "none"}}]
        /\ pos'[r] = 0 /\ steps' = steps
    BY <1>1, <1>2, <1>3, <2>1, ArriveFlat DEF Goto, ControlType, tables
  <2>3. \A k \in Index : steps'[k] # "none" => StepKey(k) \in wants'[r]
    BY <2>2 DEF ControlType
  <2>4. QED
    BY <2>2, <2>3, FirstIndex DEF Replacing
<1>4. CASE TakeRow(r)
  <2>1. PICK k \in wants[r] : /\ lock' = [lock EXCEPT ![k] = r] /\ wants' = [wants EXCEPT ![r] = @ \ {k}]
    BY <1>4, ReachesWanted DEF TakeRow
  <2>2. UNCHANGED <<steps, at, pos, share>> /\ k \in Keys
    BY <1>4, <2>1 DEF TakeRow, tables, ControlType
  <2>3. \A j \in Keys : j \in wants'[r] \/ lock'[j] = r <=> j \in wants[r] \/ lock[j] = r
    BY <2>1, <2>2 DEF ControlType
  <2>4. pos[r] = 0 \/ wants[r] = {}
    BY <1>1, <2>2 DEF Replacing, ControlType
  <2>5. pos'[r] = 0
    BY <2>1, <2>2, <2>4
  <2>6. \A j \in Index : steps[j] # "none" /\ (StepKey(0) \in wants[r] \/ lock[StepKey(0)] = r)
                           => StepKey(j) \in wants[r] \/ lock[StepKey(j)] = r
    BY <1>1, <2>2 DEF Replacing
  <2>7. QED
    BY <2>2, <2>3, <2>5, <2>6, FirstIndex DEF Replacing
<1>5. CASE Inserts(r)
  <2>1. /\ at[r] = "wipe" /\ wants[r] = {} /\ wants' = wants /\ steps' = steps /\ exists
        /\ pos[r] \in Index /\ pos[r] \in Nat /\ r \in share' /\ pos'[r] = pos[r] + 1
        /\ lock' = [lock EXCEPT ![StepKey(pos[r])] = r]
        /\ steps[pos[r]] = "none" \/ lock[StepKey(pos[r])] = r
    BY <1>2, <1>5, InsertFlat DEF tables, ControlType
  <2>2. \A k \in Index : k < pos[r] + 1 => lock'[StepKey(k)] = r
    BY <2>1, FirstIndex DEF Replacing, ControlType
  <2>3. \A k \in Index : steps[k] # "none" => lock'[StepKey(k)] = r
    <3>1. \A k \in Index : lock[StepKey(k)] = r => lock'[StepKey(k)] = r
      BY <2>1 DEF ControlType
    <3>2. CASE lock[StepKey(0)] = r
      BY <2>1, <3>1, <3>2 DEF Replacing
    <3>3. CASE lock[StepKey(0)] # r
      <4>1. pos[r] = 0
        BY <2>1, <3>3, FirstIndex DEF Replacing
      <4>2. QED
        BY <2>1, <3>3, <4>1, FirstStep
    <3>4. QED
      BY <3>2, <3>3
  <2>4. QED
    BY <2>1, <2>2, <2>3 DEF Replacing
<1>6. CASE ~Arrive(r) /\ ~TakeRow(r) /\ ~Inserts(r)
  <2>1. ~Ends(r)
    BY <1>1 DEF Ends
  <2>2. ~Skips(r) /\ (\A u \in Urls : ~WritesUrl(r, u)) /\ ~(MoreCells(r) /\ at' = at)
    BY <1>1 DEF Skips, WritesUrl, MoreCells
  <2>3. ~(Delete(r) /\ exists)
    BY <1>1 DEF Delete, Goto, ControlType
  <2>4. QED
    BY <1>6, <2>1, <2>2, <2>3, StepEnds DEF Transition
<1>7. QED
  BY <1>3, <1>4, <1>5, <1>6

\* A step of r disturbs no Replace of somebody else.
LEMMA OthersReplacing ==
  ASSUME TablesType, ControlType, Sharing, NEW r \in Requests, Control(r), Locking(r), Replacing(r),
         Cascading(r), OthersAlone(r), Transition(r), NEW q \in Requests \ {r}, Replacing(q)
  PROVE  Replacing(q)'
<1> USE NamesApart, KeysApart
<1>1. SUFFICES ASSUME at[q] = "wipe" PROVE Replacing(q)'
  BY DEF Replacing, OthersAlone
<1>2. /\ at'[q] = "wipe" /\ pos'[q] = pos[q] /\ wants'[q] \subseteq wants[q] /\ (q \in share' <=> q \in share)
      /\ \A k \in Keys : lock'[k] = q <=> lock[k] = q
  BY <1>1 DEF OthersAlone
<1>3. /\ pos'[q] > 0 => wants'[q] = {} /\ q \in share'
      /\ \A k \in Index : k < pos'[q] => lock'[StepKey(k)] = q
  BY <1>1, <1>2 DEF Replacing
<1>4. CASE steps' = steps /\ \A k \in Index : StepKey(k) \in wants'[q] <=> StepKey(k) \in wants[q]
  BY <1>1, <1>2, <1>3, <1>4, FirstIndex DEF Replacing
<1>5. CASE CommitReplace(r)
  <2>1. lock[StepKey(0)] = r /\ StepKey(0) \in Held(r)
    BY <1>5, CommitReplaceFlat, FirstIndex DEF Held
  <2>2. StepKey(0) \notin wants'[q]
    BY <1>5, <2>1 DEF CommitReplace, Answer
  <2>3. lock'[StepKey(0)] # q
    BY <1>2, <2>1, FirstIndex
  <2>4. QED
    BY <1>3, <2>2, <2>3 DEF Replacing
<1>6. CASE CommitDelete(r)
  <2>1. \A k \in Index : steps'[k] = "none"
    BY <1>6, CommitDeleteFlat
  <2>2. QED
    BY <1>3, <2>1 DEF Replacing
<1>7. CASE ~CommitReplace(r) /\ ~CommitDelete(r)
  <2>1. steps' = steps
    BY <1>7, Disturbs
  <2>2. Remove(r) => \A k \in Index : StepKey(k) \notin wants[r]
    BY DEF Remove, Control
  <2>3. DeleteTemplate(r) => \A k \in Index : StepKey(k) # TemplateKey(job[r].template)
    BY DEF DeleteTemplate, Control
  <2>4. \A k \in Index : StepKey(k) \in wants'[q] <=> StepKey(k) \in wants[q]
    BY <1>7, <2>2, <2>3, WantsOfOthers
  <2>5. QED
    BY <1>4, <2>1, <2>4
<1>8. QED
  BY <1>5, <1>6, <1>7

-----------------------------------------------------------------------------
(* No row outlives its campaign                                            *)

\* A DELETE that finds the campaign wants every row of it, and takes what it wants.
LEMMA CascadingStep ==
  ASSUME TablesType, ControlType, Sharing, NEW r \in Requests, Control(r), Locking(r), Cascading(r), Transition(r)
  PROVE  Cascading(r)'
<1> USE NamesApart, KeysApart
<1>1. SUFFICES ASSUME at'[r] = "cascade" PROVE Cascading(r)'
  BY DEF Cascading
<1>2. CASE at[r] # "cascade"
  <2>1. Delete(r) /\ exists
    BY <1>1, <1>2, NewOwner
  <2>2. /\ UNCHANGED tables
        /\ wants' = [wants EXCEPT ![r] =
             {StepKey(k) : k \in {j \in Index : steps[j] # "none"}}
               \cup {UrlKey(u) : u \in {v \in Urls : prospect[v].home = "here"}}
               \cup {TemplateKey(t) : t \in {k \in Templates : template[k] # "none"}}]
    BY <2>1 DEF Delete
  <2>3. wants'[r] = {StepKey(k) : k \in {j \in Index : steps[j] # "none"}}
               \cup {UrlKey(u) : u \in {v \in Urls : prospect[v].home = "here"}}
               \cup {TemplateKey(t) : t \in {k \in Templates : template[k] # "none"}}
    BY <2>2 DEF ControlType
  <2>4. QED
    BY <2>1, <2>2, <2>3 DEF Cascading, tables
<1>3. CASE at[r] = "cascade"
  <2>1. ~Ends(r)
    BY <1>1 DEF Ends
  <2>2. TakeRow(r)
    <3>1. ~Arrive(r)
      BY <1>3, ArriveFlat
    <3>2. ~Inserts(r) /\ ~Skips(r) /\ (\A u \in Urls : ~WritesUrl(r, u)) /\ ~MoreCells(r) /\ ~Delete(r)
      BY <1>3 DEF Inserts, MoreSteps, Wiped, Skips, WritesUrl, MoreCells, Delete
    <3>3. QED
      BY <2>1, <3>1, <3>2, StepEnds DEF Transition
  <2>3. PICK k \in wants[r] : /\ lock' = [lock EXCEPT ![k] = r] /\ wants' = [wants EXCEPT ![r] = @ \ {k}]
    BY <2>2, ReachesWanted DEF TakeRow
  <2>4. UNCHANGED tables /\ k \in Keys
    BY <2>2, <2>3 DEF TakeRow, ControlType
  <2>5. \A j \in Keys : j \in wants[r] \/ lock[j] = r => j \in wants'[r] \/ lock'[j] = r
    BY <2>3, <2>4 DEF ControlType
  <2>6. QED
    BY <1>3, <2>4, <2>5 DEF Cascading, tables
<1>4. QED
  BY <1>2, <1>3

\* What an upload commits.
LEMMA CommitUploadFlat ==
  ASSUME ControlType, TablesType, NEW r \in Requests, Control(r), Uploading(r), CommitUpload(r)
  PROVE  /\ \A u \in Urls : lock[UrlKey(u)] # r => prospect'[u] = prospect[u]
         /\ \A u \in Urls : lock[UrlKey(u)] = r =>
              /\ prospect[u] = Absent => r \in share
              /\ prospect[u] # Absent => prospect'[u].home = prospect[u].home
              /\ prospect'[u] # Absent
              /\ prospect'[u].by = r /\ r \notin aborted
         /\ r \notin aborted => reply'[r] = 200
         /\ r \in aborted => reply'[r] = 500
         /\ at[r] = "upload" /\ Kind(r) = "upload" /\ pos[r] = Len(job[r].cells)
<1>1. at[r] = "upload" /\ Kind(r) = "upload" /\ pos[r] \in Nat /\ pos[r] <= Len(job[r].cells) /\ ~(pos[r] < Len(job[r].cells))
  BY DEF CommitUpload, MoreCells, Control, ControlType
<1>2. pos[r] = Len(job[r].cells)
  <2>1. Len(job[r].cells) \in Nat
    BY <1>1, JobShape DEF ControlType
  <2>2. QED
    BY <1>1, <2>1
<1>3. \A u \in Urls : lock[UrlKey(u)] # r => prospect'[u] = prospect[u]
  BY DEF CommitUpload
<1>4. ASSUME NEW u \in Urls, lock[UrlKey(u)] = r
      PROVE  /\ prospect[u] = Absent => r \in share
             /\ prospect[u] # Absent => prospect'[u].home = prospect[u].home
             /\ prospect'[u] # Absent
             /\ prospect'[u].by = r /\ r \notin aborted
  <2>1. prospect'[u] = Upserted(r, u)
    BY <1>4 DEF CommitUpload
  <2>2. r \notin aborted /\ (prospect[u] = Absent => r \in share)
    BY <1>1, <1>4, KeysApart DEF Uploading
  <2>3. QED
    BY <2>1, <2>2, NamesApart DEF Upserted, Absent
<1>5. (r \notin aborted => reply'[r] = 200) /\ (r \in aborted => reply'[r] = 500)
  BY DEF CommitUpload, Answer, ControlType
<1>6. QED
  BY <1>1, <1>2, <1>3, <1>4, <1>5

\* Nobody else adds a row while a DELETE cascades, and who deletes one deletes it for all.
LEMMA OthersCascading ==
  ASSUME TablesType, ControlType, Sharing, NEW r \in Requests, Control(r), Locking(r), Replacing(r),
         Cascading(r), Uploading(r), OthersAlone(r), Transition(r),
         NEW q \in Requests \ {r}, Locking(q), Cascading(q)
  PROVE  Cascading(q)'
<1> USE NamesApart, KeysApart
<1>1. SUFFICES ASSUME at[q] = "cascade" PROVE Cascading(q)'
  BY DEF Cascading, OthersAlone
<1>2. lock[CampaignKey] = q /\ share = {} /\ exists
  BY <1>1 DEF Locking, Sharing, Cascading
<1>3. ~CommitReplace(r) /\ ~CommitDelete(r)
  BY <1>2, CommitReplaceFlat, CommitDeleteFlat
<1>4. exists' /\ steps' = steps
  BY <1>2, <1>3, Disturbs
<1>5. \A k \in Keys : lock'[k] = q <=> lock[k] = q
  BY DEF OthersAlone
<1>6. \A k \in Index : StepKey(k) \in wants[q] => StepKey(k) \in wants'[q]
  <2>1. Remove(r) => \A k \in Index : StepKey(k) \notin wants[r]
    BY DEF Remove, Control
  <2>2. DeleteTemplate(r) => \A k \in Index : StepKey(k) # TemplateKey(job[r].template)
    BY DEF DeleteTemplate, Control
  <2>3. QED
    BY <1>3, <2>1, <2>2, WantsOfOthers
<1>7. \A u \in Urls : prospect'[u].home = "here" =>
        prospect[u].home = "here" /\ (UrlKey(u) \in wants[q] => UrlKey(u) \in wants'[q])
  <2>1. SUFFICES ASSUME NEW u \in Urls, prospect'[u].home = "here"
                 PROVE  prospect[u].home = "here" /\ (UrlKey(u) \in wants[q] => UrlKey(u) \in wants'[q])
    OBVIOUS
  <2>2. CASE CommitUpload(r)
    <3>1. prospect[u].home = "here"
      BY <1>2, <2>1, <2>2, CommitUploadFlat
    <3>2. wants'[q] = wants[q]
      BY <2>2 DEF CommitUpload, Answer
    <3>3. QED
      BY <3>1, <3>2
  <2>3. CASE Remove(r)
    <3>1. prospect[u].home = "here" /\ UrlKey(u) \notin wants[r]
      BY <2>1, <2>3 DEF Remove, Absent
    <3>2. wants'[q] = wants[q] \ wants[r]
      BY <2>3 DEF Remove, Answer
    <3>3. QED
      BY <3>1, <3>2
  <2>4. CASE ~CommitUpload(r) /\ ~Remove(r)
    <3>1. prospect' = prospect
      BY <1>3, <2>4, Disturbs
    <3>2. DeleteTemplate(r) => UrlKey(u) # TemplateKey(job[r].template)
      BY DEF DeleteTemplate, Control
    <3>3. QED
      BY <1>3, <2>1, <2>4, <3>1, <3>2, WantsOfOthers
  <2>5. QED
    BY <2>2, <2>3, <2>4
<1>8. \A t \in Templates : template'[t] # "none" =>
        template[t] # "none" /\ (TemplateKey(t) \in wants[q] => TemplateKey(t) \in wants'[q])
  <2>1. SUFFICES ASSUME NEW t \in Templates, template'[t] # "none"
                 PROVE  template[t] # "none" /\ (TemplateKey(t) \in wants[q] => TemplateKey(t) \in wants'[q])
    OBVIOUS
  <2>2. CASE UpsertTemplate(r)
    <3>1. job[r].template \in Templates /\ Free(r) /\ at[r] = "write" /\ Kind(r) = "write_template"
      BY <2>2 DEF UpsertTemplate, Control
    <3>2. template[job[r].template] # "none"
      <4>1. r \notin share /\ lock[CampaignKey] # r /\ lock[CampaignKey] # "none"
        BY <1>2
      <4>2. QED
        BY <3>1, <4>1, FreeKeys
    <3>3. template[t] # "none"
      BY <2>1, <2>2, <3>1, <3>2 DEF UpsertTemplate, TextStored, TablesType
    <3>4. wants'[q] = wants[q]
      BY <2>2 DEF UpsertTemplate, Answer
    <3>5. QED
      BY <3>3, <3>4
  <2>3. CASE DeleteTemplate(r)
    <3>1. job[r].template \in Templates
      BY <2>3 DEF DeleteTemplate, Control
    <3>2. t # job[r].template /\ template[t] # "none"
      BY <2>1, <2>3, <3>1 DEF DeleteTemplate, TextDropped, TablesType
    <3>3. wants'[q] = wants[q] \ {TemplateKey(job[r].template)}
      BY <2>3 DEF DeleteTemplate, Answer
    <3>4. QED
      BY <3>1, <3>2, <3>3
  <2>4. CASE ~UpsertTemplate(r) /\ ~DeleteTemplate(r)
    <3>1. template' = template
      BY <1>3, <2>4, Disturbs
    <3>2. Remove(r) => TemplateKey(t) \notin wants[r]
      BY DEF Remove, Control
    <3>3. QED
      BY <1>3, <2>1, <2>4, <3>1, <3>2, WantsOfOthers
  <2>5. QED
    BY <2>2, <2>3, <2>4
<1>9. QED
  BY <1>1, <1>4, <1>5, <1>6, <1>7, <1>8 DEF Cascading

\* A deleted campaign gets no row.
LEMMA OrphansStep ==
  ASSUME TablesType, ControlType, Sharing, NoOrphans, NEW r \in Requests, Control(r), Locking(r), Replacing(r),
         Cascading(r), Uploading(r), Transition(r)
  PROVE  NoOrphans'
<1> USE NamesApart
<1>1. CASE CommitDelete(r)
  BY <1>1, CommitDeleteFlat DEF NoOrphans
<1>2. CASE exists /\ ~CommitDelete(r)
  BY <1>2, Disturbs DEF NoOrphans
<1>3. CASE ~exists /\ ~CommitDelete(r)
  <2>1. /\ \A u \in Urls : prospect[u].home # "here"
        /\ \A t \in Templates : template[t] = "none"
        /\ \A k \in Index : steps[k] = "none"
    BY <1>3 DEF NoOrphans
  <2>2. share = {}
    BY <1>3 DEF Sharing
  <2>3. steps' = steps
    BY <1>3, CommitReplaceFlat, Disturbs
  <2>4. \A u \in Urls : prospect'[u].home # "here"
    <3>1. CASE CommitUpload(r)
      BY <2>1, <2>2, <3>1, CommitUploadFlat
    <3>2. CASE Remove(r)
      BY <2>1, <3>2 DEF Remove, Absent
    <3>3. QED
      BY <1>3, <2>1, <3>1, <3>2, Disturbs
  <2>5. \A t \in Templates : template'[t] = "none"
    <3>1. CASE UpsertTemplate(r)
      <4>1. job[r].template \in Templates
        BY <3>1 DEF UpsertTemplate, Control
      <4>2. template' = template
        BY <1>3, <2>1, <3>1, <4>1 DEF UpsertTemplate
      <4>3. QED
        BY <2>1, <4>2
    <3>2. CASE DeleteTemplate(r)
      BY <2>1, <3>2 DEF DeleteTemplate, TextDropped, TablesType
    <3>3. QED
      BY <1>3, <2>1, <3>1, <3>2, Disturbs
  <2>6. QED
    BY <2>1, <2>3, <2>4, <2>5 DEF NoOrphans
<1>4. QED
  BY <1>1, <1>2, <1>3

-----------------------------------------------------------------------------
(* An upload is all or nothing                                             *)

\* An upload holds what it has passed, and lets go of everything when a row is refused.
LEMMA UploadingStep ==
  ASSUME TablesType, ControlType, NEW r \in Requests, Control(r), Locking(r), Uploading(r), Transition(r)
  PROVE  Uploading(r)'
<1> USE NamesApart, KeysApart
<1>1. SUFFICES ASSUME at'[r] = "upload" PROVE Uploading(r)'
  BY DEF Uploading
<1>2. ~Ends(r)
  BY <1>1 DEF Ends
<1>3. job' = job
  BY Disturbs
<1>4. CASE Arrive(r)
  <2>1. pos'[r] = 0 /\ r \notin aborted' /\ lock' = lock /\ at[r] = "idle"
    BY <1>4, ArriveFlat DEF locks
  <2>2. \A k \in Keys : lock'[k] # r
    BY <2>1 DEF Locking, Open
  <2>3. QED
    BY <2>1, <2>2 DEF Uploading
<1>5. CASE Fails(r)
  <2>1. MoreCells(r) /\ at' = at
    BY <1>2, <1>5, StepEnds
  <2>2. aborted' = aborted \cup {r}
    <3>1. ASSUME NEW code, Answer(r, code, {}) PROVE FALSE
      BY <1>1, <3>1 DEF Answer, ControlType
    <3>2. QED
      BY <1>5, <3>1 DEF Fails
  <2>3. \A k \in Keys : lock'[k] # r
    BY <1>5, ReleaseTyped DEF Fails
  <2>4. QED
    BY <2>2, <2>3 DEF Uploading
<1>6. CASE Skips(r)
  <2>1. /\ UNCHANGED <<lock, share, at, aborted, prospect>> /\ pos'[r] = pos[r] + 1 /\ pos[r] \in Nat
        /\ job[r].cells[pos[r] + 1] = "empty" \/ r \in aborted
    BY <1>6 DEF Skips, locks, tables, Advance, NextCell, ControlType
  <2>2. \A i \in 1..pos'[r] : i \in 1..pos[r] \/ i = pos[r] + 1
    BY <2>1
  <2>3. QED
    BY <1>1, <1>3, <2>1, <2>2 DEF Uploading
<1>7. ASSUME NEW u \in Urls, WritesUrl(r, u) PROVE Uploading(r)'
  <2>1. /\ UNCHANGED <<at, aborted, prospect>> /\ pos'[r] = pos[r] + 1 /\ pos[r] \in Nat
        /\ r \notin aborted /\ job[r].cells[pos[r] + 1] = u /\ lock' = [lock EXCEPT ![UrlKey(u)] = r]
    BY <1>7 DEF WritesUrl, tables, Advance, NextCell, ControlType
  <2>2. \A i \in 1..pos'[r] : i \in 1..pos[r] \/ i = pos[r] + 1
    BY <2>1
  <2>3. \A v \in Urls : lock[UrlKey(v)] = r \/ v = u <=> lock'[UrlKey(v)] = r
    BY <2>1 DEF ControlType
  <2>4. \A v \in Urls : lock'[UrlKey(v)] = r /\ prospect'[v] = Absent => r \in share'
    <3>1. r \in share => r \in share'
      BY <1>7 DEF WritesUrl
    <3>2. prospect[u] = Absent => r \in share' \/ lock[UrlKey(u)] = r
      BY <1>7 DEF WritesUrl
    <3>3. at[r] = "upload"
      BY <1>1, <2>1
    <3>4. QED
      BY <2>1, <2>3, <3>1, <3>2, <3>3 DEF Uploading
  <2>5. QED
    BY <1>1, <1>3, <2>1, <2>2, <2>3, <2>4 DEF Uploading
<1>8. ~TakeRow(r) /\ ~Inserts(r) /\ ~(Delete(r) /\ exists)
  BY <1>1 DEF TakeRow, Inserts, MoreSteps, Wiped, Delete, Goto, ControlType
<1>9. QED
  BY <1>2, <1>4, <1>5, <1>6, <1>7, <1>8, StepEnds DEF Transition

\* A row somebody deletes is held by no upload.
LEMMA OthersUploading ==
  ASSUME TablesType, ControlType, Sharing, NEW r \in Requests, Control(r), Locking(r), Cascading(r), Uploading(r),
         OthersAlone(r), Transition(r), NEW q \in Requests \ {r}, Uploading(q)
  PROVE  Uploading(q)'
<1> USE NamesApart, KeysApart
<1>1. SUFFICES ASSUME at[q] = "upload" PROVE Uploading(q)'
  BY DEF Uploading, OthersAlone
<1>2. ASSUME NEW u \in Urls, lock[UrlKey(u)] = q, prospect'[u] = Absent PROVE prospect[u] = Absent
  <2>1. CASE CommitUpload(r)
    BY <1>2, <2>1, CommitUploadFlat
  <2>2. CASE CommitDelete(r)
    BY <1>2, <2>2, CommitDeleteFlat
  <2>3. CASE Remove(r)
    <3>1. UrlKey(u) \notin wants[r]
      BY <1>2, <2>3, FreeKeys DEF Remove
    <3>2. QED
      BY <1>2, <2>3, <3>1 DEF Remove
  <2>4. QED
    BY <1>2, <2>1, <2>2, <2>3, Disturbs
<1>3. /\ at'[q] = "upload" /\ pos'[q] = pos[q] /\ (q \in aborted' <=> q \in aborted) /\ (q \in share' <=> q \in share)
      /\ \A k \in Keys : lock'[k] = q <=> lock[k] = q
  BY <1>1 DEF OthersAlone
<1>4. job' = job
  BY Disturbs
<1>5. QED
  BY <1>1, <1>2, <1>3, <1>4 DEF Uploading

\* Whose rows are in the table has been answered 200, and has stored its file.
LEMMA StoredStep ==
  ASSUME TablesType, ControlType, Sharing, NEW r \in Requests, Control(r), Locking(r), Cascading(r), Uploading(r),
         Stored(r), Transition(r)
  PROVE  Stored(r)'
<1> USE NamesApart, KeysApart
<1>1. reply[r] = 0 /\ job' = job
  BY NotDone, Disturbs
<1>2. \A u \in Urls : prospect[u].by # r
  BY <1>1 DEF Stored
<1>3. CASE CommitUpload(r)
  <2>1. reply'[r] # 200 => \A u \in Urls : prospect'[u].by # r
    BY <1>2, <1>3, CommitUploadFlat
  <2>2. reply'[r] = 200 => \A i \in 1..Len(job[r].cells) :
          job[r].cells[i] = "empty" \/ (job[r].cells[i] \in Urls /\ r \in stored'[job[r].cells[i]])
    <3>1. r \in aborted => reply'[r] # 200
      BY <1>3, CommitUploadFlat
    <3>2. r \notin aborted => \A i \in 1..Len(job[r].cells) :
            job[r].cells[i] = "empty" \/ (job[r].cells[i] \in Urls /\ lock[UrlKey(job[r].cells[i])] = r)
      BY <1>3, CommitUploadFlat DEF Uploading
    <3>3. \A u \in Urls : lock[UrlKey(u)] = r => r \in stored'[u]
      BY <1>3 DEF CommitUpload, TablesType
    <3>4. QED
      BY <3>1, <3>2, <3>3
  <2>3. QED
    BY <1>1, <2>1, <2>2 DEF Stored
<1>4. CASE ~CommitUpload(r)
  <2>1. \A u \in Urls : prospect'[u].by # r
    <3>1. CommitDelete(r) => \A u \in Urls : prospect'[u] \in {prospect[u], Absent}
      BY DEF CommitDelete
    <3>2. Remove(r) => \A u \in Urls : prospect'[u] \in {prospect[u], Absent}
      BY DEF Remove
    <3>3. \A u \in Urls : prospect'[u] \in {prospect[u], Absent}
      BY <1>4, <3>1, <3>2, Disturbs
    <3>4. QED
      BY <1>2, <3>3 DEF Absent
  <2>2. Kind(r) = "upload" => reply'[r] # 200
    <3>1. SUFFICES ASSUME Kind(r) = "upload" PROVE reply'[r] # 200
      OBVIOUS
    <3>2. ASSUME NEW code \in {400, 404, 500}, NEW gone, Answer(r, code, gone) PROVE reply'[r] # 200
      BY <3>2 DEF Answer, ControlType
    <3>3. CASE Arrive(r)
      BY <1>1, <3>2, <3>3, ArriveFlat
    <3>4. CASE Fails(r) \/ Panic(r)
      BY <1>1, <3>2, <3>4 DEF Fails, Panic
    <3>5. CASE reply' = reply
      BY <1>1, <3>5
    <3>6. at[r] \notin {"wipe", "write", "cascade"}
      BY <3>1 DEF Control
    <3>7. QED
      BY <1>4, <3>3, <3>4, <3>5, <3>6 DEF Transition, TakeRow, Inserts, CommitReplace, Wiped, Skips,
         WritesUrl, Update, SetsStatus, Delete, CommitDelete, Remove, UpsertTemplate, DeleteTemplate, Create,
         Duplicate
  <2>3. QED
    BY <1>1, <2>1, <2>2 DEF Stored, Kind
<1>5. QED
  BY <1>3, <1>4

\* What others have stored was stored, and their rows stay theirs or go.
LEMMA OthersStored ==
  ASSUME TablesType, ControlType, Sharing, NEW r \in Requests, Control(r), Locking(r), Cascading(r), Uploading(r),
         OthersAlone(r), Transition(r), NEW q \in Requests \ {r}, Stored(q)
  PROVE  Stored(q)'
<1> USE NamesApart
<1>1. reply'[q] = reply[q] /\ job' = job
  BY Disturbs DEF OthersAlone
<1>2. \A u \in Urls : prospect'[u].by = q => prospect[u].by = q
  <2>1. CommitUpload(r) => \A u \in Urls : prospect'[u].by = q => prospect[u].by = q
    BY CommitUploadFlat
  <2>2. CommitDelete(r) => \A u \in Urls : prospect'[u] \in {prospect[u], Absent}
    BY DEF CommitDelete
  <2>3. Remove(r) => \A u \in Urls : prospect'[u] \in {prospect[u], Absent}
    BY DEF Remove
  <2>4. QED
    BY <2>1, <2>2, <2>3, Disturbs DEF Absent
<1>3. \A u \in Urls : q \in stored[u] => q \in stored'[u]
  <2>1. CommitUpload(r) => \A u \in Urls : q \in stored[u] => q \in stored'[u]
    BY DEF CommitUpload, TablesType
  <2>2. QED
    BY <2>1, Disturbs
<1>4. QED
  BY <1>1, <1>2, <1>3 DEF Stored, Kind

-----------------------------------------------------------------------------
(* What was acknowledged stands                                            *)

\* What a PATCH leaves, and who hears of it.
LEMMA UpdateFlat ==
  ASSUME ControlType, TablesType, NEW r \in Requests, Update(r), exists
  PROVE  /\ at[r] = "write" /\ Kind(r) = "patch" /\ job[r].column \in Columns
         /\ row'[job[r].column] = r /\ owed'[job[r].column] = r
         /\ \A c \in Columns \ {job[r].column} : /\ row'[c] = snap[r][c] /\ owed'[c] = owed[c]
                                                 /\ c \in raced' <=> c \in raced
         /\ Overlap(r) => job[r].column \in raced'
         /\ row'["status"] = row["status"] /\ owed'["status"] = owed["status"]
         /\ \A t \in Templates : owed'[t] = owed[t]
         /\ UNCHANGED <<exists, template, snap>>
<1> USE NamesApart
<1> DEFINE col == job[r].column
<1>1. at[r] = "write" /\ Kind(r) = "patch" /\ col \in Columns
  BY JobShape DEF Update, ControlType
<1>2. row' = [snap[r] EXCEPT ![col] = r, !["status"] = row["status"]]
  BY DEF Update, Patched
<1>3. owed' = [owed EXCEPT ![col] = r] /\ UNCHANGED <<exists, template, snap>>
      /\ raced' = IF Overlap(r) THEN raced \cup {col} ELSE raced \ {col}
  BY DEF Update
<1> HIDE DEF col
<1>4. /\ row'[col] = r /\ row'["status"] = row["status"]
      /\ \A c \in Columns \ {col} : row'[c] = snap[r][c]
  BY <1>1, <1>2 DEF TablesType, Cols
<1>5. /\ owed'[col] = r /\ owed'["status"] = owed["status"]
      /\ \A c \in Columns \ {col} : owed'[c] = owed[c]
      /\ \A t \in Templates : owed'[t] = owed[t]
  BY <1>1, <1>3 DEF TablesType, Cols
<1>6. /\ Overlap(r) => col \in raced'
      /\ \A c \in Columns \ {col} : c \in raced' <=> c \in raced
  BY <1>3
<1>7. QED
  BY <1>1, <1>3, <1>4, <1>5, <1>6 DEF col

\* The last acknowledged change stands.
LEMMA AcknowledgedStep ==
  ASSUME TablesType, ControlType, NoOrphans, AcknowledgedStands, NEW r \in Requests, Control(r), Reading(r),
         Transition(r)
  PROVE  AcknowledgedStands'
<1> USE NamesApart
<1>1. SUFFICES ASSUME exists' PROVE AcknowledgedStands'
  BY DEF AcknowledgedStands
<1>2. exists /\ ~CommitDelete(r)
  BY <1>1, Disturbs DEF CommitDelete, NoOrphans
<1>3. /\ \A c \in Cols : c \in raced \/ row[c] = owed[c]
      /\ \A t \in Templates : template[t] = owed[t]
  BY <1>2 DEF AcknowledgedStands, Cols
<1>4. CASE Update(r)
  <2>1. \A c \in Columns : c \in raced' \/ row'[c] = owed'[c]
    <3>1. SUFFICES ASSUME NEW c \in Columns, c \notin raced' PROVE row'[c] = owed'[c]
      OBVIOUS
    <3>2. CASE c = job[r].column
      BY <1>2, <1>4, <3>2, UpdateFlat
    <3>3. CASE c # job[r].column
      <4>1. c \notin raced /\ row'[c] = snap[r][c] /\ owed'[c] = owed[c]
        BY <1>2, <1>4, <3>1, <3>3, UpdateFlat
      <4>2. QED
        BY <1>2, <1>4, <4>1, UpdateFlat DEF Reading
    <3>4. QED
      BY <3>2, <3>3
  <2>2. row'["status"] = owed'["status"]
    <3>1. row["status"] = owed["status"]
      BY <1>3 DEF TablesType, Cols
    <3>2. QED
      BY <1>2, <1>4, <3>1, UpdateFlat
  <2>3. \A t \in Templates : template'[t] = owed'[t]
    BY <1>2, <1>3, <1>4, UpdateFlat
  <2>4. QED
    BY <2>1, <2>2, <2>3 DEF AcknowledgedStands
<1>5. CASE SetsStatus(r)
  <2>1. row' = [row EXCEPT !["status"] = r] /\ owed' = [owed EXCEPT !["status"] = r]
        /\ UNCHANGED <<template, raced>>
    BY <1>2, <1>5 DEF SetsStatus, StatusSet, WithStatus
  <2>2. \A c \in Cols : row'[c] = (IF c = "status" THEN r ELSE row[c]) /\ owed'[c] = (IF c = "status" THEN r ELSE owed[c])
    BY <2>1 DEF TablesType
  <2>3. \A t \in Templates : owed'[t] = owed[t]
    BY <2>1 DEF TablesType, Cols
  <2>4. QED
    BY <1>3, <2>1, <2>2, <2>3 DEF AcknowledgedStands, Cols
<1>6. ASSUME NEW t \in Templates, NEW v, template' = [template EXCEPT ![t] = v], owed' = [owed EXCEPT ![t] = v],
             UNCHANGED <<row, raced>>
      PROVE  AcknowledgedStands'
  <2>1. \A c \in Cols : owed'[c] = owed[c]
    BY <1>6 DEF TablesType
  <2>2. \A s \in Templates : template'[s] = owed'[s]
    BY <1>3, <1>6 DEF TablesType
  <2>3. QED
    BY <1>3, <1>6, <2>1, <2>2 DEF AcknowledgedStands, Cols
<1>7. CASE UpsertTemplate(r)
  BY <1>2, <1>6, <1>7 DEF UpsertTemplate, TextStored, Control
<1>8. CASE DeleteTemplate(r)
  BY <1>6, <1>8 DEF DeleteTemplate, TextDropped, Control
<1>9. CASE UNCHANGED <<row, template, owed, raced>>
  BY <1>3, <1>9 DEF AcknowledgedStands, Cols
<1>10. QED
  BY <1>2, <1>4, <1>5, <1>7, <1>8, <1>9, Disturbs

\* A PATCH reads what is acknowledged.
LEMMA ReadingStep ==
  ASSUME TablesType, ControlType, AcknowledgedStands, NEW r \in Requests, Control(r), Locking(r), Transition(r)
  PROVE  Reading(r)'
<1>1. SUFFICES ASSUME exists', at'[r] = "write", Kind(r) = "patch" PROVE \A c \in Columns : c \in raced' \/ snap'[r][c] = owed'[c]
  BY Disturbs DEF Reading, Kind
<1>2. ~Ends(r)
  BY <1>1 DEF Ends
<1>3. Arrive(r)
  <2>1. ~TakeRow(r) /\ ~Inserts(r) /\ ~Skips(r) /\ \A u \in Urls : ~WritesUrl(r, u)
    BY <1>1 DEF TakeRow, Inserts, MoreSteps, Wiped, Skips, WritesUrl, MoreCells
  <2>2. ~(MoreCells(r) /\ at' = at)
    BY <1>1 DEF MoreCells
  <2>3. ~(Delete(r) /\ exists)
    BY <1>1 DEF Delete, Goto, ControlType
  <2>4. QED
    BY <1>2, <2>1, <2>2, <2>3, StepEnds DEF Transition
<1>4. Found(r) /\ UNCHANGED <<row, owed, raced>>
  <2>1. ASSUME NEW code, Answer(r, code, {}) PROVE FALSE
    BY <1>1, <2>1 DEF Answer, ControlType
  <2>2. QED
    BY <1>1, <1>3, <2>1, ArriveFlat DEF tables, ghost
<1>5. snap'[r] = row /\ exists
  BY <1>4 DEF Found, TablesType
<1>6. QED
  BY <1>4, <1>5 DEF AcknowledgedStands

\* What changes after a PATCH has read it is marked.
LEMMA OthersReading ==
  ASSUME TablesType, ControlType, NEW r \in Requests, Control(r), OthersAlone(r), Transition(r),
         NEW q \in Requests \ {r}, Reading(q)
  PROVE  Reading(q)'
<1> USE NamesApart
<1>1. SUFFICES ASSUME exists', at[q] = "write", Kind(q) = "patch" PROVE \A c \in Columns : c \in raced' \/ snap[q][c] = owed'[c]
  BY Disturbs DEF Reading, Kind, OthersAlone
<1>2. exists
  BY <1>1, Disturbs DEF CommitDelete
<1>3. SUFFICES ASSUME NEW c \in Columns, c \in raced \/ snap[q][c] = owed[c] PROVE c \in raced' \/ snap[q][c] = owed'[c]
  BY <1>1, <1>2 DEF Reading
<1>4. CASE Update(r)
  <2>1. Overlap(r)
    BY <1>1 DEF Overlap
  <2>2. QED
    BY <1>2, <1>3, <1>4, <2>1, UpdateFlat
<1>5. CASE SetsStatus(r)
  BY <1>2, <1>3, <1>5 DEF SetsStatus, StatusSet, TablesType, Cols
<1>6. CASE UpsertTemplate(r)
  BY <1>2, <1>3, <1>6 DEF UpsertTemplate, Control, TablesType, Cols
<1>7. CASE DeleteTemplate(r)
  BY <1>3, <1>7 DEF DeleteTemplate, Control, TablesType, Cols
<1>8. QED
  BY <1>3, <1>4, <1>5, <1>6, <1>7, Disturbs

\* A campaign is created as a draft, by one that is answered.
LEMMA CopiedStep ==
  ASSUME TablesType, ControlType, NEW r \in Requests, Control(r), Copied(r), Transition(r)
  PROVE  Copied(r)'
<1> USE NamesApart
<1>1. born[r] = None
  BY NotDone DEF Copied
<1>2. CASE Create(r)
  <2>1. born'[r] = CreatedRow(r) /\ reply'[r] = 201
    BY <1>2 DEF Create, Answer, TablesType, ControlType
  <2>2. CreatedRow(r)["status"] = "draft" /\ \A c \in Columns : CreatedRow(r)[c] \in Writer \cup {"default"}
    <3>1. CreatedRow(r)["status"] = "draft"
      <4>1. job[r].given \subseteq Columns
        BY <1>2, JobShape DEF Create, ControlType
      <4>2. QED
        BY <4>1 DEF CreatedRow
    <3>2. ASSUME NEW c \in Columns PROVE CreatedRow(r)[c] \in {r, "default"}
      BY <3>2 DEF CreatedRow
    <3>3. QED
      BY <3>1, <3>2
  <2>3. QED
    BY <2>1, <2>2 DEF Copied
<1>3. CASE Duplicate(r)
  <2>1. born' = born \/ (born'[r] = CopiedRow /\ reply'[r] = 201)
    BY <1>3 DEF Duplicate, Answer, TablesType, ControlType
  <2>2. CopiedRow["status"] = "draft" /\ \A c \in Columns : CopiedRow[c] \in Writer \cup {"default"}
    BY DEF CopiedRow, TablesType, Cols
  <2>3. QED
    BY <1>1, <2>1, <2>2 DEF Copied, None
<1>4. CASE born' = born
  BY <1>1, <1>4 DEF Copied, None
<1>5. QED
  BY <1>2, <1>3, <1>4, Disturbs

-----------------------------------------------------------------------------
(* The theorems                                                            *)

\* The invariant is inductive.
LEMMA StepInv == IInv /\ [Next]_vars => IInv'
<1> SUFFICES ASSUME IInv, [Next]_vars PROVE IInv'
  OBVIOUS
<1>1. CASE Next
  <2>1. PICK r \in Requests : Arrive(r) \/ Proceed(r) \/ Interrupted(r) \/ Victim(r)
    BY <1>1 DEF Next
  <2>2. TablesType /\ ControlType /\ Sharing /\ SequenceWhole /\ NoOrphans /\ AcknowledgedStands
    BY DEF IInv
  <2>3. \A q \in Requests : Mine(q)
    BY DEF IInv
  <2>4. Control(r) /\ Locking(r) /\ Replacing(r) /\ Cascading(r) /\ Uploading(r) /\ Stored(r) /\ Reading(r) /\ Copied(r)
    BY <2>3 DEF Mine
  <2>5. \A q \in Requests : Control(q)
    BY <2>3 DEF Mine
  <2>6. Transition(r)
    BY <2>1, <2>2, <2>4, StepIsTransition
  <2>7. ControlType' /\ OthersAlone(r)
    BY <2>2, <2>4, <2>6, StepFrame
  <2>8. TablesType'
    BY <2>2, <2>4, <2>6, TablesStep
  <2>9. Control(r)' /\ Locking(r)'
    BY <2>2, <2>4, <2>6, ControlStep
  <2>10. Sharing'
    BY <2>2, <2>4, <2>6, <2>7, <2>9, SharingStep
  <2>11. SequenceWhole' /\ NoOrphans' /\ AcknowledgedStands'
    BY <2>2, <2>4, <2>6, <2>7, SequenceStep, OrphansStep, AcknowledgedStep
  <2>12. Mine(r)'
    <3>1. Replacing(r)'
      BY <2>2, <2>4, <2>5, <2>6, ReplacingStep
    <3>2. Cascading(r)' /\ Uploading(r)' /\ Stored(r)'
      BY <2>2, <2>4, <2>6, CascadingStep, UploadingStep, StoredStep
    <3>3. Reading(r)' /\ Copied(r)'
      BY <2>2, <2>4, <2>6, ReadingStep, CopiedStep
    <3>4. QED
      BY <2>9, <3>1, <3>2, <3>3 DEF Mine
  <2>13. ASSUME NEW q \in Requests \ {r} PROVE Mine(q)'
    <3>1. Control(q) /\ Locking(q) /\ Replacing(q) /\ Cascading(q) /\ Uploading(q) /\ Stored(q) /\ Reading(q) /\ Copied(q)
      BY <2>3 DEF Mine
    <3>2. job' = job
      BY <2>2, <2>4, <2>6, Disturbs
    <3>3. Control(q)' /\ Locking(q)'
      BY <2>2, <2>7, <3>1, <3>2, OthersControl
    <3>4. Replacing(q)' /\ Cascading(q)'
      BY <2>2, <2>4, <2>6, <2>7, <3>1, OthersReplacing, OthersCascading
    <3>5. Uploading(q)' /\ Stored(q)' /\ Reading(q)'
      BY <2>2, <2>4, <2>6, <2>7, <3>1, OthersUploading, OthersStored, OthersReading
    <3>6. Copied(q)'
      BY <2>7, <3>1 DEF OthersAlone, Copied, None
    <3>7. QED
      BY <3>3, <3>4, <3>5, <3>6 DEF Mine
  <2>14. QED
    BY <2>8, <2>7, <2>10, <2>11, <2>12, <2>13 DEF IInv
<1>2. CASE UNCHANGED vars
  <2>1. /\ job' = job /\ exists' = exists /\ row' = row /\ steps' = steps /\ prospect' = prospect
        /\ template' = template /\ born' = born /\ lock' = lock /\ share' = share /\ at' = at /\ pos' = pos
        /\ wants' = wants /\ snap' = snap /\ aborted' = aborted /\ reply' = reply /\ owed' = owed
        /\ raced' = raced /\ stored' = stored
    BY <1>2 DEF vars, tables, locks, ghost
  <2>2. TablesType' /\ ControlType' /\ Sharing' /\ NoOrphans' /\ AcknowledgedStands'
    BY <2>1 DEF IInv, TablesType, ControlType, Sharing, NoOrphans, AcknowledgedStands
  <2>3. SequenceWhole'
    BY <2>1 DEF IInv, SequenceWhole, Kind
  <2>4. ASSUME NEW r \in Requests PROVE Mine(r)'
    <3>1. Mine(r)
      BY DEF IInv
    <3>2. Control(r)' /\ Locking(r)' /\ Replacing(r)' /\ Cascading(r)'
      BY <2>1, <3>1 DEF Mine, Control, Locking, Replacing, Cascading, Kind
    <3>3. Uploading(r)' /\ Stored(r)' /\ Reading(r)' /\ Copied(r)'
      BY <2>1, <3>1 DEF Mine, Uploading, Stored, Reading, Copied, Kind, None
    <3>4. QED
      BY <3>2, <3>3 DEF Mine
  <2>5. QED
    BY <2>2, <2>3, <2>4 DEF IInv
<1>3. QED
  BY <1>1, <1>2

\* In every reachable state.
LEMMA Invariant == Spec => []IInv
<1>1. QED
  BY InitInv, StepInv, PTL DEF Spec

\* TypeOK: every variable has its type, an answered request holds no lock and wants no
\* row, and a created campaign is a draft with a value in every column (CampaignStore).
THEOREM StoreTypeCorrect == Spec => []TypeOK
<1>1. IInv => TypeOK
  <2> SUFFICES ASSUME IInv PROVE TypeOK
    OBVIOUS
  <2>1. TablesType /\ ControlType
    BY DEF IInv
  <2>2. \A r \in Requests : Control(r) /\ Locking(r) /\ Copied(r)
    BY DEF IInv, Mine
  <2>3. \A r \in Requests : at[r] = "done" => Held(r) = {} /\ r \notin share /\ wants[r] = {}
    BY <2>2 DEF Control, Locking, Held, Open
  <2>4. \A r \in Requests : (reply[r] # 0) = (at[r] = "done")
    BY <2>2 DEF Control
  <2>5. \A r \in Requests : born[r] # None => /\ reply[r] = 201
                                              /\ born[r]["status"] = "draft"
                                              /\ \A c \in Columns : born[r][c] \in Writer \cup {"default"}
    BY <2>2 DEF Copied
  <2>6. QED
    BY <2>1, <2>3, <2>4, <2>5 DEF TablesType, ControlType, Cols, At, TypeOK
<1>2. QED
  BY <1>1, Invariant, PTL

\* SequenceWhole: the sequence is the whole one of one request that was answered 200, or
\* the one of the start (SequenceHandler.Replace).
THEOREM SequencesAreWhole == Spec => []SequenceWhole
<1>1. IInv => SequenceWhole
  BY DEF IInv
<1>2. QED
  BY <1>1, Invariant, PTL

\* UploadAllOrNothing: an upload that was answered 200 has stored its whole file, one that
\* was answered 500 nothing (ProspectsHandler.Upload).
THEOREM UploadsAreWhole == Spec => []UploadAllOrNothing
<1>1. IInv => UploadAllOrNothing
  <2>1. SUFFICES ASSUME IInv, NEW r \in Requests, Kind(r) = "upload"
                 PROVE  /\ reply[r] = 200 => \A i \in 1..Len(job[r].cells) :
                             job[r].cells[i] = "empty"
                               \/ (job[r].cells[i] \in Urls /\ r \in stored[job[r].cells[i]])
                        /\ reply[r] = 500 => \A u \in Urls : prospect[u].by # r
    BY DEF UploadAllOrNothing
  <2>2. Stored(r)
    BY <2>1 DEF IInv, Mine
  <2>3. QED
    BY <2>1, <2>2 DEF Stored
<1>2. QED
  BY <1>1, Invariant, PTL

\* NoOrphans: no step, prospect or template outlives its campaign (Delete's cascade).
THEOREM NothingIsOrphaned == Spec => []NoOrphans
<1>1. IInv => NoOrphans
  BY DEF IInv
<1>2. QED
  BY <1>1, Invariant, PTL

\* AcknowledgedStands: an acknowledged change stands until the next one of the same column,
\* unless it came between the two statements of a PATCH, and the status always (Update).
THEOREM AcknowledgedChangesStand == Spec => []AcknowledgedStands
<1>1. IInv => AcknowledgedStands
  BY DEF IInv
<1>2. QED
  BY <1>1, Invariant, PTL

=============================================================================
