-------------------------- MODULE CampaignStoreProps --------------------------
(* What the handlers promise to the operators who call them at the same time. *)
EXTENDS CampaignStore

\* Every variable has its type, and a request that was answered holds no lock.
TypeOK ==
  /\ exists \in BOOLEAN /\ row \in [Columns \cup {"status"} -> Writer]
  /\ steps \in [Index -> Writer \cup {"none"}]
  /\ prospect \in [Urls -> {Absent} \cup [by : Writer, home : {"here", "elsewhere"}]]
  /\ template \in [Templates -> Writer \cup {"none"}]
  /\ \A r \in Requests : born[r] # None => /\ reply[r] = 201
                                            /\ born[r]["status"] = "draft"
                                            /\ \A c \in Columns : born[r][c] \in Writer \cup {"default"}
  /\ lock \in [Keys -> Requests \cup {"none"}] /\ share \subseteq Requests
  /\ at \in [Requests -> {"idle", "wipe", "upload", "write", "cascade", "done"}]
  /\ wants \in [Requests -> SUBSET Keys]
  /\ \A r \in Requests : at[r] = "done" => Held(r) = {} /\ r \notin share /\ wants[r] = {}
  /\ \A r \in Requests : (reply[r] # 0) = (at[r] = "done")

\* "Uses a transaction so partial sequences never leak through": the steps of the
\* campaign are all of the steps of one request that was answered 200, or the ones it
\* had at the start, whoever replaces the sequence at the same time, whatever fails in
\* the middle and whoever is rolled back (SequenceHandler.Replace).
SequenceWhole ==
  LET StepsOf(o) == IF o = "old" THEN OldSteps ELSE Len(job[o].steps)
      SetBy(o) == o = "old" \/ (Kind(o) = "replace" /\ reply[o] = 200)
  IN IF exists
       THEN \E o \in Writer : SetBy(o) /\
              steps = [k \in Index |-> IF k < StepsOf(o) THEN o ELSE "none"]
       ELSE \A k \in Index : steps[k] = "none"

\* An upload is all or nothing although the loop goes on after a failed row: answered
\* 200 it has stored every URL of the file and no row was refused by the database, and
\* answered 500 it has stored none (ProspectsHandler.Upload).
UploadAllOrNothing ==
  \A r \in Requests : Kind(r) = "upload" =>
    /\ reply[r] = 200 => \A i \in 1..Len(job[r].cells) :
         LET cell == job[r].cells[i]
         IN cell = "empty" \/ (cell \in Urls /\ r \in stored[cell])
    /\ reply[r] = 500 => \A u \in Urls : prospect[u].by # r

\* No row outlives its campaign: the inserts of an upload, of a new sequence and of a
\* template and the cascade of a DELETE may come in any order (sequence_steps,
\* campaign_templates, prospects).
NoOrphans == exists \/ /\ \A u \in Urls : prospect[u].home # "here"
                       /\ \A t \in Templates : template[t] = "none"
                       /\ \A k \in Index : steps[k] = "none"

\* What an operator changed and got acknowledged stands until somebody changes the same
\* column or template, or the campaign goes.  A PATCH writes back every column it has read, so a column may fall back to
\* an older value, but only when it was changed while another PATCH was between its two
\* statements, and never the status: no PATCH undoes a pause (Update, SetStatus).
AcknowledgedStands ==
  exists => /\ \A c \in Columns \cup {"status"} : c \in raced \/ row[c] = owed[c]
            /\ \A t \in Templates : template[t] = owed[t]

\* Every request that arrives is answered, although requests wait for each other's rows
\* in opposite orders, statements fail and a handler panics inside a transaction.
Answered == \A r \in Requests : at[r] # "idle" ~> at[r] = "done"
=============================================================================
