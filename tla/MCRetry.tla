------------------------------ MODULE MCRetry ------------------------------
(* CampaignDispatch with a history variable that counts the leases of a row. *)
EXTENDS CampaignDispatchProps

CONSTANTS w1, p1, MaxRetries  \* MaxRetries: the column's default, max_retries

VARIABLE tries

OneWorker == {w1}
OneProspect == {p1}
InviteOnly == {<<"invite">>}
ThrottleOnly == {"throttle"}

RetryInit == Init /\ tries = [r \in RowId |-> 0]
RetryNext ==
  /\ Next
  /\ tries' = [r \in RowId |->
       IF row[r].status = "pending" /\ row'[r].status = "processing"
         THEN tries[r] + 1 ELSE tries[r]]
RetrySpec == RetryInit /\ [][RetryNext]_<<vars, tries>>

\* handleUnipileError's comment: a throttled row is picked up again by the next
\* tick, "which honors retry_count via max_retries".  So a row is leased once and
\* retried at most max_retries times.
RetriesHonoured == \A r \in RowId : tries[r] <= 1 + MaxRetries
=============================================================================
