----------------------------- MODULE MCDispatch -----------------------------
(* Values for the constants of CampaignDispatch. *)
EXTENDS DispatchDelivery

CONSTANTS w1, w2, p1, p2

TwoWorkers == {w1, w2}
OneProspect == {p1}
TwoProspects == {p1, p2}
AllFaults == FaultKinds
\* The faults of the instance itself, of its database and a busy Unipile.
RecoverableFaults == {"crash", "slow", "db", "throttle", "lost"}
\* The faults of the remote side, and an instance that outlasts its lease.
RemoteFaults == {"slow", "nocreds", "throttle", "refuse", "lost"}
CrashOnly == {"crash"}

\* An invite, a message that opens the chat, one that uses it, and the end; the
\* operator may replace it by a sequence that starts differently.
EditedPlan == {<<"invite", "message", "message", "end">>, <<"wait", "message", "other">>}
InvitePlan == {<<"invite", "message">>, <<"invite", "wait", "end">>}

\* dispatchStep's comment, "lease - guards against double-send across crashes":
\* no step is carried out twice when the only faults are crashes.
CrashSafeSend == \A r \in RowId : performed[r] <= 1
=============================================================================
