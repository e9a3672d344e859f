-------------------------- MODULE DispatchDelivery --------------------------
(* The campaign loop implements StepDelivery. *)
EXTENDS CampaignDispatchProps

\* 'pending' and 'processing' are one abstract state: leases, releases and retries
\* stutter.
StateOf(r) == IF Open(r) THEN "open" ELSE row[r].status

Delivery == INSTANCE StepDelivery WITH
  state  <- [r \in RowId |-> StateOf(r)],
  done   <- performed,
  broken <- lapse

\* The campaign loop delivers: whatever workers, ticks, stale leases, retries and
\* edits of the sequence do, each step of dispatchStep is one step of StepDelivery
\* or none.
Delivers == Delivery!Spec
=============================================================================
