---------------------------- MODULE StepDelivery ----------------------------
(***************************************************************************)
(* What the campaign loop promises of a prospect's steps, without workers, *)
(* leases, ticks or retries: a step is open until it is settled, it is     *)
(* carried out at most once and only while it is open, it is settled as    *)
(* sent exactly if it was carried out, and the next step opens only behind *)
(* a carried-out one, when no other step of the prospect is open.  A step  *)
(* that a fault breaks while it is open is released from all that.         *)
(***************************************************************************)
EXTENDS Naturals

CONSTANTS Prospects, MaxRows

Steps == Prospects \X (1..MaxRows)

VARIABLES
  state,   \* per step: "absent", "open", "sent" or "failed"
  done,    \* per step: how often it was carried out
  broken   \* the steps a fault has broken

vars == <<state, done, broken>>

Init ==
  /\ state = [s \in Steps |-> IF s[2] = 1 THEN "open" ELSE "absent"]
  /\ done = [s \in Steps |-> 0]
  /\ broken = {}

Broken(p) == \E s \in broken : s[1] = p

Perform(s) ==
  /\ state[s] = "open" /\ done[s] = 0 /\ s \notin broken
  /\ done' = [done EXCEPT ![s] = 1]
  /\ UNCHANGED <<state, broken>>

Settle(s) ==
  /\ state[s] = "open" /\ s \notin broken
  /\ state' = [state EXCEPT ![s] = IF done[s] = 1 THEN "sent" ELSE "failed"]
  /\ UNCHANGED <<done, broken>>

Open(s) ==
  /\ state[s] = "absent"
  /\ \E q \in Steps : q[1] = s[1] /\ done[q] > 0
  /\ ~Broken(s[1]) => \A q \in Steps : q[1] = s[1] => state[q] # "open"
  /\ state' = [state EXCEPT ![s] = "open"]
  /\ UNCHANGED <<done, broken>>

\* A fault hits an open step, perhaps in the very moment it is carried out.
Break(s) ==
  /\ state[s] = "open" /\ s \notin broken
  /\ broken' = broken \cup {s}
  /\ \/ UNCHANGED done
     \/ done[s] = 0 /\ done' = [done EXCEPT ![s] = 1]
  /\ UNCHANGED state

\* Of a broken step only this is left: it does not vanish.
Drift(s) ==
  /\ s \in broken
  /\ \E to \in {"open", "sent", "failed"} : state' = [state EXCEPT ![s] = to]
  /\ \E n \in {0, 1} : done' = [done EXCEPT ![s] = @ + n]
  /\ UNCHANGED broken

Next ==
  \E s \in Steps : Perform(s) \/ Settle(s) \/ Open(s) \/ Break(s) \/ Drift(s)

Spec == Init /\ [][Next]_vars
=============================================================================
