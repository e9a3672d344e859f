----------------------------- MODULE MCProvider -----------------------------
(* Values for the constants of UnipileProvider: the three loops that call Get. *)
EXTENDS UnipileProvider

CONSTANTS campaign, jobs, feed, old, new

ThreeLoops == {campaign, jobs, feed}
TwoLoops == {campaign, jobs}
TwoCredentials == {old, new}
=============================================================================
