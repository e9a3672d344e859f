------------------------------- MODULE MCFeed -------------------------------
(* Values for the constants of FeedScan: two posts by one author, found by one *)
(* search, and two campaigns of which one is active.                           *)
EXTENDS FeedScanProps, TLC

CONSTANTS w1, r1, r2, s1, p1, p2, a1, c1, c2, untitled

OneWorker == {w1}
TwoRequests == {r1, r2}
OneSearch == {s1}
TwoPosts == {p1, p2}
TwoCampaigns == {c1, c2}
OneActive == {c1}
FindsBoth == s1 :> <<untitled, p1, p2, p1>>
SameAuthor == (p1 :> a1) @@ (p2 :> a1)
AllFaults == FaultKinds
=============================================================================
