------------------------------- MODULE MCJobs -------------------------------
(* Values for the constants of JobScoring. *)
EXTENDS JobScoringProps, TLC

CONSTANTS w1, w2, s1, s2, j1, j2, ad, untitled

OneWorker == {w1}
TwoWorkers == {w1, w2}
OneSearch == {s1}
TwoSearches == {s1, s2}
AllPostings == {j1, j2, ad}
OneAd == {ad}
\* Three results are asked for: the item without an id does not count, the
\* advertisement does.
FindsBoth == [s \in OneSearch |-> <<j1, untitled, ad, j2>>]
FindsOneEach == (s1 :> <<j1>>) @@ (s2 :> <<ad, j2, j1, j1>>)
AllFaults == FaultKinds
=============================================================================
