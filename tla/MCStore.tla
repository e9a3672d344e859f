------------------------------ MODULE MCStore ------------------------------
(* Values for the constants of CampaignStore: every three of the jobs below, *)
(* whichever requests they come with.                                        *)
EXTENDS CampaignStoreProps, TLC

CONSTANTS r1, r2, r3, u1, u2, u3

ThreeRequests == {r1, r2, r3}
ThreeUrls == {u1, u2, u3}
OneOfEach == (u1 :> "here") @@ (u2 :> "none") @@ (u3 :> "elsewhere")
AllColumns == {"limit", "hours"}
DbFaults == {"db"}
TwoTemplates == {"msg1", "propuesta"}
OneWritten == {"msg1"}

Replace(list) == [kind |-> "replace", steps |-> list]
Upload(cells) == [kind |-> "upload", cells |-> cells]
Jobs == <<Replace(<<TRUE>>), Replace(<<TRUE, TRUE>>), Replace(<<TRUE, FALSE>>),
          Upload(<<u1, u2>>), Upload(<<u2, "empty", u3, u1>>), Upload(<<u2, "refused", u1>>),
          Upload(<<u1, "short">>),
          [kind |-> "patch", column |-> "limit"], [kind |-> "patch", column |-> "hours"],
          [kind |-> "status"], [kind |-> "toggle"], [kind |-> "delete"],
          [kind |-> "remove", url |-> u1], [kind |-> "duplicate"],
          [kind |-> "write_template", template |-> "msg1"],
          [kind |-> "write_template", template |-> "propuesta"],
          [kind |-> "drop_template", template |-> "msg1"],
          [kind |-> "create", named |-> TRUE, given |-> {"limit"}]>>
\* Requests are interchangeable: one order of every three jobs is enough.
EveryThreeJobs == {[r \in ThreeRequests |-> Jobs[IF r = r1 THEN i ELSE IF r = r2 THEN j ELSE k]] :
                     <<i, j, k>> \in {t \in (1..Len(Jobs)) \X (1..Len(Jobs)) \X (1..Len(Jobs)) :
                                        t[1] <= t[2] /\ t[2] <= t[3]}}
=============================================================================
