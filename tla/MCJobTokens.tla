----------------------------- MODULE MCJobTokens -----------------------------
(* Small instances of JobTokens: what may go wrong together in a run.          *)
EXTENDS JobTokens

None == [k \in Faults |-> 0]
Failures == [None EXCEPT !["break"] = 2, !["zombie"] = 1, !["match"] = 1, !["deliver"] = 1]
Replans == [None EXCEPT !["replan"] = 1, !["cancel"] = 1, !["match"] = 1,
                        !["deliver"] = 1, !["context"] = 1, !["log"] = 1]
Overlap == [None EXCEPT !["replan"] = 1, !["break"] = 1, !["match"] = 1]
Crashes == [None EXCEPT !["break"] = 1, !["crash"] = 1]
Cancels == [None EXCEPT !["cancel"] = 1]

\* a job that asks for no resubmission, and one that asks for one of each kind
AllBounds == [n \in 0 .. 1 |-> IF n = 0 THEN {Crashes} ELSE {Failures, Replans, Overlap}]
OneCrash == [n \in {0} |-> {Crashes}]
OneCancel == [n \in {0} |-> {Cancels}]
=============================================================================
