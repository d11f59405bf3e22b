------------------------------- MODULE MCIntake -------------------------------
(* A small instance of Intake for TLC: v1 is a reel, v2 a share link of it *)
(* that is queued, d1 a link of the same title that scout files, and the   *)
(* rubric is replaced once.  Of the reports, one is to be accepted and one *)
(* breaks the rubric: it accepts with a test failed.                       *)
EXTENDS Intake, TLC

CONSTANTS v1, v2, d1, w1, w2, reelTitle

Resolved == [v \in {v2} |-> v1]

Titled == [i \in {v1, v2, d1} |-> IF i = v1 THEN NoTitle ELSE reelTitle]

TestNames == {"evidence", "cost"}

Accepting ==
    [header |-> TRUE, sections |-> TRUE, confidence |-> TRUE,
     tests |-> [t \in TestNames |-> "pass"], verdict |-> "accept",
     project |-> TRUE, recheck |-> "none", code |-> FALSE, why |-> FALSE, next |-> TRUE]

Filed == {Accepting, [Accepting EXCEPT !.tests["cost"] = "fail"]}

Symmetry == Permutations({w1, w2})
=============================================================================
