------------------------------- MODULE Rubric -------------------------------
(***************************************************************************)
(* The rubric every report is checked against before it is filed           *)
(* (skills/video-eval/video.py, "the rubric" and "the report"): a report   *)
(* is what its header and sections say, as far as the rubric tells two     *)
(* reports apart.                                                          *)
(***************************************************************************)
CONSTANTS
    Tests,      \* the tests a verdict rests on, as rubric.md lists them
    Submitted   \* the reports that judges and producers file

Verdicts == {"accept", "park", "drop"}

(* What parse_report reads. A flag is up when its part is as it must be:   *)
(* header, every line the kind needs and a listed category; sections, the  *)
(* listed ones in order and none empty; confidence, its first word; code,  *)
(* the drop's reason is a listed one; and so on.                           *)
Reports ==
    [header : BOOLEAN, sections : BOOLEAN, confidence : BOOLEAN,
     tests : [Tests -> {"pass", "fail", "missing"}],
     verdict : Verdicts \cup {"none of them"},
     project : BOOLEAN, recheck : {"none", "past", "later"},
     code : BOOLEAN, why : BOOLEAN, next : BOOLEAN]

ASSUME RubricAssumption == Submitted \subseteq Reports

(* _verdict: each verdict has conditions of its own; a drop needs no next  *)
(* step.                                                                   *)
VerdictHolds(r) ==
    /\ \A t \in Tests : r.tests[t] # "missing"
    /\ r.verdict \in Verdicts
    /\ r.verdict = "accept" => r.project /\ \A t \in Tests : r.tests[t] = "pass"
    /\ r.verdict = "park" => r.recheck = "later"
    /\ r.verdict = "drop" => r.code /\ r.why
    /\ r.verdict # "drop" => r.next

(* parse_report: a report is filed when there is nothing against it.       *)
Follows(r) == r.header /\ r.sections /\ r.confidence /\ VerdictHolds(r)
=============================================================================
