---------------------------- MODULE MCAlertInbox ----------------------------
(***************************************************************************)
(* Instances of AlertInbox for TLC: a rule on prometheus with a `for`, and *)
(* a warning on loki without one.                                          *)
(***************************************************************************)
EXTENDS AlertInbox

CONSTANTS prometheus, loki

OneEach == 1..2
Two == {prometheus, loki}
SourceOfEach == [r \in OneEach |-> IF r = 1 THEN prometheus ELSE loki]
LongHold == [r \in OneEach |-> IF r = 1 THEN 2 ELSE 0]
Second == {2}
=============================================================================
