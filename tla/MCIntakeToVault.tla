--------------------------- MODULE MCIntakeToVault ---------------------------
(* A small instance of IntakeToVault for TLC: v1 and v2 share a slug.      *)
EXTENDS IntakeToVault

CONSTANTS v1, v2

Slugs == [k \in {v1, v2} |-> {v1, v2}]
=============================================================================
