------------------------------ MODULE MCDocDoor ------------------------------
(* A small instance of DocDoor for TLC: m1 carries two documents of the    *)
(* same file name and one that does not convert, m2 one of them again, m3  *)
(* none.  A report proposes one of two folders.                            *)
EXTENDS DocDoor

CONSTANTS d1, d2, d3, m1, m2, m3, f1, f2

Carried ==
    [m \in {m1, m2, m3} |->
        CASE m = m1 -> {d1, d2, d3} [] m = m2 -> {d2} [] OTHER -> {}]

SameName == [d \in {d1, d2, d3} |-> "statement.pdf"]
=============================================================================
