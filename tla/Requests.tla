------------------------------ MODULE Requests ------------------------------
(***************************************************************************)
(* What the job queue promises the people whose requests it holds, without *)
(* runs, leases, gates or turns: a request is pending, then ends once, and *)
(* only then is its owner told, once.                                      *)
(***************************************************************************)
EXTENDS Integers

CONSTANT Jobs

VARIABLES
    ticket,     \* each request: none, pending, done or failed
    told        \* final messages its owner has got

vars == <<ticket, told>>

Tickets == {"none", "pending", "done", "failed"}

Init ==
    /\ ticket = [j \in Jobs |-> "none"]
    /\ told = [j \in Jobs |-> 0]

(* Asked for anew: a request that ended may be, a pending one may not.     *)
Ask(j) ==
    /\ ticket[j] # "pending"
    /\ ticket'[j] = "pending"
    /\ told'[j] = 0

Settle(j) ==
    /\ ticket[j] = "pending"
    /\ ticket'[j] \in {"done", "failed"}
    /\ told'[j] = told[j]

Tell(j) ==
    /\ ticket[j] \in {"done", "failed"}
    /\ told[j] = 0
    /\ told'[j] = 1
    /\ ticket'[j] = ticket[j]

(* Cancelled, or forgotten weeks after it ended.                           *)
Forget(j) == ticket'[j] = "none" /\ told'[j] = 0

Stay(j) == ticket'[j] = ticket[j] /\ told'[j] = told[j]

(* A pass over the queue may forget several requests at once.              *)
Next ==
    /\ ticket' \in [Jobs -> Tickets]
    /\ told' \in [Jobs -> 0..1]
    /\ \A j \in Jobs : Stay(j) \/ Ask(j) \/ Settle(j) \/ Tell(j) \/ Forget(j)

Spec == Init /\ [][Next]_vars
=============================================================================
