------------------------------ MODULE Worklist ------------------------------
(***************************************************************************)
(* What the job queue promises the producer whose jobs it runs, without    *)
(* gates, attempts, leases or turns: one job at a time is worked on, no    *)
(* job ends or goes away under the handler that works on it, and one that  *)
(* the handler handed on waits for its report or is worked on again.       *)
(***************************************************************************)
CONSTANT Jobs

VARIABLES
    status,     \* each job: absent, queued, running, done or failed
    working     \* the jobs a handler works on

vars == <<status, working>>

Live == {"queued", "running"}
Statuses == Live \cup {"absent", "done", "failed"}

Init ==
    /\ status = [j \in Jobs |-> "absent"]
    /\ working = {}

MayAsk(j) == status[j] \notin Live

(* Anew, or again when the run before was lost or never reported on.       *)
MayHand(j) == working = {} /\ status[j] \in Live

MayGiveUp(j) == working = {} /\ status[j] = "running"

(* Cancelled before it ran, or forgotten weeks after it ended.             *)
MayForget(j) == status[j] \notin {"absent", "running"}

Ask(j) == MayAsk(j) /\ status'[j] = "queued" /\ UNCHANGED working

Hand(j) == MayHand(j) /\ status'[j] = "running" /\ working' = {j}

GiveUp(j) == MayGiveUp(j) /\ status'[j] = "failed" /\ UNCHANGED working

(* The handler printed the material for a judge, or died.                  *)
Leave(j) ==
    /\ working = {j} /\ working' = {}
    /\ status'[j] = status[j]

(* It answered, failed for good, or asked to be run again.                 *)
Settle(j) ==
    /\ working = {j} /\ working' = {}
    /\ status'[j] \in {"queued", "done", "failed"}

(* The judge's report, while no handler works on this job or another.      *)
Report(j) ==
    /\ working = {} /\ status[j] = "running"
    /\ status'[j] = "done"
    /\ UNCHANGED working

Stay(j) == status'[j] = status[j]

Forget(j) == MayForget(j) /\ status'[j] = "absent"

(* A pass over the queue may forget several jobs at once.                  *)
Next ==
    /\ status' \in [Jobs -> Statuses]
    /\ \/ UNCHANGED working /\ \A j \in Jobs : Stay(j) \/ Forget(j)
       \/ \E j \in Jobs :
            /\ Ask(j) \/ Hand(j) \/ GiveUp(j) \/ Leave(j) \/ Settle(j) \/ Report(j)
            /\ \A k \in Jobs \ {j} : Stay(k) \/ Forget(k)

Spec == Init /\ [][Next]_vars
=============================================================================
