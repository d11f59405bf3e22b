----------------------------- MODULE MCJobQueue -----------------------------
(***************************************************************************)
(* Small instances of JobQueue for TLC.                                    *)
(***************************************************************************)
EXTENDS JobQueue, TLC

CONSTANTS j1, j2, r1, r2, r3, g1, g2, t1, t2

(* What puts two processes at work on one job: a cancelled job's handler   *)
(* goes on, a handler outlives its runner, a turn outlives its lease.      *)
StormFaults == {"drop-running", "runner-killed", "slow-turn", "egress"}

(* The deployed system: the turn's limit (15 min) is under the lease       *)
(* (30 min), only waiting or finished jobs are cancelled, and a runner     *)
(* dies with its gateway, not alone.                                       *)
DeployedFaults ==
    EventKinds \ {"slow-turn", "drop-running", "runner-killed", "egress"}

(* Nothing dies with an answer in hand.                                    *)
CalmFaults == {"handler-dies", "turn-quits", "egress"}

RestartFaults == {"restart"}

Sym == Permutations(Runs) \cup Permutations(Gates)
=============================================================================
