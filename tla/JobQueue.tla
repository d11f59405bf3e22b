------------------------------ MODULE JobQueue ------------------------------
(***************************************************************************)
(* The shared job queue (skills/job-queue/jobq.py) with the processes that *)
(* work on it: the drain gate (`jobq.py next`), the detached runner and    *)
(* the producer's handler it starts, and the agent turn that reads a run's *)
(* output and answers the owner.                                           *)
(*                                                                         *)
(* Every step below is one section of code under the queue's file lock, or *)
(* the unlocked code between two of them.  Between any two steps every     *)
(* other process may run, and the ones named in Events may die.            *)
(***************************************************************************)
EXTENDS Integers

CONSTANTS
    Jobs,           \* job ids (<kind>-<key>)
    Runs,           \* process identities (pid and start time) for runners
    NoRun,          \* the job record has no "run"
    Gates,          \* processes that may be inside `jobq.py next`
    Turns,          \* agent turns that may be alive at once
    NeedsEgress,    \* the jobs with a probe host
    Quiet,          \* the jobs nobody waits for an answer to
    MaxAttempts,    \* JOBQ_MAX_ATTEMPTS
    OfferLimit,     \* OFFER_LIMIT
    MaxAdds,        \* bound of the model: how many times a job is queued
    Events          \* what the environment may do

EventKinds == {"drop-running", "gate-killed", "runner-killed", "restart",
               "handler-dies", "answer-lost", "turn-quits", "slow-turn",
               "ages", "egress"}

ASSUME QueueAssumption ==
    /\ NoRun \notin Runs
    /\ NeedsEgress \subseteq Jobs
    /\ Quiet \subseteq Jobs
    /\ MaxAttempts \in Nat \ {0}
    /\ OfferLimit \in Nat \ {0}
    /\ MaxAdds \in Nat
    /\ Events \subseteq EventKinds

VARIABLES
    job,        \* <id>.json: the job records, "absent" where there is no file
    out,        \* <id>.out: what it says, who has it open
    gate,       \* each gate: idle, or past its first locked section
    proc,       \* each runner and the handler it started
    turn,       \* each agent turn
    egress,     \* the egress carries a connection to the probe host
    clock,      \* queued_at of the newest job
    answers     \* history: final messages to the owner about the present job

vars == <<job, out, gate, proc, turn, egress, clock, answers>>

-----------------------------------------------------------------------------
(***************************************************************************)
(* Records.                                                                *)
(***************************************************************************)
Live  == {"queued", "running"}
Ended == {"done", "failed"}

(* What the record's "run" says: no run; started and not yet recorded; an  *)
(* unread output; read within the lease; read and the lease is over; ran   *)
(* and left nothing to read.                                               *)
Phases == {"none", "started", "unread", "read", "lapsed", "empty"}

JobRecord == [status: Live \cup Ended \cup {"absent"}, attempts: Nat,
              offers: Nat, at: Nat, run: Runs \cup {NoRun}, phase: Phases,
              aged: BOOLEAN]

Absent == [status |-> "absent", attempts |-> 0, offers |-> 0, at |-> 0,
           run |-> NoRun, phase |-> "none", aged |-> FALSE]

(* What <id>.out says and for which request it was printed (queued_at), and *)
(* the runs whose handler prints into this very file: who opened one that  *)
(* was removed since prints into nothing.  No file says nothing.           *)
Output == [says: {"none", "reply", "material"}, for: Nat, by: SUBSET Runs]

NoFile == [says |-> "none", for |-> 0, by |-> {}]

(* A ticket is a job as a gate saw it under the lock.                      *)
Ticket == [id: Jobs, at: Nat]

IdleGate == [pc |-> "idle", ready |-> {}, late |-> {}]

(* "late" collects the leases that ran out after this gate read the time.  *)
GateRecord ==
    {IdleGate} \cup [pc: {"probing", "picked"}, ready: SUBSET Ticket,
                     late: SUBSET Jobs]

FreeProc == [pc |-> "free", job |-> NoRun, at |-> 0, up |-> FALSE,
             text |-> "none"]

(* "up" is the runner process; pc follows the handler once it is launched. *)
(* "text" is what the handler prints, "dead" when it has not ended well.   *)
ProcRecord ==
    {FreeProc} \cup
    [pc: {"spawned", "checked", "launched", "fetching", "failing"},
     job: Jobs, at: Nat, up: BOOLEAN, text: {"none"}] \cup
    [pc: {"ended"}, job: Jobs, at: Nat, up: BOOLEAN,
     text: {"reply", "material"}] \cup
    [pc: {"exited"}, job: Jobs, at: Nat, up: BOOLEAN,
     text: {"none", "reply", "material", "dead"}]

IdleTurn == [pc |-> "idle", job |-> NoRun, at |-> 0]

TurnRecord ==
    {IdleTurn} \cup
    [pc: {"told", "holding", "filing", "replying"}, job: Jobs, at: Nat]

Init ==
    /\ job = [j \in Jobs |-> Absent]
    /\ out = [j \in Jobs |-> NoFile]
    /\ gate = [g \in Gates |-> IdleGate]
    /\ proc = [r \in Runs |-> FreeProc]
    /\ turn = [t \in Turns |-> IdleTurn]
    /\ egress = TRUE
    /\ clock = 0
    /\ answers = [j \in Jobs |-> 0]

-----------------------------------------------------------------------------
(***************************************************************************)
(* What the queue computes from its files.                                 *)
(***************************************************************************)
Alive(r) == r \in Runs /\ proc[r].up

StaleForgettingEmpty(j, late) ==
    /\ job[j].status = "running"
    /\ \/ job[j].phase = "started" /\ ~Alive(job[j].run)
       \/ job[j].phase = "lapsed" /\ j \notin late

StaleWhateverStatus(j, late) ==
    \/ job[j].phase = "started" /\ ~Alive(job[j].run)
    \/ job[j].phase = "lapsed" /\ j \notin late
    \/ job[j].phase = "empty"

(* A running job nobody will report back for, to a caller whose time does  *)
(* not yet see the leases in late as over.                                 *)
Stale(j, late) ==
    /\ job[j].status = "running"
    /\ \/ job[j].phase = "started" /\ ~Alive(job[j].run)
       \/ job[j].phase = "lapsed" /\ j \notin late
       \/ job[j].phase = "empty"

RunnableBesideOthers(late) ==
    {j \in Jobs : job[j].status = "queued" \/ Stale(j, late)}

Runnable(late) ==
    {j \in Jobs :
        /\ job[j].status = "queued" \/ Stale(j, late)
        /\ \A k \in Jobs : job[k].status = "running" => Stale(k, late)}

Tickets(S) == {[id |-> j, at |-> job[j].at] : j \in S}

Oldest(S) == {c \in S : \A d \in S : c.at <= d.at}

Prunable(j) == job[j].status \in Ended /\ job[j].aged

Kept == [j \in Jobs |-> IF Prunable(j) THEN Absent ELSE job[j]]

ForgottenOut == out

KeptOut == [j \in Jobs |-> IF Prunable(j) THEN NoFile ELSE out[j]]

UnreadOfRunning ==
    {j \in Jobs : job[j].phase = "unread" /\ job[j].status = "running"}

Unread == {j \in Jobs : job[j].phase = "unread" /\ ~Prunable(j)}

ExhaustedOneLate == {j \in Runnable({}) : /\ Stale(j, {})
                                          /\ job[j].attempts > MaxAttempts}

(* Stale jobs with no attempt left.                                        *)
Exhausted == {j \in Runnable({}) : /\ Stale(j, {})
                                   /\ job[j].attempts >= MaxAttempts}

EgressReady(j) == j \in NeedsEgress => egress

(* A pid that no process has and no record names.                          *)
Fresh(r) == proc[r].pc = "free" /\ \A j \in Jobs : job[j].run # r

AnybodysJob(r) == job[proc[r].job].status # "absent"

Mine(r) == job[proc[r].job].run = r

-----------------------------------------------------------------------------
(***************************************************************************)
(* The producer, the owner and the operator.                               *)
(***************************************************************************)
MergedRecord(j) == [Kept[j] EXCEPT !.status = "queued", !.at = clock + 1]

(* A finished job asked for again starts from a record with no past.       *)
NewRecord(j) ==
    [status |-> "queued", attempts |-> 0, offers |-> 0, at |-> clock + 1,
     run |-> NoRun, phase |-> "none", aged |-> FALSE]

Add(j) ==
    /\ clock < MaxAdds
    /\ Kept[j].status \notin Live
    /\ job' = [Kept EXCEPT ![j] = NewRecord(j)]
    /\ out' = [KeptOut EXCEPT ![j] = NoFile]
    /\ clock' = clock + 1
    /\ answers' = [answers EXCEPT ![j] = 0]
    /\ UNCHANGED <<gate, proc, turn, egress>>

(* `list`, an `add` of a job that already waits, and a `next` that finds   *)
(* nothing to do: of all three only the pruning is left.                   *)
OnlyPrunes ==
    /\ job' = Kept
    /\ out' = KeptOut
    /\ UNCHANGED <<gate, proc, turn, egress, clock, answers>>

Drop(j) ==
    /\ job[j].status # "absent"
    /\ job[j].status = "running" => "drop-running" \in Events
    /\ job' = [job EXCEPT ![j] = Absent]
    /\ out' = [out EXCEPT ![j] = NoFile]
    /\ answers' = [answers EXCEPT ![j] = 0]
    /\ UNCHANGED <<gate, proc, turn, egress, clock>>

-----------------------------------------------------------------------------
(***************************************************************************)
(* The drain gate: next_job.  Its first locked section hands out an unread *)
(* output, gives up on a job, or collects what may run; the egress is      *)
(* probed unlocked; a second locked section starts the picked job.         *)
(***************************************************************************)
GateOffers(g, t) ==
    /\ gate[g].pc = "idle"
    /\ turn[t].pc = "idle"
    /\ \E c \in Oldest(Tickets(Unread)) :
          /\ job[c.id].offers + 1 <= OfferLimit
          /\ job' = [Kept EXCEPT ![c.id].offers = @ + 1]
          /\ turn' = [turn EXCEPT ![t] = [pc |-> "told", job |-> c.id,
                                          at |-> c.at]]
    /\ out' = KeptOut
    /\ UNCHANGED <<gate, proc, egress, clock, answers>>

TellNobody(t, c) == turn' = turn

(* The turn that gets a give-up message: a quiet job's says NO_REPLY.      *)
TellGivenUp(t, c) ==
    turn' = IF c.id \in Quiet THEN turn
            ELSE [turn EXCEPT ![t] = [pc |-> "replying", job |-> c.id,
                                      at |-> c.at]]

GateWithdraws(g, t) ==
    /\ gate[g].pc = "idle"
    /\ turn[t].pc = "idle"
    /\ \E c \in Oldest(Tickets(Unread)) :
          /\ job[c.id].offers + 1 > OfferLimit
          /\ job' = [Kept EXCEPT
                        ![c.id].phase = "empty",
                        ![c.id].status = IF @ = "running" THEN "failed" ELSE @]
          /\ out' = [KeptOut EXCEPT ![c.id] = NoFile]
          /\ TellGivenUp(t, c)
    /\ UNCHANGED <<gate, proc, egress, clock, answers>>

GateGivesUp(g, t) ==
    /\ gate[g].pc = "idle"
    /\ turn[t].pc = "idle"
    /\ Unread = {}
    /\ \E c \in Oldest(Tickets(Exhausted)) :
          /\ job' = [Kept EXCEPT ![c.id].status = "failed"]
          /\ TellGivenUp(t, c)
    /\ out' = KeptOut
    /\ UNCHANGED <<gate, proc, egress, clock, answers>>

GateCollects(g) ==
    /\ gate[g].pc = "idle"
    /\ Unread = {}
    /\ Exhausted = {}
    /\ Runnable({}) # {}
    /\ gate' = [gate EXCEPT ![g] = [pc |-> "probing", late |-> {},
                                    ready |-> Tickets(Runnable({}))]]
    /\ job' = Kept
    /\ out' = KeptOut
    /\ UNCHANGED <<proc, turn, egress, clock, answers>>

GatePicks(g) ==
    /\ gate[g].pc = "probing"
    /\ \E c \in Oldest(gate[g].ready) :
          /\ EgressReady(c.id)
          /\ gate' = [gate EXCEPT ![g].pc = "picked", ![g].ready = {c}]
    /\ UNCHANGED <<job, out, proc, turn, egress, clock, answers>>

(* The answer "no" is kept for every job with this host.                   *)
GateSkips(g) ==
    /\ gate[g].pc = "probing"
    /\ \E c \in Oldest(gate[g].ready) : ~EgressReady(c.id)
    /\ LET left == {d \in gate[g].ready : d.id \notin NeedsEgress}
       IN  gate' = [gate EXCEPT ![g] = IF left = {} THEN IdleGate
                                       ELSE [@ EXCEPT !.ready = left]]
    /\ UNCHANGED <<job, out, proc, turn, egress, clock, answers>>

Spawn(r, j) ==
    proc' = [proc EXCEPT ![r] = [pc |-> "spawned", job |-> j,
                                 at |-> job[j].at, up |-> TRUE,
                                 text |-> "none"]]

MayStartUnasked(g, j) == job[j].status \in Live

(* What the second locked section looks at again.                          *)
MayStart(g, j) == j \in Runnable(gate[g].late)

Claimed(j, r) ==
    [status |-> "running", attempts |-> job[j].attempts + 1, offers |-> 0,
     at |-> job[j].at, run |-> r, phase |-> "started", aged |-> job[j].aged]

GateStarts(g, r) ==
    /\ gate[g].pc = "picked"
    /\ Fresh(r)
    /\ \E c \in gate[g].ready :
          /\ MayStart(g, c.id)
          /\ Spawn(r, c.id)
          /\ job' = [job EXCEPT ![c.id] = Claimed(c.id, r)]
    /\ gate' = [gate EXCEPT ![g] = IdleGate]
    /\ UNCHANGED <<out, turn, egress, clock, answers>>

GateTooLate(g) ==
    /\ gate[g].pc = "picked"
    /\ \A c \in gate[g].ready : ~MayStart(g, c.id)
    /\ gate' = [gate EXCEPT ![g] = IdleGate]
    /\ UNCHANGED <<job, out, proc, turn, egress, clock, answers>>

-----------------------------------------------------------------------------
(***************************************************************************)
(* The runner, run_handler.                                                *)
(***************************************************************************)
RunnerChecks(r) ==
    /\ proc[r].pc = "spawned"
    /\ proc' = [proc EXCEPT ![r] = IF Mine(r) THEN [@ EXCEPT !.pc = "checked"]
                                   ELSE FreeProc]
    /\ UNCHANGED <<job, out, gate, turn, egress, clock, answers>>

OpenedAsItIs(r) == [out EXCEPT ![proc[r].job].by = @ \cup {r}]

(* Created, or emptied whoever else has it open.                           *)
Opened(r) == [out EXCEPT ![proc[r].job] =
                 [says |-> "none", for |-> 0, by |-> @.by \cup {r}]]

(* The handler's output is the file itself, opened after the lock.         *)
RunnerOpens(r) ==
    /\ proc[r].pc = "checked"
    /\ out' = Opened(r)
    /\ proc' = [proc EXCEPT ![r].pc = "launched"]
    /\ UNCHANGED <<job, gate, turn, egress, clock, answers>>

(* An end of r: the file is open in one process less.                      *)
Left(r) == [out EXCEPT ![proc[r].job].by = @ \ {r}]

(* The runner reads the file once the handler has ended well, ...          *)
Said(r) == IF proc[r].text = "dead" THEN "none" ELSE out[proc[r].job].says

Recorded(j, said) ==
    [status |-> job[j].status, attempts |-> job[j].attempts, offers |-> 0,
     at |-> job[j].at, run |-> job[j].run, aged |-> job[j].aged,
     phase |-> IF said = "none" THEN "empty" ELSE "unread"]

(* ... and removes it when there is nothing to read.                       *)
RunnerRecords(r) ==
    LET j == proc[r].job IN
    /\ proc[r].pc = "exited"
    /\ proc[r].up
    /\ proc' = [proc EXCEPT ![r] = FreeProc]
    /\ IF Mine(r)
       THEN /\ job' = [job EXCEPT ![j] = Recorded(j, Said(r))]
            /\ out' = IF Said(r) = "none" THEN [out EXCEPT ![j] = NoFile]
                      ELSE Left(r)
       ELSE UNCHANGED job /\ out' = Left(r)
    /\ UNCHANGED <<gate, turn, egress, clock, answers>>

-----------------------------------------------------------------------------
(***************************************************************************)
(* The handler, as video.py's run_job uses the queue.  It reports on the   *)
(* job by its id; nothing says for which run.                              *)
(***************************************************************************)
Say(j) == IF j \in Quiet THEN "none" ELSE "reply"

(* One with nothing to say but NO_REPLY leaves the file what it says.      *)
EndProc(r, said) ==
    [proc EXCEPT ![r].pc = IF said = "none" THEN "exited" ELSE "ended",
                 ![r].text = said]

Died(r) == [proc EXCEPT ![r].pc = "exited", ![r].text = "dead"]

SetEnded(j, verdict) ==
    job' = IF job[j].status = "absent" THEN job
           ELSE [job EXCEPT ![j].status = verdict, ![j].aged = FALSE]

HandlerBegins(r) ==
    /\ proc[r].pc = "launched"
    /\ proc' = IF job[proc[r].job].status = "running"
               THEN [proc EXCEPT ![r].pc = "fetching"]
               ELSE EndProc(r, "none")
    /\ UNCHANGED <<job, out, gate, turn, egress, clock, answers>>

(* An earlier verdict, or a normal "unavailable": final, and printed.      *)
HandlerFinishes(r) ==
    /\ proc[r].pc = "fetching"
    /\ SetEnded(proc[r].job, "done")
    /\ proc' = EndProc(r, Say(proc[r].job))
    /\ UNCHANGED <<out, gate, turn, egress, clock, answers>>

(* The material for the judge: the job stays running.                      *)
HandlerPrints(r) ==
    /\ proc[r].pc = "fetching"
    /\ proc' = EndProc(r, "material")
    /\ UNCHANGED <<job, out, gate, turn, egress, clock, answers>>

UncountedTwice(n) == n - 2

Uncounted(n) == IF n = 0 THEN 0 ELSE n - 1

HandlerReleases(r) ==
    LET j == proc[r].job IN
    /\ proc[r].pc = "fetching"
    /\ ~EgressReady(j)
    /\ job' = IF job[j].status # "running" THEN job
              ELSE [job EXCEPT ![j].status = "queued",
                               ![j].attempts = Uncounted(@)]
    /\ proc' = EndProc(r, "none")
    /\ UNCHANGED <<out, gate, turn, egress, clock, answers>>

HandlerRetries(r) ==
    LET j == proc[r].job IN
    /\ proc[r].pc = "fetching"
    /\ EgressReady(j)
    /\ \/ /\ job[j].status = "absent"
          /\ proc' = EndProc(r, Say(j))
          /\ UNCHANGED job
       \/ /\ job[j].status # "absent"
          /\ job[j].attempts >= MaxAttempts
          /\ proc' = [proc EXCEPT ![r].pc = "failing"]
          /\ UNCHANGED job
       \/ /\ job[j].status # "absent"
          /\ job[j].attempts < MaxAttempts
          /\ proc' = EndProc(r, "none")
          /\ job' = [job EXCEPT ![j].status = "queued"]
    /\ UNCHANGED <<out, gate, turn, egress, clock, answers>>

(* retry's second locked section, after the last attempt.                  *)
HandlerFails(r) ==
    /\ proc[r].pc = "failing"
    /\ SetEnded(proc[r].job, "failed")
    /\ proc' = EndProc(r, Say(proc[r].job))
    /\ UNCHANGED <<out, gate, turn, egress, clock, answers>>

(* What it printed reaches the file when it exits, over what is there.     *)
HandlerExits(r) ==
    LET j == proc[r].job IN
    /\ proc[r].pc = "ended"
    /\ out' = IF r \notin out[j].by THEN out
              ELSE [out EXCEPT ![j].says = proc[r].text, ![j].for = proc[r].at]
    /\ proc' = [proc EXCEPT ![r].pc = "exited"]
    /\ UNCHANGED <<job, gate, turn, egress, clock, answers>>

(* A handler whose runner is gone ends; nobody collects what it printed.   *)
OrphanEnds(r) ==
    /\ proc[r].pc = "exited"
    /\ ~proc[r].up
    /\ proc' = [proc EXCEPT ![r] = FreeProc]
    /\ out' = Left(r)
    /\ UNCHANGED <<job, gate, turn, egress, clock, answers>>

-----------------------------------------------------------------------------
(***************************************************************************)
(* The agent turn: jobq.py output, then an answer or video.py report.      *)
(***************************************************************************)
TurnReads(t) ==
    LET j == turn[t].job IN
    /\ turn[t].pc = "told"
    /\ job[j].phase = "unread"
    /\ job' = [job EXCEPT ![j].phase = "read"]
    /\ out' = [out EXCEPT ![j] = NoFile]
    /\ turn' = CASE out[j].says = "none" -> [turn EXCEPT ![t] = IdleTurn]
                 [] out[j].says = "reply" ->
                      [turn EXCEPT ![t].pc = "replying", ![t].at = job[j].at]
                 [] out[j].says = "material" ->
                      [turn EXCEPT ![t].pc = "holding", ![t].at = job[j].at]
    /\ UNCHANGED <<gate, proc, egress, clock, answers>>

TurnFindsNothing(t) ==
    /\ turn[t].pc = "told"
    /\ job[turn[t].job].phase # "unread"
    /\ turn' = [turn EXCEPT ![t] = IdleTurn]
    /\ UNCHANGED <<job, out, gate, proc, egress, clock, answers>>

(* file_report looks at the status, then files the report and its row ...  *)
TurnReports(t) ==
    /\ turn[t].pc = "holding"
    /\ turn' = IF job[turn[t].job].status = "running"
               THEN [turn EXCEPT ![t].pc = "filing"]
               ELSE [turn EXCEPT ![t] = IdleTurn]
    /\ UNCHANGED <<job, out, gate, proc, egress, clock, answers>>

(* ... and finishes whatever job has the id by then.                       *)
TurnFinishes(t) ==
    LET j == turn[t].job IN
    /\ turn[t].pc = "filing"
    /\ SetEnded(j, "done")
    /\ turn' = IF j \in Quiet THEN [turn EXCEPT ![t] = IdleTurn]
               ELSE [turn EXCEPT ![t].pc = "replying"]
    /\ UNCHANGED <<out, gate, proc, egress, clock, answers>>

(* The owner reads the answer.  Two is "more than one".                    *)
TurnReplies(t) ==
    LET j == turn[t].job IN
    /\ turn[t].pc = "replying"
    /\ answers' = IF job[j].at # turn[t].at \/ answers[j] = 2 THEN answers
                  ELSE [answers EXCEPT ![j] = @ + 1]
    /\ turn' = [turn EXCEPT ![t] = IdleTurn]
    /\ UNCHANGED <<job, out, gate, proc, egress, clock>>

-----------------------------------------------------------------------------
(***************************************************************************)
(* Time and failures.                                                      *)
(***************************************************************************)

(* The lease (30 min) outlasts a drain turn (15 min), unless the operator  *)
(* set them otherwise: "slow-turn".                                        *)
LeaseLapses(j) ==
    /\ job[j].status = "running"
    /\ job[j].phase = "read"
    /\ \/ "slow-turn" \in Events
       \/ \A t \in Turns : turn[t].job = j => turn[t].pc = "told"
    /\ job' = [job EXCEPT ![j].phase = "lapsed"]
    /\ gate' = [g \in Gates |-> IF gate[g].pc = "idle" THEN gate[g]
                                ELSE [gate[g] EXCEPT !.late = @ \cup {j}]]
    /\ UNCHANGED <<out, proc, turn, egress, clock, answers>>

(* Two weeks pass over a finished job: longer than any process lives.      *)
Ages(j) ==
    /\ "ages" \in Events
    /\ job[j].status \in Ended
    /\ \A r \in Runs : proc[r].job # j
    /\ \A t \in Turns : turn[t].job # j
    /\ \A g \in Gates : gate[g].pc = "idle"
    /\ job' = [job EXCEPT ![j].aged = TRUE]
    /\ UNCHANGED <<out, gate, proc, turn, egress, clock, answers>>

EgressFlips ==
    /\ "egress" \in Events
    /\ egress' = ~egress
    /\ UNCHANGED <<job, out, gate, proc, turn, clock, answers>>

GateKilled(g) ==
    /\ "gate-killed" \in Events
    /\ gate[g].pc # "idle"
    /\ gate' = [gate EXCEPT ![g] = IdleGate]
    /\ UNCHANGED <<job, out, proc, turn, egress, clock, answers>>

(* ... between the start of the runner and the save that names it.         *)
GateKilledStarting(g, r) ==
    /\ "gate-killed" \in Events
    /\ gate[g].pc = "picked"
    /\ Fresh(r)
    /\ \E c \in gate[g].ready :
          /\ MayStart(g, c.id)
          /\ Spawn(r, c.id)
    /\ gate' = [gate EXCEPT ![g] = IdleGate]
    /\ UNCHANGED <<job, out, turn, egress, clock, answers>>

(* Only the runner: its handler has a session of its own and goes on.      *)
RunnerKilled(r) ==
    /\ "runner-killed" \in Events
    /\ proc[r].up
    /\ proc' = [proc EXCEPT
                   ![r] = IF @.pc \in {"spawned", "checked", "exited"}
                          THEN FreeProc ELSE [@ EXCEPT !.up = FALSE]]
    /\ out' = IF proc[r].pc = "exited" THEN Left(r) ELSE out
    /\ UNCHANGED <<job, gate, turn, egress, clock, answers>>

(* The gateway container: every process of the queue with it.              *)
GatewayRestarts ==
    /\ "restart" \in Events
    /\ proc' = [r \in Runs |-> FreeProc]
    /\ gate' = [g \in Gates |-> IdleGate]
    /\ turn' = [t \in Turns |-> IdleTurn]
    /\ out' = [j \in Jobs |-> [out[j] EXCEPT !.by = {}]]
    /\ UNCHANGED <<job, egress, clock, answers>>

(* The handler crashes, or runs over JOBQ_RUN_MINUTES and is killed.       *)
HandlerDies(r) ==
    /\ "handler-dies" \in Events
    /\ proc[r].pc \in {"launched", "fetching", "failing"}
    /\ proc' = Died(r)
    /\ UNCHANGED <<job, out, gate, turn, egress, clock, answers>>

(* It does so after it reported, before it printed or before it exits.     *)
HandlerLosesAnswer(r) ==
    /\ "answer-lost" \in Events
    /\ proc[r].pc \in {"ended", "exited"}
    /\ proc[r].text \in {"reply", "material"}
    /\ proc' = Died(r)
    /\ UNCHANGED <<job, out, gate, turn, egress, clock, answers>>

(* The turn ends without reading, or without reporting on what it read.    *)
TurnQuits(t) ==
    /\ "turn-quits" \in Events
    /\ turn[t].pc \in {"told", "holding"}
    /\ turn' = [turn EXCEPT ![t] = IdleTurn]
    /\ UNCHANGED <<job, out, gate, proc, egress, clock, answers>>

(* It ends with the owner's answer in hand.                                *)
TurnLosesAnswer(t) ==
    /\ "answer-lost" \in Events
    /\ turn[t].pc \in {"filing", "replying"}
    /\ turn' = [turn EXCEPT ![t] = IdleTurn]
    /\ UNCHANGED <<job, out, gate, proc, egress, clock, answers>>

-----------------------------------------------------------------------------
GateStep(g) ==
    \/ \E t \in Turns : GateOffers(g, t) \/ GateWithdraws(g, t)
                        \/ GateGivesUp(g, t)
    \/ GateCollects(g)
    \/ GatePicks(g)
    \/ GateSkips(g)
    \/ \E r \in Runs : GateStarts(g, r)
    \/ GateTooLate(g)

ProcStep(r) ==
    \/ RunnerChecks(r)
    \/ RunnerOpens(r)
    \/ RunnerRecords(r)
    \/ HandlerBegins(r)
    \/ HandlerFinishes(r)
    \/ HandlerPrints(r)
    \/ HandlerReleases(r)
    \/ HandlerRetries(r)
    \/ HandlerFails(r)
    \/ HandlerExits(r)
    \/ OrphanEnds(r)

TurnStep(t) ==
    \/ TurnReads(t)
    \/ TurnFindsNothing(t)
    \/ TurnReports(t)
    \/ TurnFinishes(t)
    \/ TurnReplies(t)

ClientStep == OnlyPrunes \/ \E j \in Jobs : Add(j) \/ Drop(j)

Environment ==
    \/ \E j \in Jobs : LeaseLapses(j) \/ Ages(j)
    \/ EgressFlips
    \/ \E g \in Gates : GateKilled(g)
                        \/ \E r \in Runs : GateKilledStarting(g, r)
    \/ GatewayRestarts
    \/ \E r \in Runs : \/ RunnerKilled(r)
                       \/ HandlerDies(r)
                       \/ HandlerLosesAnswer(r)
    \/ \E t \in Turns : TurnQuits(t) \/ TurnLosesAnswer(t)

Next ==
    \/ \E g \in Gates : GateStep(g)
    \/ \E r \in Runs : ProcStep(r)
    \/ \E t \in Turns : TurnStep(t)
    \/ ClientStep
    \/ Environment

Spec == Init /\ [][Next]_vars

(* The cron row runs the gate every two minutes, a process that is not     *)
(* killed goes on, a turn ends, and time passes.                           *)
Fairness ==
    /\ \A g \in Gates : WF_vars(GateStep(g))
    /\ \A r \in Runs : WF_vars(ProcStep(r))
    /\ \A t \in Turns : WF_vars(TurnStep(t))
    /\ \A j \in Jobs : WF_vars(LeaseLapses(j))

FairSpec == Spec /\ Fairness
-----------------------------------------------------------------------------
(***************************************************************************)
(* Properties.                                                             *)
(***************************************************************************)

(* Every file and process record has the fields and values the code gives  *)
(* it.                                                                     *)
TypeOK ==
    /\ job \in [Jobs -> JobRecord]
    /\ out \in [Jobs -> Output]
    /\ gate \in [Gates -> GateRecord]
    /\ proc \in [Runs -> ProcRecord]
    /\ turn \in [Turns -> TurnRecord]
    /\ egress \in BOOLEAN
    /\ clock \in 0..MaxAdds
    /\ answers \in [Jobs -> 0..2]

(* At most one job is running that somebody will still report back for,    *)
(* however gates, drops, crashes and late reports interleave.              *)
OneLive ==
    \A i, j \in Jobs :
        /\ job[i].status = "running" /\ ~Stale(i, {})
        /\ job[j].status = "running" /\ ~Stale(j, {})
        => i = j

(* An answer the record offers to a turn is on disk: no other run of the   *)
(* job has emptied the file since.                                         *)
UnreadHasOutput ==
    \A j \in Jobs : job[j].phase = "unread" => out[j].says # "none"

(* A private answer is on disk only while its job offers it to a turn, or  *)
(* while the run that printed it is not recorded: one read, withdrawn, or  *)
(* of a replaced or forgotten job is not kept, whoever still prints.       *)
OutputOnlyWhileUnread ==
    \A j \in Jobs : out[j].says # "none" => job[j].phase \in {"started", "unread"}

(* With one gate, no job is ever started more than MaxAttempts times, and  *)
(* one that waits in the queue has a try left.                             *)
AttemptsBounded ==
    \A j \in Jobs :
        /\ job[j].attempts <= MaxAttempts
        /\ job[j].status = "queued" => job[j].attempts < MaxAttempts

(* At most one handler is fetching or transcribing at a time.              *)
FetchesAlone ==
    \A r, s \in Runs :
        proc[r].pc = "fetching" /\ proc[s].pc = "fetching" => r = s

(* Somebody still holds a final message for the owner about job j.         *)
InHand(j) ==
    \/ job[j].phase = "unread"
    \/ job[j].phase = "started" /\ Alive(job[j].run)
    \/ \E t \in Turns : /\ turn[t].pc = "replying"
                        /\ turn[t].job = j
                        /\ turn[t].at = job[j].at

(* A job whose owner waits for an answer never ends unreported.            *)
NoSilentEnd ==
    \A j \in Jobs \ Quiet :
        job[j].status \in Ended => answers[j] >= 1 \/ InHand(j)

(* What an owner sees of the queue: each request pending, ended once, and  *)
(* then answered at most once.                                             *)
Owners == INSTANCE Requests WITH
    ticket <- [j \in Jobs |-> CASE job[j].status = "absent" -> "none"
                                [] job[j].status \in Live -> "pending"
                                [] OTHER -> job[j].status],
    told <- [j \in Jobs |-> IF job[j].status = "absent" THEN 0 ELSE answers[j]]

(* However runs, crashes and re-offers interleave, a verdict stands until  *)
(* the request is made anew, no owner is told before it, and none is told  *)
(* twice.                                                                  *)
ImplementsRequests == Owners!Spec

(* The run that job j's record names has been started, and its handler has *)
(* not come to its end.                                                    *)
WorkedOn(j) ==
    \E r \in Runs : /\ proc[r].pc \in {"spawned", "checked", "launched",
                                       "fetching", "failing"}
                    /\ proc[r].job = j
                    /\ job[j].run = r

(* What a producer sees of the queue: its jobs and the one worked on.      *)
Producer == INSTANCE Worklist WITH
    status <- [j \in Jobs |-> job[j].status],
    working <- {j \in Jobs : WorkedOn(j)}

(* However gates, restarts, re-offers and late reports interleave, one job *)
(* at a time is worked on, and it stays running until its own handler says *)
(* otherwise: no gate, report or cancellation ends it or starts another.   *)
ImplementsWorklist == Producer!Spec

(* What is filed as a job's answer was printed by a run started for this   *)
(* very request, never by one that an earlier request left behind.         *)
AnswerOfThisRequest ==
    [][\A j \in Jobs :
          job[j].phase # "unread" /\ job'[j].phase = "unread"
              => out'[j].for = job[j].at]_vars

(* Once the egress stays up, every queued job ends (or is dropped).        *)
EveryJobEnds ==
    \A j \in Jobs :
        <>[]egress => (job[j].status = "queued" ~> job[j].status \notin Live)

(* ... and its owner, who waits for it, gets the answer.                   *)
EveryJobAnswered ==
    \A j \in Jobs \ Quiet :
        <>[]egress => (job[j].status = "queued"
                          ~> job[j].status = "absent" \/ answers[j] = 1)
=============================================================================
