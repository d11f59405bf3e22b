--------------------------- MODULE JobQueue_proofs ---------------------------
(***************************************************************************)
(* Proofs about the shared job queue, for any set of jobs, processes,      *)
(* gates and turns.  The first part holds whatever the environment does;   *)
(* the second assumes the deployed system (Deployed), where the queue      *)
(* implements what its owners are promised, and the last theorem that      *)
(* nothing dies with an answer in hand (Calm).                             *)
(***************************************************************************)
EXTENDS JobQueue, TLAPS

-----------------------------------------------------------------------------
LEMMA NoFileType == NoFile \in Output
  BY DEF NoFile, Output

(* Pruning leaves a job as it is or removes an ended one.                  *)
LEMMA KeptLemma ==
    ASSUME TypeOK
    PROVE  /\ Kept \in [Jobs -> JobRecord]
           /\ KeptOut \in [Jobs -> Output]
           /\ \A j \in Jobs :
                 \/ Kept[j] = job[j] /\ KeptOut[j] = out[j]
                 \/ /\ Kept[j] = Absent /\ KeptOut[j] = NoFile
                    /\ job[j].status \in Ended
  <1>1. Absent \in JobRecord
    BY DEF Absent, JobRecord, Phases
  <1>2. NoFile \in Output
    BY NoFileType
  <1>. QED
    BY <1>1, <1>2 DEF TypeOK, Kept, KeptOut, Prunable

(* The oldest ticket of a set of jobs is one of them, as its record says.  *)
LEMMA OldestLemma ==
    ASSUME TypeOK, NEW S \in SUBSET Jobs, NEW c \in Oldest(Tickets(S))
    PROVE  c \in Ticket /\ c.id \in S /\ c.id \in Jobs /\ c.at = job[c.id].at
  <1>1. PICK j \in S : c = [id |-> j, at |-> job[j].at]
    BY DEF Oldest, Tickets
  <1>2. job[j].at \in Nat
    BY DEF TypeOK, JobRecord
  <1>. QED
    BY <1>1, <1>2 DEF Ticket

-----------------------------------------------------------------------------
(* Type correctness: every record the files and processes hold is one the  *)
(* code can write.                                                         *)
LEMMA InitTypeOK == Init => TypeOK
  BY QueueAssumption
  DEF Init, TypeOK, Absent, JobRecord, Phases, NoFile, Output, GateRecord, ProcRecord,
      TurnRecord, Live, Ended

LEMMA GateTypeOK ==
    ASSUME TypeOK, NEW g \in Gates, GateStep(g)
    PROVE  TypeOK'
  <1>. USE DEF Live, Ended
  <1>1. ASSUME NEW t \in Turns, GateOffers(g, t)
        PROVE  TypeOK'
    <2>1. PICK c \in Oldest(Tickets(Unread)) :
             /\ job' = [Kept EXCEPT ![c.id].offers = @ + 1]
             /\ turn' = [turn EXCEPT ![t] = [pc |-> "told", job |-> c.id,
                                             at |-> c.at]]
      BY <1>1 DEF GateOffers
    <2>2. c \in Ticket /\ c.id \in Jobs
      BY OldestLemma DEF Unread
    <2>3. job' \in [Jobs -> JobRecord]
      BY <2>1, <2>2, KeptLemma DEF JobRecord
    <2>4. turn' \in [Turns -> TurnRecord]
      BY <2>1, <2>2 DEF TypeOK, TurnRecord, Ticket
    <2>. QED
      BY <1>1, <2>3, <2>4, KeptLemma DEF GateOffers, TypeOK
  <1>2. ASSUME NEW t \in Turns, GateWithdraws(g, t)
        PROVE  TypeOK'
    <2>1. PICK c \in Oldest(Tickets(Unread)) :
             /\ job' = [Kept EXCEPT
                          ![c.id].phase = "empty",
                          ![c.id].status = IF @ = "running" THEN "failed" ELSE @]
             /\ out' = [KeptOut EXCEPT ![c.id] = NoFile]
             /\ TellGivenUp(t, c)
      BY <1>2 DEF GateWithdraws
    <2>2. c \in Ticket /\ c.id \in Jobs
      BY OldestLemma DEF Unread
    <2>3. job' \in [Jobs -> JobRecord]
      BY <2>1, <2>2, KeptLemma DEF JobRecord, Phases
    <2>4. turn' \in [Turns -> TurnRecord]
      BY <2>1, <2>2 DEF TypeOK, TurnRecord, Ticket, TellGivenUp
    <2>5. out' \in [Jobs -> Output]
      BY <2>1, <2>2, KeptLemma, NoFileType
    <2>. QED
      BY <1>2, <2>3, <2>4, <2>5 DEF GateWithdraws, TypeOK
  <1>3. ASSUME NEW t \in Turns, GateGivesUp(g, t)
        PROVE  TypeOK'
    <2>1. PICK c \in Oldest(Tickets(Exhausted)) :
             /\ job' = [Kept EXCEPT ![c.id].status = "failed"]
             /\ TellGivenUp(t, c)
      BY <1>3 DEF GateGivesUp
    <2>2. c \in Ticket /\ c.id \in Jobs
      BY OldestLemma DEF Exhausted, Runnable
    <2>3. job' \in [Jobs -> JobRecord]
      BY <2>1, <2>2, KeptLemma DEF JobRecord
    <2>4. turn' \in [Turns -> TurnRecord]
      BY <2>1, <2>2 DEF TypeOK, TurnRecord, Ticket, TellGivenUp
    <2>. QED
      BY <1>3, <2>3, <2>4, KeptLemma DEF GateGivesUp, TypeOK
  <1>4. CASE GateCollects(g)
    <2>1. Tickets(Runnable({})) \in SUBSET Ticket
      BY DEF Tickets, Runnable, Ticket, TypeOK, JobRecord
    <2>2. gate' \in [Gates -> GateRecord]
      BY <1>4, <2>1 DEF GateCollects, TypeOK, GateRecord
    <2>. QED
      BY <1>4, <2>2, KeptLemma DEF GateCollects, TypeOK
  <1>5. CASE GatePicks(g)
    <2>1. gate[g] \in [pc: {"probing", "picked"}, ready: SUBSET Ticket,
                       late: SUBSET Jobs]
      BY <1>5 DEF GatePicks, TypeOK, GateRecord, IdleGate
    <2>2. PICK c \in Oldest(gate[g].ready) :
             gate' = [gate EXCEPT ![g].pc = "picked", ![g].ready = {c}]
      BY <1>5 DEF GatePicks
    <2>. DEFINE m == [gate[g] EXCEPT !.pc = "picked"]
                n == [m EXCEPT !.ready = {c}]
    <2>3. n \in GateRecord
      <3>1. /\ m \in [pc: {"probing", "picked"}, ready: SUBSET Ticket,
                       late: SUBSET Jobs]
            /\ c \in Ticket
        BY <2>1 DEF Oldest
      <3>. HIDE DEF m
      <3>. QED
        BY <3>1 DEF GateRecord
    <2>4. gate' = [gate EXCEPT ![g] = n]
      BY <2>2 DEF TypeOK
    <2>. QED
      BY <1>5, <2>3, <2>4 DEF GatePicks, TypeOK
  <1>6. CASE GateSkips(g)
    <2>. DEFINE left == {d \in gate[g].ready : d.id \notin NeedsEgress}
                n == IF left = {} THEN IdleGate
                     ELSE [gate[g] EXCEPT !.ready = left]
    <2>1. gate[g] \in [pc: {"probing", "picked"}, ready: SUBSET Ticket,
                       late: SUBSET Jobs]
      BY <1>6 DEF GateSkips, TypeOK, GateRecord, IdleGate
    <2>2. n \in GateRecord
      BY <2>1 DEF GateRecord
    <2>3. gate' = [gate EXCEPT ![g] = n]
      BY <1>6 DEF GateSkips
    <2>. QED
      BY <1>6, <2>2, <2>3 DEF GateSkips, TypeOK
  <1>7. ASSUME NEW r \in Runs, GateStarts(g, r)
        PROVE  TypeOK'
    <2>1. gate[g] \in [pc: {"probing", "picked"}, ready: SUBSET Ticket,
                       late: SUBSET Jobs]
      BY <1>7 DEF GateStarts, TypeOK, GateRecord, IdleGate
    <2>2. PICK c \in gate[g].ready :
             /\ Spawn(r, c.id)
             /\ job' = [job EXCEPT ![c.id] = Claimed(c.id, r)]
      BY <1>7 DEF GateStarts
    <2>3. c.id \in Jobs
      BY <2>1 DEF Ticket
    <2>4. job' \in [Jobs -> JobRecord]
      <3>1. Claimed(c.id, r) \in JobRecord
        BY <2>3 DEF TypeOK, JobRecord, Phases, Claimed
      <3>. QED
        BY <2>2, <2>3, <3>1 DEF TypeOK
    <2>5. proc' \in [Runs -> ProcRecord]
      BY <2>2, <2>3 DEF Spawn, TypeOK, ProcRecord, JobRecord
    <2>. QED
      BY <1>7, <2>4, <2>5 DEF GateStarts, TypeOK, GateRecord
  <1>8. CASE GateTooLate(g)
    BY <1>8 DEF GateTooLate, TypeOK, GateRecord
  <1>. QED
    BY <1>1, <1>2, <1>3, <1>4, <1>5, <1>6, <1>7, <1>8 DEF GateStep

(* A process that is not free works on a job.                              *)
LEMMA BusyProc ==
    ASSUME TypeOK, NEW r \in Runs, proc[r].pc # "free"
    PROVE  /\ proc[r] \in
                 [pc: {"spawned", "checked", "launched", "fetching",
                       "failing", "ended", "exited"},
                  job: Jobs, at: Nat, up: BOOLEAN,
                  text: {"none", "reply", "material", "dead"}]
           /\ proc[r].job \in Jobs
           /\ proc[r].pc \notin {"ended", "exited"} => proc[r].text = "none"
           /\ proc[r].pc = "ended" => proc[r].text \in {"reply", "material"}
  <1>1. proc[r] \in ProcRecord /\ proc[r] # FreeProc
    BY DEF TypeOK, FreeProc
  <1>. QED
    BY <1>1 DEF ProcRecord

LEMMA SetEndedType ==
    ASSUME TypeOK, NEW j \in Jobs, NEW v \in Ended, SetEnded(j, v)
    PROVE  job' \in [Jobs -> JobRecord]
  <1>. DEFINE n == [job[j] EXCEPT !.status = v, !.aged = FALSE]
  <1>1. n \in JobRecord
    <2>. DEFINE q == [job[j] EXCEPT !.status = v]
    <2>1. q \in JobRecord
      BY DEF TypeOK, JobRecord
    <2>2. [q EXCEPT !.aged = FALSE] \in JobRecord
      <3>. HIDE DEF q
      <3>. QED
        BY <2>1 DEF JobRecord
    <2>. QED
      BY <2>2
  <1>2. job' = job \/ job' = [job EXCEPT ![j] = n]
    BY DEF SetEnded, TypeOK
  <1>. QED
    BY <1>1, <1>2 DEF TypeOK

(* What a handler that ends puts into the process record.                  *)
LEMMA LastWordType ==
    ASSUME TypeOK, NEW r \in Runs, proc[r].pc # "free",
           NEW p \in {"ended", "exited"},
           NEW x \in {"none", "reply", "material", "dead"},
           p = "ended" => x \in {"reply", "material"},
           proc' = [proc EXCEPT ![r].pc = p, ![r].text = x]
    PROVE  proc' \in [Runs -> ProcRecord]
  <1>. DEFINE q == [proc[r] EXCEPT !.pc = p]
  <1>1. /\ q \in [pc: {p}, job: Jobs, at: Nat, up: BOOLEAN,
                  text: {"none", "reply", "material", "dead"}]
        /\ q.pc = p
    BY BusyProc
  <1>2. [q EXCEPT !.text = x] \in [pc: {p}, job: Jobs, at: Nat, up: BOOLEAN,
                                  text: {x}]
    <2>. HIDE DEF q
    <2>. QED
      BY <1>1
  <1>3. [q EXCEPT !.text = x] \in ProcRecord
    BY <1>2 DEF ProcRecord
  <1>4. proc' = [proc EXCEPT ![r] = [q EXCEPT !.text = x]]
    BY DEF TypeOK
  <1>. QED
    BY <1>3, <1>4 DEF TypeOK

LEMMA EndProcType ==
    ASSUME TypeOK, NEW r \in Runs, proc[r].pc # "free",
           \/ \E x \in {"none", "reply", "material"} : proc' = EndProc(r, x)
           \/ proc' = Died(r)
    PROVE  proc' \in [Runs -> ProcRecord]
  <1>1. ASSUME NEW x \in {"none", "reply", "material"}, proc' = EndProc(r, x)
        PROVE  proc' \in [Runs -> ProcRecord]
    <2>. DEFINE p == IF x = "none" THEN "exited" ELSE "ended"
    <2>1. /\ p \in {"ended", "exited"}
          /\ p = "ended" => x \in {"reply", "material"}
          /\ proc' = [proc EXCEPT ![r].pc = p, ![r].text = x]
      BY <1>1 DEF EndProc
    <2>. HIDE DEF p
    <2>. QED
      BY <2>1, LastWordType
  <1>2. CASE proc' = Died(r)
    BY <1>2, LastWordType DEF Died
  <1>. QED
    BY <1>1, <1>2

LEMMA SayType == \A j : Say(j) \in {"none", "reply", "material"}
  BY DEF Say

(* What a process may make of its job's file.                              *)
LEMMA FileType ==
    ASSUME TypeOK, NEW r \in Runs, proc[r].pc # "free"
    PROVE  /\ Opened(r) \in [Jobs -> Output]
           /\ Left(r) \in [Jobs -> Output]
  <1>. DEFINE k == proc[r].job
  <1>1. k \in Jobs /\ out[k] \in Output
    BY BusyProc DEF TypeOK
  <1>2. [says |-> "none", for |-> 0, by |-> out[k].by \cup {r}] \in Output
    BY <1>1 DEF Output
  <1>3. [out[k] EXCEPT !.by = @ \ {r}] \in Output
    BY <1>1 DEF Output
  <1>. QED
    BY <1>1, <1>2, <1>3 DEF Opened, Left, TypeOK

LEMMA ProcTypeOK ==
    ASSUME TypeOK, NEW r \in Runs, ProcStep(r)
    PROVE  TypeOK'
  <1>. DEFINE k == proc[r].job
  <1>1. CASE RunnerChecks(r)
    <2>1. [proc[r] EXCEPT !.pc = "checked"] \in ProcRecord /\ FreeProc \in ProcRecord
      BY <1>1, BusyProc DEF RunnerChecks, ProcRecord
    <2>. QED
      BY <1>1, <2>1 DEF RunnerChecks, TypeOK
  <1>2. CASE RunnerRecords(r)
    <2>1. k \in Jobs /\ proc[r].pc # "free"
      BY <1>2, BusyProc DEF RunnerRecords
    <2>2. job' \in [Jobs -> JobRecord]
      <3>1. Recorded(k, Said(r)) \in JobRecord
        BY <2>1 DEF Recorded, TypeOK, JobRecord, Phases
      <3>. QED
        BY <1>2, <2>1, <3>1 DEF RunnerRecords, TypeOK
    <2>3. out' \in [Jobs -> Output]
      BY <1>2, <2>1, FileType, NoFileType DEF RunnerRecords, TypeOK
    <2>. QED
      BY <1>2, <2>2, <2>3 DEF RunnerRecords, TypeOK, ProcRecord
  <1>3. CASE HandlerBegins(r)
    <2>1. proc[r].pc # "free"
      BY <1>3 DEF HandlerBegins
    <2>2. ASSUME proc' = [proc EXCEPT ![r].pc = "fetching"]
          PROVE  proc' \in [Runs -> ProcRecord]
      <3>1. [proc[r] EXCEPT !.pc = "fetching"] \in ProcRecord
        BY <1>3, <2>1, BusyProc DEF HandlerBegins, ProcRecord
      <3>. QED
        BY <2>2, <3>1 DEF TypeOK
    <2>3. ASSUME proc' = EndProc(r, "none")
          PROVE  proc' \in [Runs -> ProcRecord]
      BY <2>1, <2>3, EndProcType
    <2>. QED
      BY <1>3, <2>2, <2>3 DEF HandlerBegins, TypeOK
  <1>4. CASE HandlerFinishes(r)
    <2>1. k \in Jobs /\ proc[r].pc # "free"
      BY <1>4, BusyProc DEF HandlerFinishes
    <2>2. job' \in [Jobs -> JobRecord]
      BY <1>4, <2>1, SetEndedType DEF HandlerFinishes, Ended
    <2>3. proc' \in [Runs -> ProcRecord]
      BY <1>4, <2>1, SayType, EndProcType DEF HandlerFinishes
    <2>. QED
      BY <1>4, <2>2, <2>3 DEF HandlerFinishes, TypeOK
  <1>5. CASE HandlerPrints(r)
    BY <1>5, EndProcType DEF HandlerPrints, TypeOK
  <1>6. CASE HandlerReleases(r)
    <2>1. k \in Jobs
      BY <1>6, BusyProc DEF HandlerReleases
    <2>2. job' \in [Jobs -> JobRecord]
      <3>. DEFINE n == [job[k] EXCEPT !.status = "queued",
                                      !.attempts = Uncounted(@)]
      <3>1. Uncounted(job[k].attempts) \in Nat
        BY <2>1 DEF Uncounted, TypeOK, JobRecord
      <3>2. n \in JobRecord
        <4>. DEFINE q == [job[k] EXCEPT !.status = "queued"]
        <4>1. q \in JobRecord /\ q.attempts = job[k].attempts
          BY <2>1 DEF TypeOK, JobRecord, Live
        <4>2. [q EXCEPT !.attempts = Uncounted(q.attempts)] \in JobRecord
          <5>. HIDE DEF q
          <5>. QED
            BY <3>1, <4>1 DEF JobRecord
        <4>. QED
          BY <4>2
      <3>3. job' = job \/ job' = [job EXCEPT ![k] = n]
        BY <1>6, <2>1 DEF HandlerReleases, TypeOK
      <3>. QED
        BY <2>1, <3>2, <3>3 DEF TypeOK
    <2>. QED
      BY <1>6, <2>2, EndProcType DEF HandlerReleases, TypeOK
  <1>7. CASE HandlerRetries(r)
    <2>1. k \in Jobs /\ proc[r].pc # "free"
      BY <1>7, BusyProc DEF HandlerRetries
    <2>2. job' \in [Jobs -> JobRecord]
      <3>1. [job[k] EXCEPT !.status = "queued"] \in JobRecord
        BY <2>1 DEF TypeOK, JobRecord, Live
      <3>2. job' = job \/ job' = [job EXCEPT ![k] = [job[k] EXCEPT !.status = "queued"]]
        BY <1>7, <2>1, SMTT(30) DEF HandlerRetries
      <3>. QED
        BY <2>1, <3>1, <3>2 DEF TypeOK
    <2>3. proc' \in [Runs -> ProcRecord]
      <3>1. ASSUME proc' = [proc EXCEPT ![r].pc = "failing"]
            PROVE  proc' \in [Runs -> ProcRecord]
        <4>1. [proc[r] EXCEPT !.pc = "failing"] \in ProcRecord
          BY <1>7, <2>1, BusyProc DEF HandlerRetries, ProcRecord
        <4>. QED
          BY <3>1, <4>1 DEF TypeOK
      <3>2. ASSUME NEW x \in {"none", "reply", "material"}, proc' = EndProc(r, x)
            PROVE  proc' \in [Runs -> ProcRecord]
        BY <2>1, <3>2, EndProcType
      <3>3. Say(k) \in {"none", "reply", "material"}
        BY SayType
      <3>. QED
        BY <1>7, <3>1, <3>2, <3>3 DEF HandlerRetries
    <2>. QED
      BY <1>7, <2>2, <2>3 DEF HandlerRetries, TypeOK
  <1>8. CASE HandlerFails(r)
    <2>1. k \in Jobs /\ proc[r].pc # "free"
      BY <1>8, BusyProc DEF HandlerFails
    <2>2. job' \in [Jobs -> JobRecord]
      BY <1>8, <2>1, SetEndedType DEF HandlerFails, Ended
    <2>3. proc' \in [Runs -> ProcRecord]
      BY <1>8, <2>1, SayType, EndProcType DEF HandlerFails
    <2>. QED
      BY <1>8, <2>2, <2>3 DEF HandlerFails, TypeOK
  <1>9. CASE OrphanEnds(r)
    BY <1>9, FileType DEF OrphanEnds, TypeOK, ProcRecord
  <1>10. CASE RunnerOpens(r)
    <2>1. [proc[r] EXCEPT !.pc = "launched"] \in ProcRecord
      BY <1>10, BusyProc DEF RunnerOpens, ProcRecord
    <2>. QED
      BY <1>10, <2>1, FileType DEF RunnerOpens, TypeOK
  <1>11. CASE HandlerExits(r)
    <2>1. /\ [proc[r] EXCEPT !.pc = "exited"] \in ProcRecord
          /\ k \in Jobs /\ proc[r].at \in Nat
          /\ proc[r].text \in {"reply", "material"}
      BY <1>11, BusyProc DEF HandlerExits, ProcRecord
    <2>3. out' \in [Jobs -> Output]
      <3>. DEFINE q == [out[k] EXCEPT !.says = proc[r].text]
      <3>1. q \in Output
        BY <2>1 DEF TypeOK, Output
      <3>2. [q EXCEPT !.for = proc[r].at] \in Output
        <4>. HIDE DEF q
        <4>. QED
          BY <2>1, <3>1 DEF Output
      <3>3. out' = out \/ out' = [out EXCEPT ![k] = [q EXCEPT !.for = proc[r].at]]
        BY <1>11, <2>1 DEF HandlerExits, TypeOK
      <3>. QED
        BY <2>1, <3>2, <3>3 DEF TypeOK
    <2>. QED
      BY <1>11, <2>1, <2>3 DEF HandlerExits, TypeOK
  <1>. QED
    BY <1>1, <1>2, <1>3, <1>4, <1>5, <1>6, <1>7, <1>8, <1>9, <1>10, <1>11
    DEF ProcStep

(* A turn that is not idle works on a job.                                 *)
LEMMA BusyTurn ==
    ASSUME TypeOK, NEW t \in Turns, turn[t].pc # "idle"
    PROVE  /\ turn[t] \in [pc: {"told", "holding", "filing", "replying"},
                           job: Jobs, at: Nat]
           /\ turn[t].job \in Jobs
  <1>1. turn[t] \in TurnRecord /\ turn[t] # IdleTurn
    BY DEF TypeOK, IdleTurn
  <1>. QED
    BY <1>1 DEF TurnRecord

LEMMA TurnTypeOK ==
    ASSUME TypeOK, NEW t \in Turns, TurnStep(t)
    PROVE  TypeOK'
  <1>. DEFINE j == turn[t].job
  <1>1. CASE TurnReads(t)
    <2>1. /\ j \in Jobs
          /\ turn[t] \in [pc: {"told", "holding", "filing", "replying"},
                          job: Jobs, at: Nat]
      BY <1>1, BusyTurn DEF TurnReads
    <2>2. job' \in [Jobs -> JobRecord]
      <3>1. [job[j] EXCEPT !.phase = "read"] \in JobRecord
        BY <2>1 DEF TypeOK, JobRecord, Phases
      <3>. QED
        BY <1>1, <2>1, <3>1 DEF TurnReads, TypeOK
    <2>3. turn' \in [Turns -> TurnRecord]
      <3>. DEFINE Reading(p) == [[turn[t] EXCEPT !.pc = p] EXCEPT !.at = job[j].at]
      <3>1. \A p \in {"replying", "holding"} : Reading(p) \in TurnRecord
        <4>. SUFFICES ASSUME NEW p \in {"replying", "holding"}
                      PROVE  Reading(p) \in TurnRecord
          OBVIOUS
        <4>. DEFINE m == [turn[t] EXCEPT !.pc = p]
        <4>1. /\ m \in [pc: {"told", "holding", "filing", "replying"},
                        job: Jobs, at: Nat]
              /\ job[j].at \in Nat
          BY <2>1 DEF TypeOK, JobRecord
        <4>2. [m EXCEPT !.at = job[j].at] \in TurnRecord
          <5>. HIDE DEF m
          <5>. QED
            BY <4>1 DEF TurnRecord
        <4>. QED
          BY <4>2
      <3>2. IdleTurn \in TurnRecord
        BY DEF TurnRecord
      <3>3. /\ out[j].says \in {"none", "reply", "material"}
            /\ out[j].says = "none" => turn' = [turn EXCEPT ![t] = IdleTurn]
            /\ out[j].says = "reply" =>
                  turn' = [turn EXCEPT ![t] = Reading("replying")]
            /\ out[j].says = "material" =>
                  turn' = [turn EXCEPT ![t] = Reading("holding")]
        <4>1. out[j].says \in {"none", "reply", "material"}
          BY <2>1 DEF TypeOK, Output
        <4>. QED
          BY <1>1, <4>1 DEF TurnReads, TypeOK
      <3>. QED
        BY <3>1, <3>2, <3>3 DEF TypeOK
    <2>. QED
      BY <1>1, <2>1, <2>2, <2>3, NoFileType DEF TurnReads, TypeOK
  <1>2. CASE TurnFindsNothing(t)
    BY <1>2 DEF TurnFindsNothing, TypeOK, TurnRecord
  <1>3. CASE TurnReports(t)
    BY <1>3, BusyTurn DEF TurnReports, TypeOK, TurnRecord
  <1>4. CASE TurnFinishes(t)
    <2>1. j \in Jobs /\ turn[t].pc # "idle"
      BY <1>4, BusyTurn DEF TurnFinishes
    <2>2. job' \in [Jobs -> JobRecord]
      BY <1>4, <2>1, SetEndedType DEF TurnFinishes, Ended
    <2>3. turn' \in [Turns -> TurnRecord]
      BY <1>4, <2>1, BusyTurn DEF TurnFinishes, TypeOK, TurnRecord
    <2>. QED
      BY <1>4, <2>2, <2>3 DEF TurnFinishes, TypeOK
  <1>5. CASE TurnReplies(t)
    <2>1. j \in Jobs
      BY <1>5, BusyTurn DEF TurnReplies
    <2>2. answers' \in [Jobs -> 0..2]
      <3>1. answers[j] \in 0..2
        BY <2>1 DEF TypeOK
      <3>2. CASE answers[j] = 2
        BY <1>5, <3>2 DEF TurnReplies, TypeOK
      <3>3. CASE answers[j] # 2
        <4>1. answers[j] + 1 \in 0..2
          BY <3>1, <3>3
        <4>. QED
          BY <1>5, <2>1, <4>1 DEF TurnReplies, TypeOK
      <3>. QED
        BY <3>2, <3>3
    <2>. QED
      BY <1>5, <2>2 DEF TurnReplies, TypeOK, TurnRecord
  <1>. QED
    BY <1>1, <1>2, <1>3, <1>4, <1>5 DEF TurnStep

LEMMA ClientTypeOK ==
    ASSUME TypeOK, ClientStep
    PROVE  TypeOK'
  <1>1. ASSUME NEW j \in Jobs, Add(j)
        PROVE  TypeOK'
    <2>1. NewRecord(j) \in JobRecord
      <3>1. clock + 1 \in Nat
        BY QueueAssumption DEF TypeOK
      <3>. QED
        BY <3>1 DEF NewRecord, JobRecord, Phases, Live
    <2>2. clock' \in 0..MaxAdds
      BY <1>1, QueueAssumption DEF Add, TypeOK
    <2>3. job' \in [Jobs -> JobRecord]
      BY <1>1, <2>1, KeptLemma DEF Add
    <2>4. out' \in [Jobs -> Output]
      BY <1>1, KeptLemma, NoFileType DEF Add
    <2>5. answers' \in [Jobs -> 0..2]
      BY <1>1 DEF Add, TypeOK
    <2>. QED
      BY <1>1, <2>2, <2>3, <2>4, <2>5 DEF Add, TypeOK
  <1>2. ASSUME NEW j \in Jobs, Drop(j)
        PROVE  TypeOK'
    <2>1. Absent \in JobRecord
      BY DEF Absent, JobRecord, Phases
    <2>. QED
      BY <1>2, <2>1, NoFileType DEF Drop, TypeOK
  <1>3. CASE OnlyPrunes
    BY <1>3, KeptLemma DEF OnlyPrunes, TypeOK
  <1>. QED
    BY <1>1, <1>2, <1>3 DEF ClientStep

LEMMA EnvironmentTypeOK ==
    ASSUME TypeOK, Environment
    PROVE  TypeOK'
  <1>1. ASSUME NEW j \in Jobs, LeaseLapses(j)
        PROVE  TypeOK'
    <2>1. [job[j] EXCEPT !.phase = "lapsed"] \in JobRecord
      BY DEF TypeOK, JobRecord, Phases
    <2>2. job' \in [Jobs -> JobRecord]
      BY <1>1, <2>1 DEF LeaseLapses, TypeOK
    <2>3. ASSUME NEW g \in Gates, gate[g].pc # "idle"
          PROVE  [gate[g] EXCEPT !.late = @ \cup {j}] \in GateRecord
      <3>1. gate[g] \in [pc: {"probing", "picked"}, ready: SUBSET Ticket,
                         late: SUBSET Jobs]
        BY <2>3 DEF TypeOK, GateRecord, IdleGate
      <3>. QED
        BY <3>1 DEF GateRecord
    <2>4. gate' \in [Gates -> GateRecord]
      BY <1>1, <2>3 DEF LeaseLapses, TypeOK
    <2>. QED
      BY <1>1, <2>2, <2>4 DEF LeaseLapses, TypeOK
  <1>2. ASSUME NEW j \in Jobs, Ages(j)
        PROVE  TypeOK'
    <2>1. [job[j] EXCEPT !.aged = TRUE] \in JobRecord
      BY DEF TypeOK, JobRecord
    <2>. QED
      BY <1>2, <2>1 DEF Ages, TypeOK
  <1>3. CASE EgressFlips
    BY <1>3 DEF EgressFlips, TypeOK
  <1>4. ASSUME NEW g \in Gates, GateKilled(g)
        PROVE  TypeOK'
    BY <1>4 DEF GateKilled, TypeOK, GateRecord
  <1>5. ASSUME NEW g \in Gates, NEW r \in Runs, GateKilledStarting(g, r)
        PROVE  TypeOK'
    <2>1. gate[g] \in [pc: {"probing", "picked"}, ready: SUBSET Ticket,
                       late: SUBSET Jobs]
      BY <1>5 DEF GateKilledStarting, TypeOK, GateRecord, IdleGate
    <2>2. PICK c \in gate[g].ready : Spawn(r, c.id)
      BY <1>5 DEF GateKilledStarting
    <2>3. c.id \in Jobs
      BY <2>1 DEF Ticket
    <2>4. proc' \in [Runs -> ProcRecord]
      BY <2>2, <2>3 DEF Spawn, TypeOK, ProcRecord, JobRecord
    <2>. QED
      BY <1>5, <2>4 DEF GateKilledStarting, TypeOK, GateRecord
  <1>6. CASE GatewayRestarts
    <2>1. \A j \in Jobs : [out[j] EXCEPT !.by = {}] \in Output
      BY DEF TypeOK, Output
    <2>. QED
      BY <1>6, <2>1 DEF GatewayRestarts, TypeOK, ProcRecord, GateRecord, TurnRecord
  <1>7. ASSUME NEW r \in Runs, RunnerKilled(r)
        PROVE  TypeOK'
    <2>1. proc[r].pc # "free"
      BY <1>7 DEF RunnerKilled, TypeOK, ProcRecord, FreeProc
    <2>2. [proc[r] EXCEPT !.up = FALSE] \in ProcRecord
      BY <2>1, BusyProc DEF ProcRecord
    <2>3. FreeProc \in ProcRecord
      BY DEF ProcRecord
    <2>. QED
      BY <1>7, <2>1, <2>2, <2>3, FileType DEF RunnerKilled, TypeOK
  <1>8. ASSUME NEW r \in Runs, HandlerDies(r)
        PROVE  TypeOK'
    BY <1>8, EndProcType DEF HandlerDies, TypeOK
  <1>9. ASSUME NEW r \in Runs, HandlerLosesAnswer(r)
        PROVE  TypeOK'
    BY <1>9, EndProcType DEF HandlerLosesAnswer, TypeOK
  <1>10. ASSUME NEW t \in Turns, TurnQuits(t) \/ TurnLosesAnswer(t)
         PROVE  TypeOK'
    BY <1>10 DEF TurnQuits, TurnLosesAnswer, TypeOK, TurnRecord
  <1>. QED
    BY <1>1, <1>2, <1>3, <1>4, <1>5, <1>6, <1>7, <1>8, <1>9, <1>10
    DEF Environment

LEMMA NextTypeOK == TypeOK /\ [Next]_vars => TypeOK'
  <1>1. CASE UNCHANGED vars
    BY <1>1 DEF vars, TypeOK
  <1>. QED
    BY <1>1, GateTypeOK, ProcTypeOK, TurnTypeOK, ClientTypeOK,
       EnvironmentTypeOK DEF Next

(* The records are well-formed in every state of every behaviour.          *)
THEOREM TypeCorrect == Spec => []TypeOK
  BY InitTypeOK, NextTypeOK, PTL DEF Spec

-----------------------------------------------------------------------------
(***************************************************************************)
(* The footprint of a step: all that any step of any process may do to the *)
(* run a record names, to the attempts it counts, to a runner and to what  *)
(* a gate has collected.  The invariants below follow from it alone.       *)
(***************************************************************************)

(* Somebody will still report back for job j.                              *)
Attended(j) == job[j].status = "running" /\ ~Stale(j, {})

SameRun(j) == job'[j].run = job[j].run /\ job'[j].at = job[j].at

Untouched(j) ==
    /\ SameRun(j)
    /\ job'[j].phase = job[j].phase
    /\ job'[j].status = "running" => job[j].status = "running"

Reset(j) ==
    /\ job'[j].run = NoRun
    /\ job'[j].phase = "none"
    /\ job'[j].status # "running"

Consumed(j) ==
    /\ SameRun(j)
    /\ \/ job[j].phase = "unread" /\ job'[j].phase \in {"read", "empty"}
       \/ job[j].phase = "read" /\ job'[j].phase = "lapsed"
    /\ job'[j].status = "running" => job[j].status = "running"

Reported(j) ==
    /\ SameRun(j)
    /\ job[j].run \in Runs
    /\ proc[job[j].run].pc = "exited"
    /\ proc[job[j].run].up
    /\ proc[job[j].run].job = j
    /\ proc'[job[j].run].pc = "free"
    /\ job'[j].phase \in {"empty", "unread"}
    /\ job'[j].phase = "unread" =>
          /\ proc[job[j].run].text # "dead"
          /\ out[j].says # "none" /\ out'[j].for = out[j].for
    /\ job'[j].status = job[j].status

Started(j) ==
    /\ job'[j].run \in Runs
    /\ job'[j].phase = "started"
    /\ job'[j].at = job[j].at
    /\ proc'[job'[j].run].job = j
    /\ proc'[job'[j].run].at = job[j].at
    /\ \A k \in Jobs : ~Attended(k) /\ job[k].run # job'[j].run
    /\ \A k \in Jobs \ {j} : job'[k] = job[k]

JobMove(j) ==
    Untouched(j) \/ Reset(j) \/ Consumed(j) \/ Reported(j) \/ Started(j)

CountMove(j) ==
    \/ job'[j].attempts = 0
    \/ /\ job'[j].attempts <= job[j].attempts
       /\ job'[j].status = "queued" =>
             \/ job[j].status = "queued"
             \/ job'[j].attempts < MaxAttempts
             \/ job'[j].attempts < job[j].attempts
    \/ /\ job'[j].attempts = job[j].attempts + 1
       /\ job'[j].status = "running"
       /\ \E g \in Gates : /\ \E c \in gate[g].ready : c.id = j
                          /\ gate'[g].ready = {}

ProcMove(r) ==
    \/ /\ proc[r].pc # "free"
       /\ proc'[r].pc # "free"
       /\ proc'[r].job = proc[r].job
       /\ proc'[r].at = proc[r].at
       /\ proc'[r].up => proc[r].up
    \/ proc'[r] = FreeProc
    \/ /\ \A j \in Jobs : job[j].run # r
       /\ \A j \in Jobs : job'[j].run = r => j = proc'[r].job /\ Started(j)

GateMove(g) ==
    \/ gate'[g].ready \subseteq gate[g].ready
    \/ /\ gate'[g].ready = Tickets(Runnable({}))
       /\ Exhausted = {}
       /\ \A j \in Jobs : job'[j].attempts \in {0, job[j].attempts}

Footprint ==
    /\ \A j \in Jobs : JobMove(j) /\ CountMove(j)
    /\ \A r \in Runs : ProcMove(r)
    /\ \A g \in Gates : GateMove(g)

(* A step that leaves a job's record alone.                                *)
LEMMA SameJob ==
    ASSUME TypeOK, NEW j \in Jobs, job'[j] = job[j]
    PROVE  JobMove(j) /\ CountMove(j)
  BY DEF TypeOK, JobRecord, JobMove, CountMove, Untouched, SameRun

(* A step that at most changes the offers, the verdict or the age.         *)
LEMMA SameRunJob ==
    ASSUME TypeOK, NEW j \in Jobs, SameRun(j),
           job'[j].phase = job[j].phase,
           job'[j].attempts = job[j].attempts,
           job'[j].status \in {job[j].status, "done", "failed"}
    PROVE  JobMove(j) /\ CountMove(j)
  BY DEF TypeOK, JobRecord, JobMove, CountMove, Untouched

(* A record without a past: pruned, dropped, or queued anew.               *)
LEMMA ResetJob ==
    ASSUME NEW j \in Jobs, job'[j] = Absent \/ job'[j] = NewRecord(j)
    PROVE  JobMove(j) /\ CountMove(j)
  BY DEF Absent, NewRecord, JobMove, CountMove, Reset

LEMMA PrunedJob ==
    ASSUME TypeOK, NEW j \in Jobs, job'[j] = Kept[j]
    PROVE  JobMove(j) /\ CountMove(j)
  BY KeptLemma, SameJob, ResetJob

(* An unpruned record is read as it is.                                    *)
LEMMA UnprunedJob ==
    ASSUME TypeOK, NEW j \in Jobs, ~Prunable(j)
    PROVE  Kept[j] = job[j] /\ KeptOut[j] = out[j]
  BY DEF Kept, KeptOut

LEMMA SameProc ==
    ASSUME TypeOK, NEW r \in Runs, proc'[r] = proc[r]
    PROVE  ProcMove(r)
  <1>1. proc[r].pc = "free" => proc[r] = FreeProc
    BY DEF TypeOK, ProcRecord
  <1>. QED
    BY <1>1 DEF ProcMove

LEMMA SameGate ==
    ASSUME NEW g \in Gates, gate'[g] = gate[g] \/ gate'[g] = IdleGate
    PROVE  GateMove(g)
  BY DEF GateMove, IdleGate

LEMMA SameFiles ==
    ASSUME TypeOK, job' = job, NEW j \in Jobs
    PROVE  JobMove(j) /\ CountMove(j)
  BY SameJob

LEMMA GateFootprint ==
    ASSUME TypeOK, NEW g \in Gates, GateStep(g)
    PROVE  Footprint
  <1>1. ASSUME NEW t \in Turns, GateOffers(g, t)
        PROVE  Footprint
    <2>1. PICK c \in Oldest(Tickets(Unread)) :
             job' = [Kept EXCEPT ![c.id].offers = @ + 1]
      BY <1>1 DEF GateOffers
    <2>2. c.id \in Unread /\ c.id \in Jobs /\ ~Prunable(c.id)
      BY OldestLemma DEF Unread
    <2>3. ASSUME NEW j \in Jobs
          PROVE  JobMove(j) /\ CountMove(j)
      <3>1. CASE j = c.id
        <4>1. Kept[j] = job[j] /\ KeptOut[j] = out[j]
          BY <2>2, <3>1, UnprunedJob
        <4>. QED
          BY <1>1, <2>1, <2>2, <3>1, <4>1, KeptLemma, SameRunJob
          DEF GateOffers, SameRun, JobRecord
      <3>2. CASE j # c.id
        BY <1>1, <2>1, <3>2, KeptLemma, PrunedJob DEF GateOffers
      <3>. QED
        BY <3>1, <3>2
    <2>. QED
      BY <1>1, <2>3, SameProc, SameGate DEF GateOffers, Footprint
  <1>2. ASSUME NEW t \in Turns, GateWithdraws(g, t)
        PROVE  Footprint
    <2>1. PICK c \in Oldest(Tickets(Unread)) :
             /\ job' = [Kept EXCEPT
                          ![c.id].phase = "empty",
                          ![c.id].status = IF @ = "running" THEN "failed" ELSE @]
             /\ out' = [KeptOut EXCEPT ![c.id] = NoFile]
      BY <1>2 DEF GateWithdraws
    <2>2. /\ c.id \in Unread /\ c.id \in Jobs /\ ~Prunable(c.id)
          /\ job[c.id].phase = "unread"
      BY OldestLemma DEF Unread
    <2>3. ASSUME NEW j \in Jobs
          PROVE  JobMove(j) /\ CountMove(j)
      <3>1. CASE j = c.id
        <4>1. Kept[j] = job[j]
          BY <2>2, <3>1, UnprunedJob
        <4>2. /\ SameRun(j)
              /\ job'[j].phase = "empty"
              /\ job'[j].attempts = job[j].attempts
              /\ job'[j].status = IF job[j].status = "running" THEN "failed"
                                  ELSE job[j].status
          BY <2>1, <2>2, <3>1, <4>1, KeptLemma DEF SameRun, JobRecord
        <4>3. job[j].attempts \in Nat
          BY DEF TypeOK, JobRecord
        <4>. QED
          BY <2>2, <3>1, <4>2, <4>3 DEF JobMove, CountMove, Consumed
      <3>2. CASE j # c.id
        BY <2>1, <3>2, KeptLemma, PrunedJob
      <3>. QED
        BY <3>1, <3>2
    <2>. QED
      BY <1>2, <2>3, SameProc, SameGate DEF GateWithdraws, Footprint
  <1>3. ASSUME NEW t \in Turns, GateGivesUp(g, t)
        PROVE  Footprint
    <2>1. PICK c \in Oldest(Tickets(Exhausted)) :
             job' = [Kept EXCEPT ![c.id].status = "failed"]
      BY <1>3 DEF GateGivesUp
    <2>2. c.id \in Exhausted /\ c.id \in Jobs /\ ~Prunable(c.id)
      BY OldestLemma DEF Exhausted, Runnable, Stale, Prunable, Ended
    <2>3. ASSUME NEW j \in Jobs
          PROVE  JobMove(j) /\ CountMove(j)
      <3>1. CASE j = c.id
        <4>1. Kept[j] = job[j] /\ KeptOut[j] = out[j]
          BY <2>2, <3>1, UnprunedJob
        <4>. QED
          BY <1>3, <2>1, <2>2, <3>1, <4>1, KeptLemma, SameRunJob
          DEF GateGivesUp, SameRun, JobRecord
      <3>2. CASE j # c.id
        BY <1>3, <2>1, <3>2, KeptLemma, PrunedJob DEF GateGivesUp
      <3>. QED
        BY <3>1, <3>2
    <2>. QED
      BY <1>3, <2>3, SameProc, SameGate DEF GateGivesUp, Footprint
  <1>4. CASE GateCollects(g)
    <2>1. \A j \in Jobs : JobMove(j) /\ CountMove(j)
      BY <1>4, PrunedJob DEF GateCollects
    <2>2. ASSUME NEW h \in Gates
          PROVE  GateMove(h)
      <3>1. CASE h = g
        <4>1. \A j \in Jobs : job'[j].attempts \in {0, job[j].attempts}
          BY <1>4, KeptLemma DEF GateCollects, Absent
        <4>. QED
          BY <1>4, <3>1, <4>1 DEF GateCollects, GateMove, TypeOK
      <3>2. CASE h # g
        BY <1>4, <3>2, SameGate DEF GateCollects, TypeOK
      <3>. QED
        BY <3>1, <3>2
    <2>. QED
      BY <1>4, <2>1, <2>2, SameProc DEF GateCollects, Footprint
  <1>5. CASE GatePicks(g)
    <2>1. ASSUME NEW h \in Gates
          PROVE  GateMove(h)
      <3>1. PICK c \in Oldest(gate[g].ready) :
               gate' = [gate EXCEPT ![g].pc = "picked", ![g].ready = {c}]
        BY <1>5 DEF GatePicks
      <3>2. gate[g] \in [pc: {"probing", "picked"}, ready: SUBSET Ticket,
                         late: SUBSET Jobs]
        BY <1>5 DEF GatePicks, TypeOK, GateRecord, IdleGate
      <3>3. CASE h = g
        <4>1. gate'[g].ready = {c}
          BY <3>1, <3>2 DEF TypeOK
        <4>. QED
          BY <3>1, <3>3, <4>1 DEF GateMove, Oldest
      <3>4. CASE h # g
        BY <3>1, <3>4, SameGate DEF TypeOK
      <3>. QED
        BY <3>3, <3>4
    <2>. QED
      BY <1>5, <2>1, SameFiles, SameProc DEF GatePicks, Footprint
  <1>6. CASE GateSkips(g)
    <2>. DEFINE left == {d \in gate[g].ready : d.id \notin NeedsEgress}
    <2>1. gate[g] \in [pc: {"probing", "picked"}, ready: SUBSET Ticket,
                       late: SUBSET Jobs]
      BY <1>6 DEF GateSkips, TypeOK, GateRecord, IdleGate
    <2>2. ASSUME NEW h \in Gates
          PROVE  GateMove(h)
      <3>1. CASE h = g /\ left # {}
        <4>1. gate'[g].ready = left
          BY <1>6, <2>1, <3>1 DEF GateSkips, TypeOK
        <4>. QED
          BY <3>1, <4>1 DEF GateMove
      <3>2. CASE h # g \/ left = {}
        BY <1>6, <3>2, SameGate DEF GateSkips, TypeOK
      <3>. QED
        BY <3>1, <3>2
    <2>. QED
      BY <1>6, <2>2, SameFiles, SameProc DEF GateSkips, Footprint
  <1>7. ASSUME NEW r \in Runs, GateStarts(g, r)
        PROVE  Footprint
    <2>1. gate[g] \in [pc: {"probing", "picked"}, ready: SUBSET Ticket,
                       late: SUBSET Jobs]
      BY <1>7 DEF GateStarts, TypeOK, GateRecord, IdleGate
    <2>2. PICK c \in gate[g].ready :
             /\ MayStart(g, c.id)
             /\ Spawn(r, c.id)
             /\ job' = [job EXCEPT ![c.id] = Claimed(c.id, r)]
      BY <1>7 DEF GateStarts
    <2>3. c.id \in Jobs
      BY <2>1 DEF Ticket
    <2>4. \A k \in Jobs : ~Attended(k)
      BY <2>2 DEF MayStart, Runnable, Attended, Stale
    <2>5. Started(c.id) /\ job'[c.id].run = r
      BY <1>7, <2>2, <2>3, <2>4
      DEF Started, Claimed, Spawn, GateStarts, Fresh, TypeOK
    <2>6. ASSUME NEW j \in Jobs
          PROVE  JobMove(j) /\ CountMove(j)
      <3>1. CASE j = c.id
        <4>1. CountMove(j)
          BY <1>7, <2>2, <2>3, <3>1
          DEF CountMove, GateStarts, Claimed, TypeOK, IdleGate
        <4>. QED
          BY <2>5, <3>1, <4>1 DEF JobMove
      <3>2. CASE j # c.id
        BY <1>7, <2>2, <3>2, SameJob DEF GateStarts, TypeOK
      <3>. QED
        BY <3>1, <3>2
    <2>7. ASSUME NEW s \in Runs
          PROVE  ProcMove(s)
      <3>1. CASE s = r
        <4>1. \A j \in Jobs : job[j].run # r
          BY <1>7 DEF GateStarts, Fresh
        <4>2. \A j \in Jobs : job'[j].run = r => j = c.id
          BY <2>2, <4>1 DEF TypeOK
        <4>3. proc'[r].job = c.id
          BY <2>2 DEF Spawn, TypeOK
        <4>. QED
          BY <2>5, <3>1, <4>1, <4>2, <4>3 DEF ProcMove
      <3>2. CASE s # r
        BY <2>2, <3>2, SameProc DEF Spawn, TypeOK
      <3>. QED
        BY <3>1, <3>2
    <2>8. \A h \in Gates : GateMove(h)
      BY <1>7, SameGate DEF GateStarts, TypeOK
    <2>. QED
      BY <2>6, <2>7, <2>8 DEF Footprint
  <1>8. CASE GateTooLate(g)
    <2>1. \A h \in Gates : GateMove(h)
      BY <1>8, SameGate DEF GateTooLate, TypeOK
    <2>. QED
      BY <1>8, <2>1, SameFiles, SameProc DEF GateTooLate, Footprint
  <1>. QED
    BY <1>1, <1>2, <1>3, <1>4, <1>5, <1>6, <1>7, <1>8 DEF GateStep

(* A process that stays at its job, or frees itself.                       *)
LEMMA AtItsJob ==
    ASSUME TypeOK, NEW r \in Runs, proc[r].pc # "free",
           \/ proc'[r] = FreeProc
           \/ /\ proc'[r].pc # "free"
              /\ proc'[r].job = proc[r].job
              /\ proc'[r].at = proc[r].at
              /\ proc'[r].up = proc[r].up
    PROVE  ProcMove(r)
  BY DEF ProcMove

LEMMA Ends ==
    ASSUME TypeOK, NEW r \in Runs, proc[r].pc # "free",
           \/ \E x \in {"none", "reply", "material"} : proc' = EndProc(r, x)
           \/ proc' = Died(r),
           NEW s \in Runs
    PROVE  ProcMove(s)
  <1>1. CASE s = r
    <2>. DEFINE Same == /\ proc'[r].pc # "free"
                        /\ proc'[r].job = proc[r].job
                        /\ proc'[r].at = proc[r].at
                        /\ proc'[r].up = proc[r].up
    <2>1. ASSUME NEW x \in {"none", "reply", "material"}, proc' = EndProc(r, x)
          PROVE  Same
      BY <2>1, BusyProc DEF EndProc, TypeOK
    <2>2. ASSUME proc' = Died(r)
          PROVE  Same
      BY <2>2, BusyProc DEF Died, TypeOK
    <2>3. Same
      BY <2>1, <2>2
    <2>. QED
      BY <1>1, <2>3, AtItsJob
  <1>2. CASE s # r
    <2>1. proc'[s] = proc[s]
      BY <1>2 DEF EndProc, Died, TypeOK
    <2>. QED
      BY <2>1, SameProc
  <1>. QED
    BY <1>1, <1>2

(* A verdict leaves a job's run as it is.                                  *)
LEMMA Verdict ==
    ASSUME TypeOK, NEW k \in Jobs, NEW v \in Ended, SetEnded(k, v),
           NEW j \in Jobs
    PROVE  JobMove(j) /\ CountMove(j)
  <1>1. CASE job' = job
    BY <1>1, SameFiles
  <1>2. CASE job' # job /\ j = k
    <2>1. job' = [job EXCEPT ![k].status = v, ![k].aged = FALSE]
      BY <1>2 DEF SetEnded
    <2>2. /\ SameRun(j) /\ job'[j].phase = job[j].phase
          /\ job'[j].attempts = job[j].attempts
          /\ job'[j].status = v
      BY <1>2, <2>1 DEF SameRun, TypeOK, JobRecord
    <2>. QED
      BY <2>2, SameRunJob DEF Ended
  <1>3. CASE j # k
    BY <1>3, SameJob DEF SetEnded, TypeOK
  <1>. QED
    BY <1>1, <1>2, <1>3

LEMMA ProcFootprint ==
    ASSUME TypeOK, NEW r \in Runs, ProcStep(r)
    PROVE  Footprint
  <1>. DEFINE k == proc[r].job
  <1>0. /\ proc[r].pc # "free"
        /\ k \in Jobs
    <2>1. proc[r].pc # "free"
      BY DEF ProcStep, RunnerChecks, RunnerOpens, RunnerRecords, HandlerBegins,
             HandlerFinishes, HandlerPrints, HandlerReleases, HandlerRetries,
             HandlerFails, HandlerExits, OrphanEnds
    <2>. QED
      BY <2>1, BusyProc
  <1>1. CASE RunnerChecks(r)
    <2>1. \A s \in Runs : ProcMove(s)
      <3>1. ASSUME NEW s \in Runs, s # r
            PROVE  ProcMove(s)
        BY <1>1, <3>1, SameProc DEF RunnerChecks, TypeOK
      <3>2. ProcMove(r)
        BY <1>0, <1>1, BusyProc, AtItsJob DEF RunnerChecks, TypeOK
      <3>. QED
        BY <3>1, <3>2
    <2>. QED
      BY <1>1, <2>1, SameFiles, SameGate DEF RunnerChecks, Footprint
  <1>2. CASE RunnerRecords(r)
    <2>1. \A s \in Runs : ProcMove(s)
      BY <1>2, SameProc DEF RunnerRecords, TypeOK, ProcMove
    <2>2. ASSUME NEW j \in Jobs
          PROVE  JobMove(j) /\ CountMove(j)
      <3>1. CASE Mine(r) /\ j = k
        <4>1. /\ job'[j] = Recorded(k, Said(r))
              /\ proc'[r].pc = "free"
              /\ proc[r].pc = "exited" /\ proc[r].up
          BY <1>2, <3>1 DEF RunnerRecords, TypeOK, FreeProc
        <4>2. job'[j].phase = "unread" => Said(r) # "none"
          BY <4>1, <3>1 DEF Recorded
        <4>3. Said(r) # "none" => /\ proc[r].text # "dead"
                                  /\ out[j].says # "none"
                                  /\ out' = Left(r)
          BY <1>2, <3>1 DEF RunnerRecords, Said
        <4>4. out' = Left(r) => out'[j].for = out[j].for
          BY <1>0 DEF Left, TypeOK, Output
        <4>5. Reported(j)
          BY <1>0, <3>1, <4>1, <4>2, <4>3, <4>4
          DEF Recorded, Mine, Reported, SameRun
        <4>6. CountMove(j)
          BY <3>1, <4>1 DEF Recorded, CountMove, TypeOK, JobRecord
        <4>. QED
          BY <4>5, <4>6 DEF JobMove
      <3>2. CASE ~(Mine(r) /\ j = k)
        BY <1>2, <3>2, SameJob DEF RunnerRecords, TypeOK
      <3>. QED
        BY <3>1, <3>2
    <2>. QED
      BY <1>2, <2>1, <2>2, SameGate DEF RunnerRecords, Footprint
  <1>3. CASE HandlerBegins(r)
    <2>1. CASE job[k].status = "running"
      <3>1. ASSUME NEW s \in Runs
            PROVE  ProcMove(s)
        BY <1>0, <1>3, <2>1, BusyProc, AtItsJob, SameProc
        DEF HandlerBegins, TypeOK
      <3>. QED
        BY <1>3, <3>1, SameFiles, SameGate DEF HandlerBegins, Footprint
    <2>2. CASE job[k].status # "running"
      BY <1>0, <1>3, <2>2, Ends, SameFiles, SameGate
      DEF HandlerBegins, Footprint
    <2>. QED
      BY <2>1, <2>2
  <1>4. CASE HandlerFinishes(r)
    BY <1>0, <1>4, Ends, SayType, Verdict, SameGate
    DEF HandlerFinishes, Footprint, Ended
  <1>5. CASE HandlerPrints(r)
    BY <1>0, <1>5, Ends, SameFiles, SameGate DEF HandlerPrints, Footprint
  <1>6. CASE HandlerReleases(r)
    <2>1. ASSUME NEW j \in Jobs
          PROVE  JobMove(j) /\ CountMove(j)
      <3>1. CASE j = k /\ job[k].status = "running"
        <4>1. job' = [job EXCEPT ![k].status = "queued",
                                 ![k].attempts = Uncounted(@)]
          BY <1>6, <3>1 DEF HandlerReleases
        <4>2. /\ SameRun(j) /\ job'[j].phase = job[j].phase
              /\ job'[j].status = "queued"
              /\ job'[j].attempts = Uncounted(job[j].attempts)
          BY <3>1, <4>1, SMTT(30) DEF SameRun, TypeOK, JobRecord
        <4>3. job[j].attempts \in Nat
          BY DEF TypeOK, JobRecord
        <4>4. CountMove(j)
          BY <4>2, <4>3 DEF CountMove, Uncounted
        <4>5. Untouched(j)
          BY <1>6, <4>2 DEF HandlerReleases, Untouched
        <4>. QED
          BY <4>4, <4>5 DEF JobMove
      <3>2. CASE ~(j = k /\ job[k].status = "running")
        BY <1>6, <3>2, SameJob DEF HandlerReleases, TypeOK
      <3>. QED
        BY <3>1, <3>2
    <2>. QED
      BY <1>0, <1>6, <2>1, Ends, SameGate DEF HandlerReleases, Footprint
  <1>7. CASE HandlerRetries(r)
    <2>1. ASSUME NEW j \in Jobs
          PROVE  JobMove(j) /\ CountMove(j)
      <3>1. CASE job' = job \/ j # k
        BY <1>7, <3>1, SameJob DEF HandlerRetries, TypeOK
      <3>2. CASE job' # job /\ j = k
        <4>1. /\ job' = [job EXCEPT ![k].status = "queued"]
              /\ job[k].attempts < MaxAttempts
          BY <1>7, <3>2 DEF HandlerRetries
        <4>2. job[j].attempts \in Nat
          BY DEF TypeOK, JobRecord
        <4>3. /\ SameRun(j) /\ job'[j].phase = job[j].phase
              /\ job'[j].status = "queued"
              /\ job'[j].attempts = job[j].attempts
          BY <3>2, <4>1 DEF SameRun, TypeOK, JobRecord
        <4>. QED
          BY <1>7, <3>2, <4>1, <4>2, <4>3
          DEF HandlerRetries, JobMove, CountMove, Untouched
      <3>. QED
        BY <3>1, <3>2
    <2>2. ASSUME NEW s \in Runs
          PROVE  ProcMove(s)
      <3>1. CASE proc' = [proc EXCEPT ![r].pc = "failing"]
        BY <1>0, <3>1, BusyProc, AtItsJob, SameProc DEF TypeOK
      <3>2. CASE \E x \in {"none", "reply", "material"} : proc' = EndProc(r, x)
        BY <1>0, <3>2, Ends
      <3>. QED
        BY <1>0, <1>7, <3>1, <3>2, SayType DEF HandlerRetries
    <2>. QED
      BY <1>7, <2>1, <2>2, SameGate DEF HandlerRetries, Footprint
  <1>8. CASE HandlerFails(r)
    BY <1>0, <1>8, Ends, SayType, Verdict, SameGate
    DEF HandlerFails, Footprint, Ended
  <1>9. CASE OrphanEnds(r)
    <2>1. \A s \in Runs : ProcMove(s)
      BY <1>9, SameProc DEF OrphanEnds, TypeOK, ProcMove
    <2>. QED
      BY <1>9, <2>1, SameFiles, SameGate DEF OrphanEnds, Footprint
  <1>10. CASE RunnerOpens(r) \/ HandlerExits(r)
    <2>1. ASSUME NEW s \in Runs
          PROVE  ProcMove(s)
      BY <1>0, <1>10, BusyProc, AtItsJob, SameProc
      DEF RunnerOpens, HandlerExits, TypeOK
    <2>. QED
      BY <1>10, <2>1, SameFiles, SameGate DEF RunnerOpens, HandlerExits, Footprint
  <1>. QED
    BY <1>1, <1>2, <1>3, <1>4, <1>5, <1>6, <1>7, <1>8, <1>9, <1>10 DEF ProcStep

LEMMA TurnFootprint ==
    ASSUME TypeOK, NEW t \in Turns, TurnStep(t)
    PROVE  Footprint
  <1>. DEFINE k == turn[t].job
  <1>1. CASE TurnReads(t)
    <2>1. ASSUME NEW j \in Jobs
          PROVE  JobMove(j) /\ CountMove(j)
      <3>1. CASE j = k
        <4>1. /\ SameRun(j) /\ job[j].phase = "unread"
              /\ job'[j].phase = "read"
              /\ job'[j].status = job[j].status
              /\ job'[j].attempts = job[j].attempts
          BY <1>1, <3>1 DEF TurnReads, SameRun, TypeOK, JobRecord
        <4>2. job[j].attempts \in Nat
          BY DEF TypeOK, JobRecord
        <4>. QED
          BY <4>1, <4>2 DEF JobMove, CountMove, Consumed
      <3>2. CASE j # k
        BY <1>1, <3>2, SameJob DEF TurnReads, TypeOK
      <3>. QED
        BY <3>1, <3>2
    <2>. QED
      BY <1>1, <2>1, SameProc, SameGate DEF TurnReads, Footprint
  <1>2. CASE TurnFindsNothing(t)
    BY <1>2, SameFiles, SameProc, SameGate DEF TurnFindsNothing, Footprint
  <1>3. CASE TurnReports(t)
    BY <1>3, SameFiles, SameProc, SameGate DEF TurnReports, Footprint
  <1>4. CASE TurnFinishes(t)
    <2>1. k \in Jobs
      BY <1>4, BusyTurn DEF TurnFinishes
    <2>. QED
      BY <1>4, <2>1, Verdict, SameProc, SameGate
      DEF TurnFinishes, Footprint, Ended
  <1>5. CASE TurnReplies(t)
    BY <1>5, SameFiles, SameProc, SameGate DEF TurnReplies, Footprint
  <1>. QED
    BY <1>1, <1>2, <1>3, <1>4, <1>5 DEF TurnStep

LEMMA ClientFootprint ==
    ASSUME TypeOK, ClientStep
    PROVE  Footprint
  <1>1. ASSUME NEW k \in Jobs, Add(k)
        PROVE  Footprint
    <2>1. ASSUME NEW j \in Jobs
          PROVE  JobMove(j) /\ CountMove(j)
      <3>1. CASE j = k
        BY <1>1, <3>1, KeptLemma, ResetJob DEF Add
      <3>2. CASE j # k
        BY <1>1, <3>2, KeptLemma, PrunedJob DEF Add
      <3>. QED
        BY <3>1, <3>2
    <2>. QED
      BY <1>1, <2>1, SameProc, SameGate DEF Add, Footprint
  <1>2. ASSUME NEW k \in Jobs, Drop(k)
        PROVE  Footprint
    <2>1. ASSUME NEW j \in Jobs
          PROVE  JobMove(j) /\ CountMove(j)
      BY <1>2, ResetJob, SameJob DEF Drop, TypeOK
    <2>. QED
      BY <1>2, <2>1, SameProc, SameGate DEF Drop, Footprint
  <1>3. CASE OnlyPrunes
    BY <1>3, PrunedJob, SameProc, SameGate DEF OnlyPrunes, Footprint
  <1>. QED
    BY <1>1, <1>2, <1>3 DEF ClientStep

LEMMA EnvironmentFootprint ==
    ASSUME TypeOK, Environment
    PROVE  Footprint
  <1>1. ASSUME NEW k \in Jobs, LeaseLapses(k)
        PROVE  Footprint
    <2>1. ASSUME NEW j \in Jobs
          PROVE  JobMove(j) /\ CountMove(j)
      <3>1. CASE j = k
        <4>1. /\ SameRun(j) /\ job[j].phase = "read"
              /\ job'[j].phase = "lapsed"
              /\ job'[j].status = job[j].status
              /\ job'[j].attempts = job[j].attempts
          BY <1>1, <3>1 DEF LeaseLapses, SameRun, TypeOK, JobRecord
        <4>2. job[j].attempts \in Nat
          BY DEF TypeOK, JobRecord
        <4>. QED
          BY <4>1, <4>2 DEF JobMove, CountMove, Consumed
      <3>2. CASE j # k
        BY <1>1, <3>2, SameJob DEF LeaseLapses, TypeOK
      <3>. QED
        BY <3>1, <3>2
    <2>2. ASSUME NEW h \in Gates
          PROVE  GateMove(h)
      <3>1. CASE gate[h].pc = "idle"
        BY <1>1, <3>1, SameGate DEF LeaseLapses
      <3>2. CASE gate[h].pc # "idle"
        <4>1. gate[h] \in [pc: {"probing", "picked"}, ready: SUBSET Ticket,
                           late: SUBSET Jobs]
          BY <3>2 DEF TypeOK, GateRecord, IdleGate
        <4>2. gate'[h].ready = gate[h].ready
          BY <1>1, <3>2, <4>1 DEF LeaseLapses
        <4>. QED
          BY <4>2 DEF GateMove
      <3>. QED
        BY <3>1, <3>2
    <2>. QED
      BY <1>1, <2>1, <2>2, SameProc DEF LeaseLapses, Footprint
  <1>2. ASSUME NEW k \in Jobs, Ages(k)
        PROVE  Footprint
    <2>1. ASSUME NEW j \in Jobs
          PROVE  JobMove(j) /\ CountMove(j)
      <3>1. CASE j = k
        <4>1. /\ SameRun(j) /\ job'[j].phase = job[j].phase
              /\ job'[j].status = job[j].status
              /\ job'[j].attempts = job[j].attempts
          BY <1>2, <3>1 DEF Ages, SameRun, TypeOK, JobRecord
        <4>. QED
          BY <1>2, <4>1, SameRunJob DEF Ages
      <3>2. CASE j # k
        BY <1>2, <3>2, SameJob DEF Ages, TypeOK
      <3>. QED
        BY <3>1, <3>2
    <2>. QED
      BY <1>2, <2>1, SameProc, SameGate DEF Ages, Footprint
  <1>3. CASE EgressFlips
    BY <1>3, SameFiles, SameProc, SameGate DEF EgressFlips, Footprint
  <1>4. ASSUME NEW g \in Gates, GateKilled(g)
        PROVE  Footprint
    <2>1. \A h \in Gates : GateMove(h)
      BY <1>4, SameGate DEF GateKilled, TypeOK
    <2>. QED
      BY <1>4, <2>1, SameFiles, SameProc DEF GateKilled, Footprint
  <1>5. ASSUME NEW g \in Gates, NEW r \in Runs, GateKilledStarting(g, r)
        PROVE  Footprint
    <2>1. \A h \in Gates : GateMove(h)
      BY <1>5, SameGate DEF GateKilledStarting, TypeOK
    <2>2. ASSUME NEW s \in Runs
          PROVE  ProcMove(s)
      <3>1. CASE s = r
        BY <1>5, <3>1 DEF GateKilledStarting, Fresh, ProcMove
      <3>2. CASE s # r
        BY <1>5, <3>2, SameProc DEF GateKilledStarting, Spawn, TypeOK
      <3>. QED
        BY <3>1, <3>2
    <2>. QED
      BY <1>5, <2>1, <2>2, SameFiles DEF GateKilledStarting, Footprint
  <1>6. CASE GatewayRestarts
    BY <1>6, SameFiles, SameGate DEF GatewayRestarts, Footprint, ProcMove
  <1>7. ASSUME NEW r \in Runs, RunnerKilled(r)
        PROVE  Footprint
    <2>1. proc[r].pc # "free"
      BY <1>7 DEF RunnerKilled, TypeOK, ProcRecord, FreeProc
    <2>2. ASSUME NEW s \in Runs
          PROVE  ProcMove(s)
      <3>1. CASE s = r
        <4>1. CASE proc[r].pc \in {"spawned", "checked", "exited"}
          BY <1>7, <3>1, <4>1 DEF RunnerKilled, ProcMove, TypeOK
        <4>2. CASE proc[r].pc \notin {"spawned", "checked", "exited"}
          <5>1. /\ proc'[r].pc = proc[r].pc
                /\ proc'[r].job = proc[r].job
                /\ proc'[r].at = proc[r].at
                /\ proc'[r].up = FALSE
            BY <1>7, <2>1, <4>2, BusyProc DEF RunnerKilled, TypeOK
          <5>. QED
            BY <2>1, <3>1, <5>1 DEF ProcMove
        <4>. QED
          BY <4>1, <4>2
      <3>2. CASE s # r
        BY <1>7, <3>2, SameProc DEF RunnerKilled, TypeOK
      <3>. QED
        BY <3>1, <3>2
    <2>. QED
      BY <1>7, <2>2, SameFiles, SameGate DEF RunnerKilled, Footprint
  <1>8. ASSUME NEW r \in Runs, HandlerDies(r)
        PROVE  Footprint
    BY <1>8, Ends, SameFiles, SameGate DEF HandlerDies, Footprint
  <1>9. ASSUME NEW r \in Runs, HandlerLosesAnswer(r)
        PROVE  Footprint
    BY <1>9, Ends, SameFiles, SameGate DEF HandlerLosesAnswer, Footprint
  <1>10. ASSUME NEW t \in Turns, TurnQuits(t) \/ TurnLosesAnswer(t)
         PROVE  Footprint
    BY <1>10, SameFiles, SameProc, SameGate
    DEF TurnQuits, TurnLosesAnswer, Footprint
  <1>. QED
    BY <1>1, <1>2, <1>3, <1>4, <1>5, <1>6, <1>7, <1>8, <1>9, <1>10
    DEF Environment

LEMMA NextFootprint ==
    ASSUME TypeOK, [Next]_vars
    PROVE  Footprint
  <1>1. CASE UNCHANGED vars
    BY <1>1, SameFiles, SameProc, SameGate DEF vars, Footprint
  <1>. QED
    BY <1>1, GateFootprint, ProcFootprint, TurnFootprint, ClientFootprint,
       EnvironmentFootprint DEF Next

-----------------------------------------------------------------------------
(***************************************************************************)
(* A runner that its job still names was started for that very request and *)
(* has not recorded yet.                                                   *)
(***************************************************************************)
RunInv ==
    \A r \in Runs :
        LET j == proc[r].job IN
        proc[r].pc # "free" /\ job[j].run = r =>
            job[j].phase = "started" /\ proc[r].at = job[j].at

LEMMA InitRunInv == Init => RunInv
  BY DEF Init, RunInv, FreeProc

LEMMA NextRunInv ==
    ASSUME TypeOK, TypeOK', RunInv, Footprint
    PROVE  RunInv'
  <1>. SUFFICES ASSUME NEW r \in Runs,
                       proc'[r].pc # "free",
                       job'[proc'[r].job].run = r
                PROVE  /\ job'[proc'[r].job].phase = "started"
                       /\ proc'[r].at = job'[proc'[r].job].at
    BY DEF RunInv
  <1>. DEFINE j == proc'[r].job
  <1>1. j \in Jobs
    <2>1. proc'[r] \in ProcRecord /\ proc'[r] # FreeProc
      BY DEF TypeOK, FreeProc
    <2>. QED
      BY <2>1 DEF ProcRecord
  <1>2. JobMove(j) /\ ProcMove(r)
    BY <1>1 DEF Footprint
  <1>3. CASE \A i \in Jobs : job'[i].run = r => i = j /\ Started(i)
    <2>1. Started(j)
      BY <1>1, <1>3
    <2>. QED
      BY <2>1 DEF Started
  <1>4. CASE /\ proc[r].pc # "free"
             /\ proc'[r].job = proc[r].job
             /\ proc'[r].at = proc[r].at
    <2>1. CASE Started(j)
      BY <2>1, <1>4 DEF Started
    <2>2. CASE Untouched(j)
      BY <2>2, <1>4 DEF Untouched, SameRun, RunInv
    <2>3. CASE Reset(j)
      BY <2>3, QueueAssumption DEF Reset
    <2>4. CASE Consumed(j)
      BY <2>4, <1>4 DEF Consumed, SameRun, RunInv
    <2>5. CASE Reported(j)
      BY <2>5, <1>4 DEF Reported, SameRun
    <2>. QED
      BY <1>2, <2>1, <2>2, <2>3, <2>4, <2>5 DEF JobMove
  <1>. QED
    BY <1>2, <1>3, <1>4 DEF ProcMove, FreeProc

(* Together with the types: what every invariant below rests on.           *)
QueueInv == TypeOK /\ RunInv

LEMMA NextQueueInv == QueueInv /\ [Next]_vars => QueueInv'
  BY NextTypeOK, NextFootprint, NextRunInv DEF QueueInv

LEMMA QueueInvariant == Spec => []QueueInv
  <1>1. Init => QueueInv
    BY InitTypeOK, InitRunInv DEF QueueInv
  <1>. QED
    BY <1>1, NextQueueInv, PTL DEF Spec

-----------------------------------------------------------------------------
(* Nobody becomes attended but a job just started, and a job is started    *)
(* only while none is attended.                                            *)
LEMMA NextAttended ==
    ASSUME QueueInv, Footprint, NEW j \in Jobs, Attended(j)'
    PROVE  Attended(j) \/ Started(j)
  <1>. DEFINE r == job'[j].run
  <1>1. /\ job'[j].status = "running"
        /\ job'[j].phase # "empty"
        /\ job'[j].phase # "lapsed"
        /\ job'[j].phase = "started" => r \in Runs /\ proc'[r].up
    BY DEF Attended, Stale, Alive
  <1>2. JobMove(j)
    BY DEF Footprint
  <1>3. CASE Untouched(j)
    <2>1. ASSUME job'[j].phase = "started"
          PROVE  Started(j) \/ Alive(job[j].run)
      <3>1. r \in Runs /\ proc'[r].up /\ job[j].run = r
        BY <1>1, <1>3, <2>1 DEF Untouched, SameRun
      <3>2. ProcMove(r)
        BY <3>1 DEF Footprint
      <3>. QED
        BY <3>1, <3>2 DEF ProcMove, FreeProc, Alive
    <2>. QED
      BY <1>1, <1>3, <2>1 DEF Untouched, Attended, Stale
  <1>4. CASE Consumed(j)
    BY <1>1, <1>4 DEF Consumed, Attended, Stale
  <1>5. CASE Reported(j)
    <2>1. job[j].phase = "started" /\ Alive(job[j].run)
      BY <1>5 DEF Reported, QueueInv, RunInv, Alive
    <2>. QED
      BY <1>1, <1>5, <2>1 DEF Reported, Attended, Stale
  <1>. QED
    BY <1>1, <1>2, <1>3, <1>4, <1>5 DEF JobMove, Reset

LEMMA NextOneLive ==
    ASSUME QueueInv, OneLive, Footprint
    PROVE  OneLive'
  <1>. SUFFICES ASSUME NEW i \in Jobs, NEW j \in Jobs,
                       Attended(i)', Attended(j)'
                PROVE  i = j
    BY DEF OneLive, Attended
  <1>1. CASE Attended(i) /\ Attended(j)
    BY <1>1 DEF OneLive, Attended
  <1>2. ASSUME NEW k \in Jobs, Started(k), NEW l \in Jobs, Attended(l)'
        PROVE  l = k
    <2>1. Attended(l) \/ Started(l)
      BY <1>2, NextAttended
    <2>2. Started(l)
      BY <1>2, <2>1 DEF Started
    <2>. QED
      BY <1>2, <2>2 DEF Started
  <1>. QED
    BY <1>1, <1>2, NextAttended

(* At most one job is running that somebody will report back for.          *)
THEOREM OneAtATime == Spec => []OneLive
  <1>1. Init => OneLive
    BY DEF Init, OneLive, Absent
  <1>2. QueueInv /\ OneLive /\ [Next]_vars => OneLive'
    BY NextOneLive, NextFootprint DEF QueueInv
  <1>. QED
    BY <1>1, <1>2, QueueInvariant, PTL DEF Spec

-----------------------------------------------------------------------------
(***************************************************************************)
(* With one gate, what it has collected still has a try left when it comes *)
(* to start it: between its two sections nobody else counts an attempt.    *)
(***************************************************************************)
CollectedInv ==
    \A g \in Gates : \A c \in gate[g].ready : job[c.id].attempts < MaxAttempts

LEMMA NextAttempts ==
    ASSUME QueueInv, AttemptsBounded, CollectedInv, Footprint, TypeOK',
           \A g, h \in Gates : g = h
    PROVE  AttemptsBounded' /\ CollectedInv'
  <1>1. ASSUME NEW j \in Jobs
        PROVE  /\ job[j].attempts \in Nat
               /\ job'[j].attempts \in Nat
               /\ CountMove(j)
    BY DEF QueueInv, TypeOK, JobRecord, Footprint
  <1>2. ASSUME NEW j \in Jobs
        PROVE  /\ job'[j].attempts <= MaxAttempts
               /\ job'[j].status = "queued" => job'[j].attempts < MaxAttempts
    <2>1. CASE \E g \in Gates : \E c \in gate[g].ready : c.id = j
      <3>1. job[j].attempts < MaxAttempts
        BY <2>1 DEF CollectedInv
      <3>. QED
        BY <1>1, <3>1, QueueAssumption DEF CountMove
    <2>2. CASE ~\E g \in Gates : \E c \in gate[g].ready : c.id = j
      BY <1>1, <2>2, QueueAssumption DEF CountMove, AttemptsBounded
    <2>. QED
      BY <2>1, <2>2
  <1>3. ASSUME NEW g \in Gates, NEW c \in gate'[g].ready
        PROVE  job'[c.id].attempts < MaxAttempts
    <2>1. c.id \in Jobs /\ GateMove(g)
      BY <1>3 DEF TypeOK, GateRecord, IdleGate, Ticket, Footprint
    <2>2. CASE gate'[g].ready \subseteq gate[g].ready
      <3>1. job[c.id].attempts < MaxAttempts
        BY <1>3, <2>2 DEF CollectedInv
      <3>2. ~\E h \in Gates : gate'[h].ready = {}
        BY <1>3
      <3>. QED
        BY <1>1, <2>1, <3>1, <3>2, QueueAssumption DEF CountMove
    <2>3. CASE /\ gate'[g].ready = Tickets(Runnable({}))
               /\ Exhausted = {}
               /\ \A j \in Jobs : job'[j].attempts \in {0, job[j].attempts}
      <3>1. c.id \in Runnable({})
        BY <1>3, <2>3 DEF Tickets
      <3>2. job[c.id].attempts < MaxAttempts
        BY <1>1, <2>1, <2>3, <3>1, QueueAssumption
        DEF Runnable, Exhausted, AttemptsBounded
      <3>. QED
        BY <2>1, <2>3, <3>2, QueueAssumption
    <2>. QED
      BY <2>1, <2>2, <2>3 DEF GateMove
  <1>. QED
    BY <1>2, <1>3 DEF AttemptsBounded, CollectedInv

(* With one gate, no job is started more than MaxAttempts times.           *)
THEOREM AttemptsStayBounded ==
    ASSUME \A g, h \in Gates : g = h
    PROVE  Spec => []AttemptsBounded
  <1>1. Init => AttemptsBounded /\ CollectedInv
    BY QueueAssumption DEF Init, AttemptsBounded, CollectedInv, Absent, IdleGate
  <1>2. /\ QueueInv /\ AttemptsBounded /\ CollectedInv
        /\ [Next]_vars
        => (AttemptsBounded /\ CollectedInv)'
    BY NextAttempts, NextFootprint, NextTypeOK DEF QueueInv
  <1>. QED
    BY <1>1, <1>2, QueueInvariant, PTL DEF Spec

-----------------------------------------------------------------------------
(***************************************************************************)
(* The system as it is deployed: a drain turn's limit is under the lease,  *)
(* only waiting or finished jobs are cancelled, and a runner dies with its *)
(* gateway, not alone.  Then a handler at work owns its job, what it has   *)
(* printed agrees with the verdict it filed, its job's file is open in it  *)
(* and in spent ones only, and at any moment at most one of the runner,    *)
(* the file and a turn holds the one answer a request gets.                *)
(***************************************************************************)
Deployed == {"slow-turn", "drop-running", "runner-killed"} \cap Events = {}

Printing == {"launched", "fetching", "failing"}
Working == Printing \cup {"checked"}
Over == {"ended", "exited"}

Busy(r) == proc[r].pc # "free"
Owns(r) == Busy(r) /\ job[proc[r].job].run = r

RunSound(r) ==
    LET k == proc[r].job IN
    /\ Busy(r) => proc[r].up
    /\ proc[r].pc \in Working => Owns(r)
    /\ Owns(r) /\ proc[r].pc \notin Over => job[k].status = "running"
    /\ Owns(r) /\ proc[r].text = "material" => job[k].status = "running"
    /\ Owns(r) /\ proc[r].text = "reply" =>
          job[k].status \in Ended /\ answers[k] = 0
    /\ proc[r].pc \notin Over => proc[r].text = "none"
    /\ \A j \in Jobs : job[j].run = r /\ Busy(r) => j = k

JobSound(j) ==
    /\ job[j].status = "absent" <=> job[j].at = 0
    /\ job[j].at <= clock
    /\ job[j].phase = "unread" =>
          /\ answers[j] = 0
          /\ \/ out[j].says = "material" /\ job[j].status = "running"
             \/ out[j].says = "reply" /\ job[j].status \in Ended
    /\ job[j].status \in Live => answers[j] = 0
    /\ job[j].status \in Ended => answers[j] <= 1

(* A process that has j's file open works for j, or has nothing to say.    *)
HasOpen(r, j) ==
    /\ r \in Runs /\ proc[r].job = j
    /\ proc[r].pc \in Printing \cup Over
    /\ \/ Owns(r)
       \/ proc[r].pc = "exited" /\ proc[r].text \in {"none", "dead"}

(* What the file of the job r works for says: nothing before r is done,    *)
(* then its words.                                                         *)
SaysOf(r, j) ==
    Owns(r) /\ proc[r].job = j =>
        /\ proc[r].pc \in Printing \cup Over => r \in out[j].by
        /\ proc[r].pc \in Printing \cup {"ended"} => out[j].says = "none"
        /\ proc[r].pc = "exited" /\ proc[r].text # "dead" =>
              /\ out[j].says = proc[r].text
              /\ proc[r].text # "none" => out[j].for = proc[r].at

FileSound(j) ==
    /\ out[j].says # "none" => job[j].phase \in {"started", "unread"}
    /\ \A r \in out[j].by : HasOpen(r, j)
    /\ \A r \in Runs : SaysOf(r, j)

Holds(t, j)   == turn[t].pc \in {"holding", "filing"} /\ turn[t].job = j
Replies(t, j) == /\ turn[t].pc = "replying" /\ turn[t].job = j
                 /\ turn[t].at = job[j].at

TurnSound(t) ==
    /\ turn[t].pc # "idle" => turn[t].at \in 1..clock
    /\ \A j \in Jobs :
          /\ Holds(t, j) => /\ job[j].status = "running"
                            /\ job[j].phase = "read"
                            /\ turn[t].at = job[j].at
          /\ Replies(t, j) => /\ job[j].status \in Ended
                              /\ job[j].phase # "unread"
                              /\ answers[j] = 0
                              /\ \A r \in Runs : Owns(r) => proc[r].job # j

TurnsApart ==
    \A t, u \in Turns, j \in Jobs :
        /\ Holds(t, j) /\ Holds(u, j) => t = u
        /\ Replies(t, j) /\ Replies(u, j) => t = u

DeployedInv ==
    /\ \A j \in Jobs : JobSound(j) /\ FileSound(j)
    /\ \A r \in Runs : RunSound(r)
    /\ \A t \in Turns : TurnSound(t)
    /\ TurnsApart

-----------------------------------------------------------------------------
(* What a step leaves of a job as runners and turns see it.                *)
Steady(j) ==
    /\ SameRun(j)
    /\ job'[j].status = job[j].status
    /\ job'[j].phase = job[j].phase
    /\ answers'[j] = answers[j]

Renewed(j) ==
    /\ job[j].status # "running"
    /\ out'[j] = NoFile
    /\ \/ job'[j] = Absent
       \/ job'[j] = NewRecord(j) /\ answers'[j] = 0 /\ clock' = clock + 1

Framed(j) == Steady(j) \/ Renewed(j)

(* What a step is to the owner of a job's request.                         *)
Tale(j) ==
    \/ Renewed(j)
    \/ job'[j].status = job[j].status /\ answers'[j] = answers[j]
    \/ /\ {job[j].status, job'[j].status} \subseteq Live
       /\ answers'[j] = answers[j]
    \/ /\ job[j].status = "running" /\ job'[j].status \in Ended
       /\ answers'[j] = answers[j]
    \/ /\ job[j].status \in Ended /\ job'[j].status = job[j].status
       /\ answers[j] = 0 /\ answers'[j] = 1

LEMMA JobFrame ==
    ASSUME TypeOK, NEW j \in Jobs, JobSound(j), clock' \in {clock, clock + 1},
           \/ /\ Steady(j)
              /\ job[j].phase = "unread" => out'[j].says = out[j].says
           \/ Renewed(j)
    PROVE  JobSound(j)'
  <1>1. clock \in Nat
    BY QueueAssumption DEF TypeOK
  <1>2. job[j].at \in Nat
    BY DEF TypeOK, JobRecord
  <1>3. CASE /\ Steady(j)
             /\ job[j].phase = "unread" => out'[j].says = out[j].says
    BY <1>1, <1>2, <1>3 DEF Steady, SameRun, JobSound
  <1>4. CASE Renewed(j)
    BY <1>1, <1>4 DEF Renewed, JobSound, Absent, NewRecord, Live, Ended
  <1>. QED
    BY <1>3, <1>4

(* No process is at job j.                                                 *)
Ownerless(j) == \A s \in Runs : job[j].run = s => ~Busy(s)

(* The file of a job that no process is at, or that is as it was.          *)
LEMMA FileFrame ==
    ASSUME NEW j \in Jobs, FileSound(j),
           \A s \in Runs :
              (Busy(s) /\ proc[s].job = j) \/ (Busy(s)' /\ proc'[s].job = j)
                 => proc'[s] = proc[s],
           \/ /\ out'[j] = out[j]
              /\ job'[j].run = job[j].run
              /\ job'[j].phase = job[j].phase \/ out[j].says = "none"
           \/ /\ out'[j] = NoFile
              /\ \A s \in Runs : job'[j].run = s => ~Busy(s)'
    PROVE  FileSound(j)'
  <1>1. CASE /\ out'[j] = out[j]
             /\ job'[j].run = job[j].run
             /\ job'[j].phase = job[j].phase \/ out[j].says = "none"
    <2>1. ASSUME NEW r \in out[j].by
          PROVE  HasOpen(r, j)'
      <3>1. HasOpen(r, j) /\ Busy(r)
        BY DEF FileSound, HasOpen, Busy, Printing, Over
      <3>2. proc'[r] = proc[r]
        BY <3>1 DEF HasOpen
      <3>. QED
        BY <1>1, <3>1, <3>2 DEF HasOpen, Owns, Busy
    <2>2. ASSUME NEW r \in Runs
          PROVE  SaysOf(r, j)'
      <3>. SUFFICES ASSUME Owns(r)', proc'[r].job = j
                    PROVE  SaysOf(r, j)'
        BY DEF SaysOf
      <3>1. proc'[r] = proc[r] /\ Owns(r)
        BY <1>1 DEF Owns, Busy
      <3>. QED
        BY <1>1, <3>1 DEF FileSound, SaysOf
    <2>. QED
      BY <1>1, <2>1, <2>2 DEF FileSound
  <1>2. CASE /\ out'[j] = NoFile
             /\ \A s \in Runs : job'[j].run = s => ~Busy(s)'
    BY <1>2 DEF FileSound, SaysOf, Owns, NoFile
  <1>. QED
    BY <1>1, <1>2

LEMMA FramedTale == \A j \in Jobs : Framed(j) => Tale(j)
  BY DEF Framed, Steady, Tale

(* A job whose phase is not "started" has no runner at it.                 *)
LEMMA NobodyAt ==
    ASSUME QueueInv, NEW j \in Jobs, NEW s \in Runs, RunSound(s),
           job[j].run = s, Busy(s)
    PROVE  Owns(s) /\ proc[s].job = j /\ job[j].phase = "started"
  <1>1. proc[s].job = j
    BY DEF RunSound
  <1>. QED
    BY <1>1 DEF QueueInv, RunInv, Owns, Busy

LEMMA NotStarted ==
    ASSUME QueueInv, DeployedInv, NEW j \in Jobs,
           \/ job[j].phase # "started"
           \/ ~Alive(job[j].run)
           \/ \A r \in Runs : Owns(r) => proc[r].job # j
    PROVE  Ownerless(j)
  <1>. SUFFICES ASSUME NEW s \in Runs, job[j].run = s, Busy(s)
                PROVE  FALSE
    BY DEF Ownerless
  <1>1. RunSound(s)
    BY DEF DeployedInv
  <1>2. Owns(s) /\ proc[s].job = j /\ job[j].phase = "started"
    BY <1>1, NobodyAt
  <1>3. Alive(job[j].run)
    BY <1>1 DEF RunSound, Alive
  <1>. QED
    BY <1>2, <1>3

(* A runner that does nothing: nobody else changes a job it is at.         *)
LEMMA RunFrame ==
    ASSUME QueueInv, NEW s \in Runs, RunSound(s), proc'[s] = proc[s],
           \A j \in Jobs : \/ Framed(j)
                           \/ job[j].run # s /\ job'[j].run # s
                           \/ proc[s].pc \in Over /\ job'[j].run # s
                           \/ ~Busy(s)
    PROVE  RunSound(s)'
  <1>1. CASE Busy(s)
    <2>. DEFINE k == proc[s].job
    <2>1. k \in Jobs /\ TypeOK
      BY <1>1, BusyProc DEF Busy, QueueInv
    <2>2. \A j \in Jobs : job'[j].run = s => Steady(j) /\ job[j].run = s
      <3>. SUFFICES ASSUME NEW j \in Jobs, job'[j].run = s
                    PROVE  Steady(j) /\ job[j].run = s
        OBVIOUS
      <3>1. Framed(j)
        BY <1>1
      <3>2. ~Renewed(j)
        BY QueueAssumption DEF Renewed, Absent, NewRecord
      <3>. QED
        BY <3>1, <3>2 DEF Framed, Steady, SameRun
    <2>3. proc[s].pc \in Working => job'[k].run = s
      <3>1. proc[s].pc \in Working =>
               Owns(s) /\ job[k].status = "running" /\ proc[s].pc \notin Over
        BY DEF RunSound, Working, Printing, Over
      <3>2. proc[s].pc \in Working => Steady(k)
        BY <1>1, <2>1, <3>1 DEF Framed, Renewed, Owns
      <3>. QED
        BY <3>1, <3>2 DEF Steady, SameRun, Owns
    <2>4. Owns(s)' => Owns(s) /\ Steady(k)
      BY <1>1, <2>1, <2>2 DEF Owns, Busy
    <2>. QED
      BY <1>1, <2>1, <2>2, <2>3, <2>4 DEF RunSound, Owns, Busy, Steady
  <1>2. CASE ~Busy(s)
    <2>1. proc[s].pc = "free" /\ ~Busy(s)'
      BY <1>2 DEF Busy
    <2>. QED
      BY <2>1 DEF RunSound, Owns, Working, Printing, Over
  <1>. QED
    BY <1>1, <1>2

(* No process comes to own a job that has ended.                           *)
OwnersStay ==
    \A r \in Runs :
        Owns(r)' => \/ Owns(r) /\ proc'[r].job = proc[r].job
                    \/ job'[proc'[r].job].status \notin Ended

(* A turn that does nothing, while nobody else changes a job it is at.     *)
LEMMA TurnFrame ==
    ASSUME TypeOK, NEW t \in Turns, TurnSound(t), turn'[t] = turn[t],
           clock' \in {clock, clock + 1}, OwnersStay,
           \A j \in Jobs : \/ Framed(j)
                           \/ /\ ~Holds(t, j) /\ ~Replies(t, j)
                              /\ job'[j].at = job[j].at
    PROVE  /\ TurnSound(t)'
           /\ \A j \in Jobs : /\ Holds(t, j)' => Holds(t, j)
                              /\ Replies(t, j)' => Replies(t, j)
  <1>1. clock \in Nat /\ turn[t].pc # "idle" => turn[t].at \in 1..clock
    BY DEF TurnSound
  <1>2. clock \in Nat
    BY QueueAssumption DEF TypeOK
  <1>3. turn'[t].pc # "idle" => turn'[t].at \in 1..clock'
    BY <1>2 DEF TurnSound
  <1>4. ASSUME NEW j \in Jobs
        PROVE  /\ Holds(t, j)' => Holds(t, j) /\ Steady(j)
               /\ Replies(t, j)' => Replies(t, j) /\ Steady(j)
    <2>1. CASE Steady(j)
      BY <2>1 DEF Steady, SameRun, Holds, Replies
    <2>2. CASE Renewed(j)
      <3>1. ~Holds(t, j)
        BY <2>2 DEF Renewed, TurnSound
      <3>2. turn[t].pc # "idle" => turn[t].at # job'[j].at
        <4>1. job'[j].at \in {0, clock + 1}
          BY <2>2 DEF Renewed, Absent, NewRecord
        <4>. QED
          BY <1>2, <4>1 DEF TurnSound
      <3>. QED
        BY <3>1, <3>2 DEF Holds, Replies
    <2>3. CASE ~Holds(t, j) /\ ~Replies(t, j) /\ job'[j].at = job[j].at
      BY <2>3 DEF Holds, Replies
    <2>. QED
      BY <2>1, <2>2, <2>3 DEF Framed
  <1>5. ASSUME NEW j \in Jobs
        PROVE  /\ Holds(t, j)' => /\ job'[j].status = "running"
                                 /\ job'[j].phase = "read"
                                 /\ turn'[t].at = job'[j].at
               /\ Replies(t, j)' =>
                     /\ job'[j].status \in Ended
                     /\ job'[j].phase # "unread"
                     /\ answers'[j] = 0
                     /\ \A r \in Runs : Owns(r)' => proc'[r].job # j
    <2>1. CASE Holds(t, j)'
      <3>1. Holds(t, j) /\ Steady(j)
        BY <1>4, <2>1
      <3>2. ~Replies(t, j)'
        BY <2>1 DEF Holds, Replies
      <3>. QED
        BY <3>1, <3>2 DEF TurnSound, Steady, SameRun
    <2>2. CASE Replies(t, j)'
      <3>1. Replies(t, j) /\ Steady(j)
        BY <1>4, <2>2
      <3>2. ~Holds(t, j)'
        BY <2>2 DEF Holds, Replies
      <3>3. /\ job'[j].status \in Ended /\ job'[j].phase # "unread"
            /\ answers'[j] = 0
        BY <3>1 DEF TurnSound, Steady
      <3>4. \A r \in Runs : Owns(r)' => proc'[r].job # j
        BY <3>1, <3>3 DEF TurnSound, OwnersStay
      <3>. QED
        BY <3>2, <3>3, <3>4
    <2>. QED
      BY <2>1, <2>2
  <1>. QED
    BY <1>3, <1>4, <1>5 DEF TurnSound

(* A step in which no turn takes part.                                     *)
LEMMA TurnsRest ==
    ASSUME TypeOK, DeployedInv, turn' = turn, clock' \in {clock, clock + 1},
           OwnersStay,
           \A j \in Jobs : \/ Framed(j)
                           \/ /\ \A t \in Turns : ~Holds(t, j) /\ ~Replies(t, j)
                              /\ job'[j].at = job[j].at
    PROVE  (\A t \in Turns : TurnSound(t)') /\ TurnsApart'
  <1>1. ASSUME NEW t \in Turns
        PROVE  /\ TurnSound(t)'
               /\ \A j \in Jobs : /\ Holds(t, j)' => Holds(t, j)
                                  /\ Replies(t, j)' => Replies(t, j)
    BY TurnFrame DEF DeployedInv
  <1>. QED
    BY <1>1 DEF DeployedInv, TurnsApart

(* A step of one turn: it takes nothing up that another turn is at.        *)
LEMMA TurnMoves ==
    ASSUME TypeOK, DeployedInv, NEW t \in Turns, TurnSound(t)',
           \A u \in Turns \ {t} : turn'[u] = turn[u],
           clock' \in {clock, clock + 1}, OwnersStay,
           \A j \in Jobs :
              \/ Framed(j)
              \/ /\ \A u \in Turns \ {t} : ~Holds(u, j) /\ ~Replies(u, j)
                 /\ job'[j].at = job[j].at,
           \A j \in Jobs, u \in Turns \ {t} :
              /\ Holds(t, j)' => ~Holds(u, j)
              /\ Replies(t, j)' => ~Replies(u, j)
    PROVE  (\A u \in Turns : TurnSound(u)') /\ TurnsApart'
  <1>1. ASSUME NEW u \in Turns \ {t}
        PROVE  /\ TurnSound(u)'
               /\ \A j \in Jobs : /\ Holds(u, j)' => Holds(u, j)
                                  /\ Replies(u, j)' => Replies(u, j)
    BY TurnFrame DEF DeployedInv
  <1>2. TurnsApart'
    <2>. SUFFICES ASSUME NEW u \in Turns, NEW v \in Turns, NEW j \in Jobs,
                         \/ Holds(u, j)' /\ Holds(v, j)'
                         \/ Replies(u, j)' /\ Replies(v, j)'
                  PROVE  u = v
      BY DEF TurnsApart
    <2>1. CASE u # t /\ v # t
      BY <1>1, <2>1 DEF DeployedInv, TurnsApart
    <2>2. CASE (u = t /\ v # t) \/ (u # t /\ v = t)
      BY <1>1, <2>2
    <2>. QED
      BY <2>1, <2>2
  <1>. QED
    BY <1>1, <1>2

(* A process step in which no job gains an owner.                          *)
LEMMA RunsRest ==
    ASSUME QueueInv, DeployedInv, proc' = proc,
           \A j \in Jobs : \/ Framed(j)
                           \/ Ownerless(j) /\ job'[j].run = job[j].run
    PROVE  (\A s \in Runs : RunSound(s)') /\ OwnersStay
  <1>1. ASSUME NEW s \in Runs
        PROVE  RunSound(s)'
    <2>1. RunSound(s)
      BY DEF DeployedInv
    <2>2. ASSUME NEW j \in Jobs, Ownerless(j), job'[j].run = job[j].run
          PROVE  (job[j].run # s /\ job'[j].run # s) \/ ~Busy(s)
      BY <2>2 DEF Ownerless
    <2>. QED
      BY <2>1, <2>2, RunFrame
  <1>2. ASSUME NEW r \in Runs, Owns(r)'
        PROVE  Owns(r)
    <2>. DEFINE k == proc[r].job
    <2>1. Busy(r) /\ job'[k].run = r
      BY <1>2 DEF Owns, Busy
    <2>2. k \in Jobs
      BY <2>1, BusyProc DEF Busy, QueueInv
    <2>3. job'[k].run \in {job[k].run, NoRun}
      BY <2>2 DEF Framed, Steady, SameRun, Renewed, Absent, NewRecord
    <2>. QED
      BY <2>1, <2>3, QueueAssumption DEF Owns
  <1>. QED
    BY <1>1, <1>2 DEF OwnersStay

(* A step of the process r alone.                                          *)
LEMMA RunMoves ==
    ASSUME QueueInv, DeployedInv, NEW r \in Runs, RunSound(r)',
           \A s \in Runs \ {r} : proc'[s] = proc[s],
           \A j \in Jobs : \/ Framed(j)
                           \/ /\ job'[j].run = r
                              /\ \A s \in Runs \ {r} :
                                    job[j].run = s => proc[s].pc \in {"free"} \cup Over,
           \/ Owns(r)' => Owns(r) /\ proc'[r].job = proc[r].job
           \/ Busy(r)' /\ job'[proc'[r].job].status \notin Ended
    PROVE  (\A s \in Runs : RunSound(s)') /\ OwnersStay
  <1>1. ASSUME NEW s \in Runs \ {r}
        PROVE  RunSound(s)'
    <2>1. RunSound(s)
      BY DEF DeployedInv
    <2>2. ASSUME NEW j \in Jobs, job'[j].run = r,
                 job[j].run = s => proc[s].pc \in {"free"} \cup Over
          PROVE  \/ job[j].run # s /\ job'[j].run # s
                 \/ proc[s].pc \in Over /\ job'[j].run # s
                 \/ ~Busy(s)
      BY <2>2 DEF Busy
    <2>. QED
      BY <2>1, <2>2, RunFrame
  <1>2. ASSUME NEW s \in Runs \ {r}, Owns(s)'
        PROVE  Owns(s) /\ proc'[s].job = proc[s].job
    <2>. DEFINE k == proc[s].job
    <2>1. Busy(s) /\ job'[k].run = s /\ proc'[s].job = k
      BY <1>2 DEF Owns, Busy
    <2>2. k \in Jobs
      BY <2>1, BusyProc DEF Busy, QueueInv
    <2>3. Framed(k)
      BY <2>1, <2>2
    <2>4. job[k].run = s
      BY <2>1, <2>3, QueueAssumption
      DEF Framed, Steady, SameRun, Renewed, Absent, NewRecord
    <2>. QED
      BY <2>1, <2>4 DEF Owns
  <1>. QED
    BY <1>1, <1>2 DEF OwnersStay

-----------------------------------------------------------------------------
(***************************************************************************)
(* When besides nothing dies with an answer in hand, nobody is left        *)
(* without one: a handler that ended its job has printed the answer, and   *)
(* who takes it over holds it until the owner has it.                      *)
(***************************************************************************)
Calm == Deployed /\ {"restart", "answer-lost"} \cap Events = {}

Answering(r) ==
    LET k == proc[r].job IN
    /\ Owns(r)
    /\ proc[r].pc \in Over
    /\ k \notin Quiet
    /\ job[k].status \in Ended
    => proc[r].text = "reply"

Promised(j) ==
    j \notin Quiet /\ job[j].status \in Ended => answers[j] >= 1 \/ InHand(j)

CalmInv ==
    /\ \A r \in Runs : Answering(r)
    /\ \A j \in Jobs : Promised(j)

Answered == Calm /\ CalmInv => CalmInv'

(* What every step has to show.                                            *)
DeployedStep == DeployedInv' /\ (\A j \in Jobs : Tale(j)) /\ Answered

Simple(j) == (Steady(j) /\ out'[j] = out[j]) \/ Renewed(j)

LEMMA SimpleFramed ==
    /\ \A j \in Jobs : Simple(j) => Framed(j)
    /\ \A j \in Jobs : Simple(j) => Tale(j)
  BY FramedTale DEF Simple, Framed

(* A file the step leaves alone, or prunes.                                *)
LEMMA SameIsSimple ==
    ASSUME NEW j \in Jobs, job'[j] = job[j], out'[j] = out[j],
           answers'[j] = answers[j]
    PROVE  Simple(j)
  BY DEF Simple, Steady, SameRun

LEMMA KeptIsSimple ==
    ASSUME TypeOK, NEW j \in Jobs, job'[j] = Kept[j], out'[j] = KeptOut[j],
           answers'[j] = answers[j]
    PROVE  Simple(j)
  BY KeptLemma DEF Simple, Steady, SameRun, Renewed, Ended

LEMMA SimpleFile ==
    ASSUME NEW j \in Jobs, FileSound(j), Simple(j),
           \A s \in Runs :
              (Busy(s) /\ proc[s].job = j) \/ (Busy(s)' /\ proc'[s].job = j)
                 => proc'[s] = proc[s]
    PROVE  FileSound(j)'
  <1>1. CASE Steady(j) /\ out'[j] = out[j]
    BY <1>1, FileFrame DEF Steady, SameRun
  <1>2. CASE Renewed(j)
    <2>1. job'[j].run \notin Runs /\ out'[j] = NoFile
      BY <1>2, QueueAssumption DEF Renewed, Absent, NewRecord
    <2>. QED
      BY <2>1, FileFrame
  <1>. QED
    BY <1>1, <1>2 DEF Simple

(* The answer of a job that a step does not touch stays where it is.       *)
LEMMA PromisedStays ==
    ASSUME NEW j \in Jobs, Promised(j), Framed(j),
           \A s \in Runs : job[j].run = s /\ proc[s].up => proc'[s].up,
           \A t \in Turns : Replies(t, j) => turn'[t] = turn[t]
    PROVE  Promised(j)'
  <1>1. CASE Renewed(j)
    BY <1>1 DEF Renewed, Absent, NewRecord, Promised, Ended
  <1>2. CASE Steady(j)
    <2>1. Alive(job[j].run) => Alive(job[j].run)'
      BY <1>2 DEF Alive, Steady, SameRun
    <2>2. InHand(j) => InHand(j)'
      BY <1>2, <2>1 DEF InHand, Steady, SameRun, Replies
    <2>. QED
      BY <1>2, <2>2 DEF Promised, Steady
  <1>. QED
    BY <1>1, <1>2 DEF Framed

LEMMA AnsweringStays ==
    ASSUME TypeOK, NEW s \in Runs, Answering(s), proc'[s] = proc[s],
           \A j \in Jobs : \/ Framed(j)
                           \/ job'[j].run # s
                           \/ Ownerless(j) /\ job[j].run = s
    PROVE  Answering(s)'
  <1>1. CASE Busy(s)
    <2>1. PICK k \in Jobs : k = proc[s].job
      BY <1>1, BusyProc DEF Busy
    <2>. SUFFICES ASSUME job'[k].run = s, job'[k].status \in Ended
                  PROVE  /\ job[k].run = s
                         /\ job[k].status \in Ended
      <3>1. Answering(s)' <=>
               ((/\ job'[k].run = s /\ proc[s].pc \in Over /\ k \notin Quiet
                 /\ job'[k].status \in Ended) => proc[s].text = "reply")
        BY <1>1, <2>1 DEF Answering, Owns, Busy
      <3>2. Answering(s) <=>
               ((/\ job[k].run = s /\ proc[s].pc \in Over /\ k \notin Quiet
                 /\ job[k].status \in Ended) => proc[s].text = "reply")
        BY <1>1, <2>1 DEF Answering, Owns
      <3>. QED
        BY <3>1, <3>2
    <2>2. ~Renewed(k)
      BY QueueAssumption DEF Renewed, Absent, NewRecord
    <2>3. ~(Ownerless(k) /\ job[k].run = s)
      BY <1>1 DEF Ownerless
    <2>4. Steady(k)
      BY <2>2, <2>3 DEF Framed
    <2>. QED
      BY <2>4 DEF Steady, SameRun
  <1>2. CASE ~Busy(s)
    BY <1>2 DEF Answering, Owns, Busy
  <1>. QED
    BY <1>1, <1>2

(* The steps of neither runner nor turn, that leave every job's state or   *)
(* start it anew.                                                          *)
LEMMA SimpleStep ==
    ASSUME QueueInv, DeployedInv, proc' = proc, turn' = turn,
           clock' \in {clock, clock + 1}, \A j \in Jobs : Simple(j)
    PROVE  DeployedStep
  <1>0. TypeOK
    BY DEF QueueInv
  <1>1. \A j \in Jobs : Framed(j) /\ Tale(j)
    BY SimpleFramed
  <1>2. \A j \in Jobs : JobSound(j)' /\ FileSound(j)'
    <2>. SUFFICES ASSUME NEW j \in Jobs PROVE JobSound(j)' /\ FileSound(j)'
      OBVIOUS
    <2>1. JobSound(j) /\ FileSound(j) /\ Simple(j)
      BY DEF DeployedInv
    <2>2. JobSound(j)'
      BY <1>0, <2>1, JobFrame DEF Simple
    <2>. QED
      BY <2>1, <2>2, SimpleFile
  <1>3. (\A s \in Runs : RunSound(s)') /\ OwnersStay
    BY <1>1, RunsRest
  <1>4. (\A t \in Turns : TurnSound(t)') /\ TurnsApart'
    BY <1>0, <1>1, <1>3, TurnsRest
  <1>5. Answered
    <2>. SUFFICES ASSUME CalmInv PROVE CalmInv'
      BY DEF Answered
    <2>1. ASSUME NEW j \in Jobs PROVE Promised(j)'
      BY <1>1, PromisedStays DEF CalmInv
    <2>2. ASSUME NEW r \in Runs PROVE Answering(r)'
      BY <1>0, <1>1, AnsweringStays DEF CalmInv
    <2>. QED
      BY <2>1, <2>2 DEF CalmInv
  <1>. QED
    BY <1>1, <1>2, <1>3, <1>4, <1>5 DEF DeployedStep, DeployedInv

(* A step at the one job k, that no process is at and no turn holds or     *)
(* answers, and perhaps of one turn t.                                     *)
LEMMA JobStep ==
    ASSUME QueueInv, DeployedInv, NEW k \in Jobs, proc' = proc,
           clock' = clock, \A j \in Jobs \ {k} : Simple(j), Ownerless(k),
           SameRun(k), JobSound(k)', FileSound(k)', Tale(k), NEW t \in Turns,
           TurnSound(t)' \/ turn'[t] = turn[t],
           \A u \in Turns \ {t} : turn'[u] = turn[u],
           \A u \in Turns \ {t} : ~Holds(u, k) /\ ~Replies(u, k),
           \A j \in Jobs : Holds(t, j)' \/ Replies(t, j)' => j = k,
           turn'[t] = turn[t] => ~Holds(t, k) /\ ~Replies(t, k),
           \A j \in Jobs \ {k} : ~Replies(t, j) \/ turn'[t] = turn[t],
           Calm /\ CalmInv => Promised(k)'
    PROVE  DeployedStep
  <1>0. TypeOK
    BY DEF QueueInv
  <1>1. \A j \in Jobs \ {k} : Framed(j) /\ Tale(j)
    BY SimpleFramed
  <1>2. \A j \in Jobs : JobSound(j)' /\ FileSound(j)'
    <2>. SUFFICES ASSUME NEW j \in Jobs \ {k}
                  PROVE  JobSound(j)' /\ FileSound(j)'
      OBVIOUS
    <2>1. JobSound(j) /\ FileSound(j) /\ Simple(j)
      BY DEF DeployedInv
    <2>2. JobSound(j)'
      BY <1>0, <2>1, JobFrame DEF Simple
    <2>3. \A s \in Runs :
             (Busy(s) /\ proc[s].job = j) \/ (Busy(s)' /\ proc'[s].job = j)
                => proc'[s] = proc[s]
      BY DEF Busy
    <2>. QED
      BY <2>1, <2>2, <2>3, SimpleFile
  <1>3. (\A s \in Runs : RunSound(s)') /\ OwnersStay
    <2>1. job'[k].run = job[k].run
      BY DEF SameRun
    <2>. QED
      BY <1>1, <2>1, RunsRest
  <1>4. TurnSound(t)'
    <2>1. CASE turn'[t] = turn[t]
      <3>1. job'[k].at = job[k].at /\ TurnSound(t)
        BY DEF SameRun, DeployedInv
      <3>. QED
        BY <1>0, <1>1, <1>3, <2>1, <3>1, TurnFrame
    <2>. QED
      BY <2>1
  <1>5. (\A u \in Turns : TurnSound(u)') /\ TurnsApart'
    <2>1. job'[k].at = job[k].at
      BY DEF SameRun
    <2>3. \A j \in Jobs, u \in Turns \ {t} :
             /\ Holds(t, j)' => ~Holds(u, j)
             /\ Replies(t, j)' => ~Replies(u, j)
      OBVIOUS
    <2>. QED
      BY <1>0, <1>1, <1>3, <1>4, <2>1, <2>3, TurnMoves
  <1>6. Answered
    <2>. SUFFICES ASSUME Calm, CalmInv PROVE CalmInv'
      BY DEF Answered
    <2>1. ASSUME NEW j \in Jobs \ {k} PROVE Promised(j)'
      BY <1>1, PromisedStays DEF CalmInv
    <2>2. ASSUME NEW s \in Runs PROVE Answering(s)'
      <3>1. \A j \in Jobs : \/ Framed(j)
                            \/ job'[j].run # s
                            \/ Ownerless(j) /\ job[j].run = s
        BY <1>1 DEF SameRun
      <3>. QED
        BY <1>0, <3>1, AnsweringStays DEF CalmInv
    <2>. QED
      BY <2>1, <2>2 DEF CalmInv
  <1>. QED
    BY <1>1, <1>2, <1>3, <1>5, <1>6 DEF DeployedStep, DeployedInv

(* A step of one turn that takes up nothing, and of no file.               *)
LEMMA TurnOnly ==
    ASSUME QueueInv, DeployedInv, NEW t \in Turns, UNCHANGED <<job, out, proc,
           clock, answers>>, TurnSound(t)',
           \A u \in Turns \ {t} : turn'[u] = turn[u],
           \A j \in Jobs : /\ Holds(t, j)' => Holds(t, j)
                           /\ Replies(t, j)' => Replies(t, j),
           Calm => \A j \in Jobs : ~Replies(t, j)
    PROVE  DeployedStep
  <1>0. TypeOK
    BY DEF QueueInv
  <1>1. \A j \in Jobs : Simple(j)
    BY SameIsSimple
  <1>2. \A j \in Jobs : Framed(j) /\ Tale(j)
    BY <1>1, SimpleFramed
  <1>3. \A j \in Jobs : JobSound(j)' /\ FileSound(j)'
    <2>. SUFFICES ASSUME NEW j \in Jobs PROVE JobSound(j)' /\ FileSound(j)'
      OBVIOUS
    <2>1. JobSound(j) /\ FileSound(j) /\ Simple(j)
      BY <1>1 DEF DeployedInv
    <2>2. JobSound(j)'
      BY <1>0, <2>1, JobFrame DEF Simple
    <2>. QED
      BY <2>1, <2>2, SimpleFile
  <1>4. (\A s \in Runs : RunSound(s)') /\ OwnersStay
    BY <1>2, RunsRest
  <1>5. (\A u \in Turns : TurnSound(u)') /\ TurnsApart'
    <2>1. \A j \in Jobs, u \in Turns \ {t} :
             /\ Holds(t, j)' => ~Holds(u, j)
             /\ Replies(t, j)' => ~Replies(u, j)
      BY DEF DeployedInv, TurnsApart
    <2>. QED
      BY <1>0, <1>2, <1>4, <2>1, TurnMoves
  <1>6. Answered
    <2>. SUFFICES ASSUME Calm, CalmInv PROVE CalmInv'
      BY DEF Answered
    <2>1. ASSUME NEW j \in Jobs PROVE Promised(j)'
      BY <1>2, PromisedStays DEF CalmInv
    <2>2. ASSUME NEW r \in Runs PROVE Answering(r)'
      BY <1>0, <1>2, AnsweringStays DEF CalmInv
    <2>. QED
      BY <2>1, <2>2 DEF CalmInv
  <1>. QED
    BY <1>2, <1>3, <1>4, <1>5, <1>6 DEF DeployedStep, DeployedInv

(* A step of the process r, and perhaps of the job k it is at or starts.   *)
LEMMA RunStep ==
    ASSUME QueueInv, DeployedInv, NEW r \in Runs, NEW k \in Jobs,
           UNCHANGED <<turn, clock>>, RunSound(r)',
           \A s \in Runs \ {r} : proc'[s] = proc[s],
           \A j \in Jobs \ {k} : Simple(j),
           \/ Steady(k)
           \/ /\ job'[k].run = r
              /\ job'[k].at = job[k].at
              /\ \A s \in Runs \ {r} :
                    job[k].run = s => proc[s].pc \in {"free"} \cup Over
              /\ \A t \in Turns : ~Holds(t, k) /\ ~Replies(t, k),
           JobSound(k)', FileSound(k)', Tale(k),
           Busy(r) => proc[r].job = k,
           Busy(r)' => proc'[r].job = k,
           \/ Owns(r)' => Owns(r) /\ proc'[r].job = proc[r].job
           \/ Busy(r)' /\ job'[proc'[r].job].status \notin Ended,
           \A j \in Jobs \ {k} : job[j].run # r \/ proc'[r].up,
           Calm /\ CalmInv => Promised(k)' /\ Answering(r)'
    PROVE  DeployedStep
  <1>0. TypeOK
    BY DEF QueueInv
  <1>1. \A j \in Jobs \ {k} : Framed(j) /\ Tale(j)
    BY SimpleFramed
  <1>2. \A j \in Jobs : JobSound(j)' /\ FileSound(j)'
    <2>. SUFFICES ASSUME NEW j \in Jobs \ {k}
                  PROVE  JobSound(j)' /\ FileSound(j)'
      OBVIOUS
    <2>1. JobSound(j) /\ FileSound(j) /\ Simple(j)
      BY DEF DeployedInv
    <2>2. JobSound(j)'
      BY <1>0, <2>1, JobFrame DEF Simple
    <2>3. \A s \in Runs :
             (Busy(s) /\ proc[s].job = j) \/ (Busy(s)' /\ proc'[s].job = j)
                => proc'[s] = proc[s]
      BY DEF Busy
    <2>. QED
      BY <2>1, <2>2, <2>3, SimpleFile
  <1>3. (\A s \in Runs : RunSound(s)') /\ OwnersStay
    <2>1. \A j \in Jobs :
             \/ Framed(j)
             \/ /\ job'[j].run = r
                /\ \A s \in Runs \ {r} :
                      job[j].run = s => proc[s].pc \in {"free"} \cup Over
      BY <1>1 DEF Framed
    <2>. QED
      BY <2>1, RunMoves
  <1>4. (\A t \in Turns : TurnSound(t)') /\ TurnsApart'
    <2>1. \A j \in Jobs :
             \/ Framed(j)
             \/ /\ \A t \in Turns : ~Holds(t, j) /\ ~Replies(t, j)
                /\ job'[j].at = job[j].at
      BY <1>1 DEF Framed
    <2>. QED
      BY <1>0, <1>3, <2>1, TurnsRest
  <1>5. Answered
    <2>. SUFFICES ASSUME Calm, CalmInv PROVE CalmInv'
      BY DEF Answered
    <2>1. ASSUME NEW j \in Jobs \ {k} PROVE Promised(j)'
      <3>1. \A s \in Runs : job[j].run = s /\ proc[s].up => proc'[s].up
        OBVIOUS
      <3>. QED
        BY <1>1, <3>1, PromisedStays DEF CalmInv
    <2>2. ASSUME NEW s \in Runs \ {r} PROVE Answering(s)'
      <3>1. \A j \in Jobs : Framed(j) \/ job'[j].run # s
        BY <1>1 DEF Framed
      <3>. QED
        BY <1>0, <3>1, AnsweringStays DEF CalmInv
    <2>. QED
      BY <2>1, <2>2 DEF CalmInv
  <1>. QED
    BY <1>1, <1>2, <1>3, <1>4, <1>5 DEF DeployedStep, DeployedInv

-----------------------------------------------------------------------------
(* The client and the gate.                                                *)
LEMMA ClientDeployed ==
    ASSUME QueueInv, DeployedInv, TypeOK', Deployed, ClientStep
    PROVE  DeployedStep
  <1>0. TypeOK /\ clock \in Nat
    BY QueueAssumption DEF QueueInv, TypeOK
  <1>1. ASSUME NEW k \in Jobs, Add(k)
        PROVE  DeployedStep
    <2>1. /\ job' = [Kept EXCEPT ![k] = NewRecord(k)]
          /\ out' = [KeptOut EXCEPT ![k] = NoFile]
          /\ answers' = [answers EXCEPT ![k] = 0]
          /\ clock' = clock + 1
          /\ proc' = proc /\ turn' = turn
          /\ Kept[k].status \notin Live
      BY <1>1 DEF Add
    <2>2. Renewed(k)
      <3>1. job[k].status # "running"
        BY <1>0, <2>1, KeptLemma DEF Live, Ended
      <3>2. job'[k] = NewRecord(k) /\ out'[k] = NoFile /\ answers'[k] = 0
        BY <1>0, <2>1, KeptLemma DEF TypeOK
      <3>. QED
        BY <2>1, <3>1, <3>2 DEF Renewed
    <2>3. ASSUME NEW j \in Jobs, j # k PROVE Simple(j)
      BY <1>0, <2>1, <2>3, KeptLemma, KeptIsSimple DEF TypeOK
    <2>4. \A j \in Jobs : Simple(j)
      BY <2>2, <2>3 DEF Simple
    <2>. QED
      BY <2>1, <2>4, SimpleStep
  <1>2. ASSUME NEW k \in Jobs, Drop(k)
        PROVE  DeployedStep
    <2>1. /\ job' = [job EXCEPT ![k] = Absent]
          /\ out' = [out EXCEPT ![k] = NoFile]
          /\ answers' = [answers EXCEPT ![k] = 0]
          /\ UNCHANGED <<proc, turn, clock>>
          /\ job[k].status # "running"
      BY <1>2 DEF Drop, Deployed
    <2>2. Renewed(k)
      BY <1>0, <2>1 DEF Renewed, TypeOK
    <2>3. ASSUME NEW j \in Jobs, j # k PROVE Simple(j)
      BY <1>0, <2>1, <2>3, SameIsSimple DEF TypeOK
    <2>4. \A j \in Jobs : Simple(j)
      BY <2>2, <2>3 DEF Simple
    <2>. QED
      BY <2>1, <2>4, SimpleStep
  <1>3. CASE OnlyPrunes
    <2>1. \A j \in Jobs : Simple(j)
      BY <1>0, <1>3, KeptIsSimple DEF OnlyPrunes
    <2>. QED
      BY <1>3, <2>1, SimpleStep DEF OnlyPrunes
  <1>. QED
    BY <1>1, <1>2, <1>3 DEF ClientStep

(* The turn that a gate tells of an unread output.                         *)
LEMMA OffersDeployed ==
    ASSUME QueueInv, DeployedInv, NEW g \in Gates, NEW t \in Turns,
           GateOffers(g, t)
    PROVE  DeployedStep
  <1>0. TypeOK
    BY DEF QueueInv
  <1>1. PICK c \in Oldest(Tickets(Unread)) :
           /\ job' = [Kept EXCEPT ![c.id].offers = @ + 1]
           /\ turn' = [turn EXCEPT ![t] = [pc |-> "told", job |-> c.id,
                                           at |-> c.at]]
    BY DEF GateOffers
  <1>2. /\ UNCHANGED <<proc, clock, answers>>
        /\ out' = KeptOut
        /\ turn[t].pc = "idle"
    BY DEF GateOffers
  <1>. DEFINE k == c.id
  <1>3. /\ k \in Jobs /\ c.at = job[k].at /\ ~Prunable(k)
        /\ job[k].phase = "unread"
    BY <1>0, OldestLemma DEF Unread
  <1>4. /\ Kept[k] = job[k] /\ KeptOut[k] = out[k]
        /\ Kept \in [Jobs -> JobRecord]
    BY <1>0, <1>3, UnprunedJob, KeptLemma
  <1>. HIDE DEF k
  <1>5. Steady(k) /\ out'[k] = out[k]
    <2>1. job'[k] = [Kept[k] EXCEPT !.offers = @ + 1]
      BY <1>1, <1>3, <1>4 DEF k
    <2>. QED
      BY <1>2, <1>4, <2>1 DEF Steady, SameRun, JobRecord
  <1>6. ASSUME NEW j \in Jobs, j # k PROVE Simple(j)
    BY <1>0, <1>1, <1>2, <1>4, <1>6, KeptIsSimple DEF k
  <1>7. \A j \in Jobs : Simple(j) /\ Framed(j) /\ Tale(j)
    BY <1>5, <1>6, SimpleFramed DEF Simple
  <1>8. \A j \in Jobs : JobSound(j)' /\ FileSound(j)'
    <2>. SUFFICES ASSUME NEW j \in Jobs PROVE JobSound(j)' /\ FileSound(j)'
      OBVIOUS
    <2>1. JobSound(j) /\ FileSound(j) /\ Simple(j)
      BY <1>7 DEF DeployedInv
    <2>2. JobSound(j)'
      BY <1>0, <1>2, <2>1, JobFrame DEF Simple
    <2>. QED
      BY <1>2, <2>1, <2>2, SimpleFile
  <1>9. (\A s \in Runs : RunSound(s)') /\ OwnersStay
    BY <1>2, <1>7, RunsRest
  <1>10. /\ turn'[t].pc = "told" /\ turn'[t].at = job[k].at
         /\ \A u \in Turns \ {t} : turn'[u] = turn[u]
    BY <1>0, <1>1, <1>3 DEF TypeOK, k
  <1>11. TurnSound(t)'
    <2>1. job[k].at \in 1..clock
      <3>1. JobSound(k) /\ job[k].at \in Nat /\ clock \in Nat
        BY <1>0, <1>3, QueueAssumption DEF DeployedInv, TypeOK, JobRecord, k
      <3>. QED
        BY <1>3, <3>1 DEF JobSound, Ended, k
    <2>. QED
      BY <1>2, <1>10, <2>1 DEF TurnSound, Holds, Replies
  <1>12. (\A u \in Turns : TurnSound(u)') /\ TurnsApart'
    <2>1. \A j \in Jobs, u \in Turns \ {t} :
             /\ Holds(t, j)' => ~Holds(u, j)
             /\ Replies(t, j)' => ~Replies(u, j)
      BY <1>10 DEF Holds, Replies
    <2>. QED
      BY <1>0, <1>2, <1>7, <1>9, <1>10, <1>11, <2>1, TurnMoves
  <1>13. Answered
    <2>. SUFFICES ASSUME CalmInv PROVE CalmInv'
      BY DEF Answered
    <2>1. ASSUME NEW j \in Jobs PROVE Promised(j)'
      <3>1. \A u \in Turns : Replies(u, j) => turn'[u] = turn[u]
        BY <1>2, <1>10 DEF Replies
      <3>. QED
        BY <1>2, <1>7, <3>1, PromisedStays DEF CalmInv
    <2>2. ASSUME NEW r \in Runs PROVE Answering(r)'
      BY <1>0, <1>2, <1>7, AnsweringStays DEF CalmInv
    <2>. QED
      BY <2>1, <2>2 DEF CalmInv
  <1>. QED
    BY <1>7, <1>8, <1>9, <1>12, <1>13 DEF DeployedStep, DeployedInv

(* The gate ends the job k and hands a turn the message about it.          *)
LEMMA GivenUp ==
    ASSUME QueueInv, DeployedInv, NEW k \in Jobs, NEW t \in Turns,
           \A j \in Jobs \ {k} : Simple(j), SameRun(k), Ownerless(k),
           job[k].phase # "read", \A u \in Turns : ~Replies(u, k),
           job'[k].status \in Ended,
           job[k].status \in {"running", job'[k].status},
           job'[k].phase \in {job[k].phase, "empty"} \ {"unread"},
           \/ out'[k] = out[k] /\ job'[k].phase = job[k].phase
           \/ out'[k] = NoFile,
           answers' = answers, answers[k] = 0, proc' = proc, clock' = clock,
           turn[t].pc = "idle",
           \/ turn' = turn /\ k \in Quiet
           \/ turn' = [turn EXCEPT ![t] = [pc |-> "replying", job |-> k,
                                           at |-> job[k].at]]
    PROVE  DeployedStep
  <1>0. TypeOK /\ clock \in Nat /\ job[k].at \in Nat /\ JobSound(k)
    BY QueueAssumption DEF QueueInv, TypeOK, JobRecord, DeployedInv
  <1>1. job[k].at \in 1..clock
    BY <1>0 DEF JobSound, Ended
  <1>2. JobSound(k)'
    BY <1>0, <1>1 DEF JobSound, SameRun, Live, Ended
  <1>f. FileSound(k)'
    <2>1. \A s \in Runs : job'[k].run = s => ~Busy(s)'
      BY DEF Ownerless, SameRun, Busy
    <2>. QED
      BY <2>1, FileFrame DEF DeployedInv, SameRun
  <1>3. Tale(k)
    BY DEF Tale
  <1>4. \A u \in Turns : ~Holds(u, k)
    BY DEF DeployedInv, TurnSound
  <1>5. CASE turn' = turn /\ k \in Quiet
    <2>1. \A j \in Jobs : ~Holds(t, j)' /\ ~Replies(t, j)'
      BY <1>5 DEF Holds, Replies
    <2>2. Promised(k)'
      BY <1>5 DEF Promised
    <2>. QED
      BY <1>2, <1>f, <1>3, <1>4, <1>5, <2>1, <2>2, JobStep
  <1>6. CASE turn' = [turn EXCEPT ![t] = [pc |-> "replying", job |-> k,
                                          at |-> job[k].at]]
    <2>1. /\ turn'[t] = [pc |-> "replying", job |-> k, at |-> job[k].at]
          /\ \A u \in Turns \ {t} : turn'[u] = turn[u]
      BY <1>0, <1>6 DEF TypeOK
    <2>2. \A r \in Runs : Owns(r)' => proc'[r].job # k
      BY DEF Ownerless, Owns, Busy, SameRun
    <2>3. TurnSound(t)'
      BY <1>1, <2>1, <2>2 DEF TurnSound, Holds, Replies, SameRun
    <2>4. \A j \in Jobs : Holds(t, j)' \/ Replies(t, j)' => j = k
      BY <2>1 DEF Holds, Replies
    <2>5. turn'[t] # turn[t]
      BY <2>1
    <2>6. Promised(k)' /\ \A j \in Jobs : ~Replies(t, j)
      BY <2>1 DEF Promised, InHand, Replies, SameRun
    <2>. QED
      BY <1>2, <1>f, <1>3, <1>4, <2>1, <2>3, <2>4, <2>5, <2>6, JobStep
  <1>. QED
    BY <1>5, <1>6

LEMMA WithdrawsDeployed ==
    ASSUME QueueInv, DeployedInv, NEW g \in Gates, NEW t \in Turns,
           GateWithdraws(g, t)
    PROVE  DeployedStep
  <1>0. TypeOK
    BY DEF QueueInv
  <1>1. PICK c \in Oldest(Tickets(Unread)) :
           /\ job' = [Kept EXCEPT
                        ![c.id].phase = "empty",
                        ![c.id].status = IF @ = "running" THEN "failed" ELSE @]
           /\ out' = [KeptOut EXCEPT ![c.id] = NoFile]
           /\ TellGivenUp(t, c)
    BY DEF GateWithdraws
  <1>2. UNCHANGED <<proc, clock, answers>> /\ turn[t].pc = "idle"
    BY DEF GateWithdraws
  <1>. DEFINE k == c.id
  <1>3. /\ k \in Jobs /\ c.at = job[k].at /\ ~Prunable(k)
        /\ job[k].phase = "unread"
    BY <1>0, OldestLemma DEF Unread
  <1>4. /\ Kept[k] = job[k] /\ Kept \in [Jobs -> JobRecord]
        /\ KeptOut \in [Jobs -> Output]
    BY <1>0, <1>3, UnprunedJob, KeptLemma
  <1>5. /\ job'[k].run = job[k].run /\ job'[k].at = job[k].at
        /\ job'[k].phase = "empty" /\ out'[k] = NoFile
        /\ job'[k].status = IF job[k].status = "running" THEN "failed"
                            ELSE job[k].status
    BY <1>1, <1>3, <1>4 DEF JobRecord
  <1>6. ASSUME NEW j \in Jobs, j # k PROVE Simple(j)
    BY <1>0, <1>1, <1>2, <1>4, <1>6, KeptIsSimple
  <1>7. \/ turn' = turn /\ k \in Quiet
        \/ turn' = [turn EXCEPT ![t] = [pc |-> "replying", job |-> k,
                                        at |-> job[k].at]]
    BY <1>1, <1>3 DEF TellGivenUp
  <1>. HIDE DEF k
  <1>8. JobSound(k)
    BY <1>3 DEF DeployedInv
  <1>9. Ownerless(k) /\ \A u \in Turns : ~Replies(u, k)
    BY <1>3, NotStarted DEF DeployedInv, TurnSound
  <1>10. job'[k].status \in Ended /\ answers[k] = 0
    BY <1>3, <1>5, <1>8 DEF JobSound, Ended
  <1>. QED
    BY <1>2, <1>3, <1>5, <1>6, <1>7, <1>9, <1>10, GivenUp DEF SameRun

LEMMA GivesUpDeployed ==
    ASSUME QueueInv, DeployedInv, NEW g \in Gates, NEW t \in Turns,
           GateGivesUp(g, t)
    PROVE  DeployedStep
  <1>0. TypeOK
    BY DEF QueueInv
  <1>1. PICK c \in Oldest(Tickets(Exhausted)) :
           /\ job' = [Kept EXCEPT ![c.id].status = "failed"]
           /\ TellGivenUp(t, c)
    BY DEF GateGivesUp
  <1>2. /\ UNCHANGED <<proc, clock, answers>> /\ turn[t].pc = "idle"
        /\ out' = KeptOut
    BY DEF GateGivesUp
  <1>. DEFINE k == c.id
  <1>3. k \in Jobs /\ c.at = job[k].at /\ ~Prunable(k) /\ Stale(k, {})
    BY <1>0, OldestLemma DEF Exhausted, Runnable, Stale, Prunable, Ended
  <1>4. /\ Kept[k] = job[k] /\ Kept \in [Jobs -> JobRecord]
        /\ KeptOut[k] = out[k]
    BY <1>0, <1>3, UnprunedJob, KeptLemma
  <1>5. /\ job'[k].run = job[k].run /\ job'[k].at = job[k].at
        /\ job'[k].phase = job[k].phase /\ out'[k] = out[k]
        /\ job'[k].status = "failed"
    BY <1>1, <1>2, <1>3, <1>4 DEF JobRecord
  <1>6. ASSUME NEW j \in Jobs, j # k PROVE Simple(j)
    BY <1>0, <1>1, <1>2, <1>4, <1>6, KeptIsSimple
  <1>7. \/ turn' = turn /\ k \in Quiet
        \/ turn' = [turn EXCEPT ![t] = [pc |-> "replying", job |-> k,
                                        at |-> job[k].at]]
    BY <1>1, <1>3 DEF TellGivenUp
  <1>. HIDE DEF k
  <1>8. /\ job[k].status = "running"
        /\ job[k].phase \in {"started", "lapsed", "empty"}
        /\ job[k].phase = "started" => ~Alive(job[k].run)
    BY <1>3 DEF Stale
  <1>9. JobSound(k)
    BY <1>3 DEF DeployedInv
  <1>10. Ownerless(k) /\ \A u \in Turns : ~Replies(u, k)
    BY <1>3, <1>8, NotStarted DEF DeployedInv, TurnSound, Ended
  <1>11. answers[k] = 0
    BY <1>8, <1>9 DEF JobSound, Live
  <1>. QED
    BY <1>2, <1>3, <1>5, <1>6, <1>7, <1>8, <1>10, <1>11, GivenUp
    DEF SameRun, Ended

(* The gate that starts a runner, and is killed before or after it saves.  *)
LEMMA StartsDeployed ==
    ASSUME QueueInv, DeployedInv, NEW g \in Gates, NEW r \in Runs,
           GateStarts(g, r) \/ GateKilledStarting(g, r)
    PROVE  DeployedStep
  <1>0. TypeOK
    BY DEF QueueInv
  <1>1. /\ UNCHANGED <<out, turn, clock, answers>>
        /\ Fresh(r) /\ gate[g].pc = "picked"
    BY DEF GateStarts, GateKilledStarting
  <1>2. PICK c \in gate[g].ready :
           /\ MayStart(g, c.id)
           /\ Spawn(r, c.id)
           /\ job' = [job EXCEPT ![c.id] = Claimed(c.id, r)] \/ job' = job
    BY DEF GateStarts, GateKilledStarting
  <1>. DEFINE k == c.id
  <1>3. /\ k \in Jobs
        /\ \/ job[k].status = "queued"
           \/ Stale(k, gate[g].late)
    BY <1>2 DEF MayStart, Runnable
  <1>4. /\ \A s \in Runs \ {r} : proc'[s] = proc[s]
        /\ proc'[r] = [pc |-> "spawned", job |-> k, at |-> job[k].at,
                       up |-> TRUE, text |-> "none"]
        /\ \A j \in Jobs : job[j].run # r
    BY <1>0, <1>1, <1>2 DEF Spawn, Fresh, TypeOK
  <1>5. job' = job \/ job' = [job EXCEPT ![k] = Claimed(k, r)]
    BY <1>2
  <1>. HIDE DEF k
  <1>6. \A j \in Jobs \ {k} : Simple(j)
    BY <1>0, <1>1, <1>5, SameIsSimple DEF TypeOK
  <1>7. /\ JobSound(k) /\ FileSound(k) /\ proc[r].pc = "free"
        /\ job[k].status \in Live
        /\ job[k].phase \in {"started", "lapsed", "empty"} \/ job[k].status = "queued"
        /\ job[k].phase = "started" =>
              ~Alive(job[k].run) \/ job[k].status = "queued"
    BY <1>1, <1>3 DEF DeployedInv, Stale, Live, Fresh
  <1>8. CASE job' = job
    <2>1. Simple(k)
      BY <1>1, <1>3, <1>8, SameIsSimple
    <2>2. JobSound(k)' /\ Tale(k) /\ Steady(k)
      BY <1>0, <1>1, <1>3, <1>7, <1>8, <2>1, JobFrame, SimpleFramed
      DEF Steady, SameRun
    <2>3. ~Owns(r)'
      BY <1>3, <1>4, <1>8 DEF Owns
    <2>f. FileSound(k)'
      <3>1. ASSUME NEW s \in out[k].by PROVE HasOpen(s, k)'
        <4>1. HasOpen(s, k) /\ s # r
          BY <1>3, <1>7 DEF FileSound, HasOpen, Printing, Over
        <4>. QED
          BY <1>4, <1>8, <4>1 DEF HasOpen, Owns, Busy
      <3>2. ASSUME NEW s \in Runs PROVE SaysOf(s, k)'
        <4>1. s # r => SaysOf(s, k)
          BY <1>7 DEF FileSound
        <4>. QED
          BY <1>1, <1>4, <1>8, <2>3, <4>1 DEF SaysOf, Owns, Busy
      <3>. QED
        BY <1>1, <1>7, <1>8, <3>1, <3>2 DEF FileSound
    <2>4. RunSound(r)'
      BY <1>4, <1>8, <2>3 DEF RunSound, Busy, Working, Printing, Over
    <2>5. Calm /\ CalmInv => Promised(k)' /\ Answering(r)'
      <3>1. \A s \in Runs : job[k].run = s /\ proc[s].up => proc'[s].up
        BY <1>3, <1>4
      <3>2. CalmInv => Promised(k)'
        BY <1>1, <1>3, <2>2, <3>1, PromisedStays DEF CalmInv, Framed
      <3>. QED
        BY <2>3, <3>2 DEF Answering
    <2>. QED
      BY <1>1, <1>3, <1>4, <1>6, <1>7, <2>2, <2>f, <2>3, <2>4, <2>5, RunStep
      DEF Busy
  <1>9. CASE job' = [job EXCEPT ![k] = Claimed(k, r)]
    <2>1. job'[k] = Claimed(k, r)
      BY <1>0, <1>3, <1>9 DEF TypeOK
    <2>2. JobSound(k)'
      BY <1>1, <1>7, <2>1 DEF JobSound, Claimed, Live, Ended
    <2>3. Tale(k)
      BY <1>1, <1>7, <2>1 DEF Tale, Claimed, Live
    <2>4. \A j \in Jobs : job'[j].run = r => j = k
      BY <1>0, <1>4, <1>9 DEF TypeOK
    <2>5. RunSound(r)' /\ Busy(r)' /\ proc'[r].job = k
      BY <1>4, <2>1, <2>4
      DEF RunSound, Busy, Owns, Working, Printing, Over, Claimed
    <2>6. ASSUME NEW s \in Runs \ {r}, job[k].run = s, Busy(s)
          PROVE  proc[s].pc = "exited" /\ proc[s].text \in {"none", "dead"}
      <3>1. RunSound(s)
        BY DEF DeployedInv
      <3>2. Owns(s) /\ proc[s].job = k /\ job[k].phase = "started"
        BY <1>3, <2>6, <3>1, NobodyAt
      <3>3. Alive(job[k].run) /\ job[k].status = "queued"
        BY <1>7, <2>6, <3>1, <3>2 DEF RunSound, Alive
      <3>4. /\ proc[s].pc \in Over
            /\ proc[s].text \notin {"material", "reply"}
        BY <3>1, <3>2, <3>3 DEF RunSound, Ended
      <3>. QED
        BY <1>0, <2>6, <3>4, BusyProc DEF Busy, Over
    <2>f. FileSound(k)'
      <3>1. ASSUME NEW s \in out[k].by PROVE HasOpen(s, k)'
        <4>1. HasOpen(s, k) /\ s # r /\ Busy(s)
          BY <1>3, <1>7 DEF FileSound, HasOpen, Printing, Over, Busy
        <4>2. proc[s].pc = "exited" /\ proc[s].text \in {"none", "dead"}
          BY <2>6, <4>1 DEF HasOpen, Owns
        <4>. QED
          BY <1>4, <4>1, <4>2 DEF HasOpen
      <3>2. ASSUME NEW s \in Runs PROVE SaysOf(s, k)'
        <4>1. CASE s = r
          BY <1>4, <4>1 DEF SaysOf, Printing, Over
        <4>2. CASE s # r
          <5>1. job'[k].run # s
            BY <2>1, <4>2 DEF Claimed
          <5>. QED
            BY <5>1 DEF SaysOf, Owns
        <4>. QED
          BY <4>1, <4>2
      <3>. QED
        BY <1>1, <2>1, <3>1, <3>2 DEF FileSound, Claimed
    <2>7. \A t \in Turns : ~Holds(t, k) /\ ~Replies(t, k)
      BY <1>3, <1>7 DEF DeployedInv, TurnSound, Live, Ended
    <2>8. /\ job'[k].run = r
          /\ job'[k].at = job[k].at
          /\ job'[proc'[r].job].status \notin Ended
      BY <2>1, <2>5 DEF Claimed, Ended
    <2>9. Promised(k)' /\ Answering(r)'
      BY <1>4, <2>1 DEF Promised, Answering, Claimed, Ended
    <2>. QED
      BY <1>1, <1>3, <1>4, <1>6, <1>7, <2>2, <2>f, <2>3, <2>5, <2>6, <2>7, <2>8,
         <2>9, RunStep DEF Busy, Over
  <1>. QED
    BY <1>5, <1>8, <1>9

(* What one process does with the file of the job it is at.                *)
LEMMA FileMoves ==
    ASSUME QueueInv, DeployedInv, NEW r \in Runs, NEW k \in Jobs,
           proc[r].job = k, \A s \in Runs \ {r} : proc'[s] = proc[s],
           job'[k].run = job[k].run, job'[k].phase = job[k].phase,
           out'[k].says # "none" => job[k].phase \in {"started", "unread"},
           \A s \in out'[k].by : s = r \/ s \in out[k].by,
           r \in out'[k].by => HasOpen(r, k)', SaysOf(r, k)',
           \/ Owns(r)
           \/ /\ out'[k].says = out[k].says /\ out'[k].for = out[k].for
              /\ \A s \in out[k].by : s = r \/ s \in out'[k].by
    PROVE  FileSound(k)'
  <1>0. FileSound(k)
    BY DEF DeployedInv
  <1>1. ASSUME NEW s \in out'[k].by PROVE HasOpen(s, k)'
    <2>1. CASE s # r
      <3>1. HasOpen(s, k)
        BY <1>0, <1>1, <2>1 DEF FileSound
      <3>. QED
        BY <2>1, <3>1 DEF HasOpen, Owns, Busy
    <2>. QED
      BY <1>1, <2>1
  <1>2. ASSUME NEW s \in Runs PROVE SaysOf(s, k)'
    <2>1. CASE s # r /\ Owns(s)' /\ proc'[s].job = k
      <3>1. proc'[s] = proc[s] /\ Owns(s) /\ job[k].run = s
        BY <2>1 DEF Owns, Busy
      <3>2. ~Owns(r) /\ SaysOf(s, k)
        BY <1>0, <2>1, <3>1 DEF Owns, FileSound
      <3>. QED
        BY <2>1, <3>1, <3>2 DEF SaysOf
    <2>2. CASE ~(Owns(s)' /\ proc'[s].job = k)
      BY <2>2 DEF SaysOf
    <2>. QED
      BY <2>1, <2>2
  <1>. QED
    BY <1>1, <1>2 DEF FileSound

(* A step of one runner or handler and of no record: it stays at its job   *)
(* or is over.                                                             *)
LEMMA ProcOnly ==
    ASSUME QueueInv, DeployedInv, NEW r \in Runs, NEW k \in Jobs,
           proc[r].pc # "free", proc[r].job = k,
           UNCHANGED <<job, turn, clock, answers>>, RunSound(r)',
           \A s \in Runs \ {r} : proc'[s] = proc[s],
           proc'[r].pc = "free" \/ proc'[r].job = k,
           proc'[r].up \/ ~Owns(r), Calm /\ CalmInv => Answering(r)',
           \A j \in Jobs \ {k} : out'[j] = out[j],
           job[k].phase = "unread" => out'[k].says = out[k].says,
           FileSound(k)'
    PROVE  DeployedStep
  <1>0. TypeOK
    BY DEF QueueInv
  <1>1. \A j \in Jobs : Steady(j)
    BY DEF Steady, SameRun
  <1>2. \A j \in Jobs \ {k} : Simple(j)
    BY <1>1 DEF Simple
  <1>3. Owns(r)' => Owns(r) /\ proc'[r].job = proc[r].job
    BY DEF Owns, Busy
  <1>4. JobSound(k)' /\ Tale(k) /\ Framed(k)
    <2>1. JobSound(k) /\ Steady(k) /\ clock' = clock
      BY <1>1 DEF DeployedInv
    <2>. QED
      BY <1>0, <2>1, JobFrame, FramedTale DEF Framed
  <1>5. \A j \in Jobs : job[j].run # r \/ proc'[r].up
    BY DEF DeployedInv, RunSound, Owns, Busy
  <1>6. CalmInv => Promised(k)'
    <2>1. \A s \in Runs : job[k].run = s /\ proc[s].up => proc'[s].up
      BY <1>5
    <2>2. \A t \in Turns : Replies(t, k) => turn'[t] = turn[t]
      OBVIOUS
    <2>. QED
      BY <1>4, <2>1, <2>2, PromisedStays DEF CalmInv
  <1>. QED
    BY <1>1, <1>2, <1>3, <1>4, <1>5, <1>6, RunStep DEF Busy

(* A handler that moves on, prints its material, or is cut off.            *)
LEMMA HandlerMoves ==
    ASSUME QueueInv, DeployedInv, NEW r \in Runs,
           UNCHANGED <<job, out, turn, clock, answers>>,
           \/ /\ proc[r].pc \in Printing \cup Over
              /\ proc[r].pc \in Over => ~Calm
              /\ proc' = Died(r)
           \/ proc[r].pc = "fetching" /\ proc' = EndProc(r, "material")
           \/ /\ proc[r].pc \in Printing
              /\ \E p \in Printing : proc' = [proc EXCEPT ![r].pc = p]
    PROVE  DeployedStep
  <1>0. TypeOK
    BY DEF QueueInv
  <1>1. Busy(r) /\ RunSound(r)
    BY DEF Busy, Printing, Over, DeployedInv
  <1>k. PICK k \in Jobs : k = proc[r].job
    BY <1>0, <1>1, BusyProc DEF Busy
  <1>2. /\ \A s \in Runs \ {r} : proc'[s] = proc[s]
        /\ proc'[r].job = proc[r].job /\ proc'[r].at = proc[r].at
        /\ proc'[r].up = proc[r].up
        /\ \/ proc'[r].pc = "exited" /\ proc'[r].text = "dead"
           \/ /\ proc'[r].pc = "ended" /\ proc'[r].text = "material"
              /\ proc[r].pc = "fetching"
           \/ /\ proc[r].pc \in Printing /\ proc'[r].pc \in Printing
              /\ proc'[r].text = proc[r].text
    <2>1. /\ proc \in [Runs -> ProcRecord]
          /\ proc[r] \in [pc: {"spawned", "checked", "launched", "fetching",
                                "failing", "ended", "exited"},
                          job: Jobs, at: Nat, up: BOOLEAN,
                          text: {"none", "reply", "material", "dead"}]
      BY <1>0, <1>1, BusyProc DEF TypeOK, Busy
    <2>. QED
      BY <2>1 DEF EndProc, Died
  <1>3. Owns(r)' <=> Owns(r)
    BY <1>1, <1>2 DEF Owns, Busy, Printing, Over
  <1>4. RunSound(r)'
    BY <1>1, <1>2, <1>3 DEF RunSound, Busy, Working, Printing, Over
  <1>5. proc'[r].up
    BY <1>1, <1>2 DEF RunSound
  <1>6. Calm => Answering(r)'
    <2>1. proc[r].pc \in Printing =>
             Owns(r) /\ job[proc[r].job].status = "running"
      BY <1>1 DEF RunSound, Working, Printing, Over
    <2>. QED
      BY <1>2, <2>1 DEF Answering, Ended, Printing, Over
  <1>7. FileSound(k) /\ SaysOf(r, k) /\ (r \in out[k].by => HasOpen(r, k))
    BY DEF DeployedInv, FileSound
  <1>8. r \in out[k].by => HasOpen(r, k)'
    BY <1>2, <1>3, <1>7 DEF HasOpen, Printing, Over
  <1>9. SaysOf(r, k)'
    BY <1>2, <1>3, <1>7, <1>k DEF SaysOf, Printing, Over
  <1>10. FileSound(k)'
    <2>1. out[k].says # "none" => job[k].phase \in {"started", "unread"}
      BY <1>7 DEF FileSound
    <2>. QED
      BY <1>k, <1>2, <1>8, <1>9, <2>1, FileMoves
  <1>. QED
    BY <1>k, <1>1, <1>2, <1>4, <1>5, <1>6, <1>10, ProcOnly DEF Busy

(* The handler's word on its job: final and perhaps printed, or another    *)
(* try.                                                                    *)
LEMMA HandlerReports ==
    ASSUME QueueInv, DeployedInv, NEW r \in Runs, proc[r].pc \in Printing,
           UNCHANGED <<out, turn, clock, answers>>, NEW n,
           job' = [job EXCEPT ![proc[r].job] = n],
           n.run = job[proc[r].job].run, n.at = job[proc[r].job].at,
           n.phase = job[proc[r].job].phase,
           NEW x \in {"none", "reply"}, proc' = EndProc(r, x),
           \/ /\ n.status \in Ended
              /\ x = "none" => proc[r].job \in Quiet
           \/ n.status = "queued" /\ x = "none"
    PROVE  DeployedStep
  <1>0. TypeOK
    BY DEF QueueInv
  <1>k. PICK k \in Jobs : k = proc[r].job
    BY <1>0, BusyProc DEF Printing
  <1>1. Busy(r) /\ RunSound(r) /\ k = proc[r].job /\ JobSound(k)
    BY <1>k DEF Busy, Printing, DeployedInv
  <1>2. Owns(r) /\ job[k].run = r /\ job[k].status = "running"
    BY <1>1 DEF RunSound, Working, Printing, Over, Owns
  <1>3. job[k].phase = "started"
    BY <1>1, <1>2, NobodyAt
  <1>4. job'[k] = n /\ \A j \in Jobs \ {k} : job'[j] = job[j]
    BY <1>0, <1>1 DEF TypeOK
  <1>5. /\ \A s \in Runs \ {r} : proc'[s] = proc[s]
        /\ proc'[r].job = k /\ proc'[r].up = proc[r].up
        /\ proc'[r].pc = IF x = "none" THEN "exited" ELSE "ended"
        /\ proc'[r].text = x
    <2>1. /\ proc \in [Runs -> ProcRecord]
          /\ proc[r] \in [pc: {"spawned", "checked", "launched", "fetching",
                                "failing", "ended", "exited"},
                          job: Jobs, at: Nat, up: BOOLEAN,
                          text: {"none", "reply", "material", "dead"}]
      BY <1>0, <1>1, BusyProc DEF Busy, TypeOK
    <2>. QED
      BY <1>1, <2>1 DEF EndProc
  <1>6. \A j \in Jobs \ {k} : Simple(j)
    BY <1>4, SameIsSimple
  <1>f. FileSound(k)'
    <2>1. FileSound(k) /\ SaysOf(r, k) /\ (r \in out[k].by => HasOpen(r, k))
      BY DEF DeployedInv, FileSound
    <2>2. r \in out[k].by /\ out[k].says = "none"
      BY <1>1, <1>2, <2>1 DEF SaysOf
    <2>3. Owns(r)' /\ job'[k].run = job[k].run /\ job'[k].phase = job[k].phase
      BY <1>1, <1>2, <1>4, <1>5 DEF Owns, Busy
    <2>4. HasOpen(r, k)'
      BY <1>5, <2>3 DEF HasOpen, Over
    <2>5. SaysOf(r, k)'
      BY <1>5, <2>2 DEF SaysOf, Over, Printing
    <2>. QED
      BY <1>1, <1>2, <1>5, <2>2, <2>3, <2>4, <2>5, FileMoves
  <1>7. JobSound(k)' /\ Tale(k) /\ answers[k] = 0
    BY <1>1, <1>2, <1>3, <1>4 DEF JobSound, Tale, Live, Ended
  <1>8. RunSound(r)'
    <2>1. \A j \in Jobs : job'[j].run = job[j].run
      BY <1>4
    <2>2. \A j \in Jobs : job'[j].run = r => j = k
      BY <1>1, <2>1 DEF RunSound
    <2>3. proc'[r].up
      BY <1>1, <1>5 DEF RunSound
    <2>4. x = "reply" => job'[k].status \in Ended /\ answers'[k] = 0
      BY <1>4, <1>7
    <2>. QED
      BY <1>5, <2>2, <2>3, <2>4
      DEF RunSound, Owns, Busy, Working, Printing, Over
  <1>9. /\ job'[k].run = r /\ job'[k].at = job[k].at
        /\ \A s \in Runs \ {r} :
              job[k].run = s => proc[s].pc \in {"free"} \cup Over
        /\ Owns(r) /\ proc'[r].job = proc[r].job
    BY <1>1, <1>2, <1>4, <1>5
  <1>10. \A t \in Turns : ~Holds(t, k) /\ ~Replies(t, k)
    BY <1>1, <1>2, <1>3 DEF DeployedInv, TurnSound, Ended
  <1>11. proc'[r].up
    BY <1>1, <1>5 DEF RunSound
  <1>12. Promised(k)' /\ Answering(r)'
    <2>1. InHand(k)'
      BY <1>3, <1>4, <1>9, <1>11, <1>1 DEF InHand, Alive
    <2>. QED
      BY <1>1, <1>4, <1>5, <2>1 DEF Promised, Answering, Ended
  <1>. QED
    BY <1>1, <1>5, <1>6, <1>f, <1>7, <1>8, <1>9, <1>10, <1>11, <1>12, RunStep

(* The runner looks whether the job is still its own.                      *)
LEMMA ChecksDeployed ==
    ASSUME QueueInv, DeployedInv, NEW r \in Runs, RunnerChecks(r)
    PROVE  DeployedStep
  <1>0. TypeOK
    BY DEF QueueInv
  <1>1. PICK k \in Jobs : k = proc[r].job
    BY <1>0, BusyProc DEF RunnerChecks
  <1>2. /\ proc[r].pc = "spawned" /\ RunSound(r) /\ FileSound(k)
        /\ UNCHANGED <<job, out, turn, clock, answers>>
        /\ r \notin out[k].by
    <2>1. proc[r].pc = "spawned" /\ UNCHANGED <<job, out, turn, clock, answers>>
      BY DEF RunnerChecks
    <2>2. RunSound(r) /\ FileSound(k)
      BY DEF DeployedInv
    <2>3. r \notin out[k].by
      BY <2>1, <2>2 DEF FileSound, HasOpen, Printing, Over
    <2>. QED
      BY <2>1, <2>2, <2>3
  <1>3. CASE Mine(r)
    <2>1. /\ proc' = [proc EXCEPT ![r] = [proc[r] EXCEPT !.pc = "checked"]]
          /\ job[k].run = r
      BY <1>1, <1>3 DEF RunnerChecks, Mine
    <2>2. Owns(r) /\ job[k].status = "running"
      BY <1>1, <1>2, <2>1 DEF Owns, Busy, RunSound, Over
    <2>3. /\ \A s \in Runs \ {r} : proc'[s] = proc[s]
          /\ proc'[r].job = k /\ proc'[r].up = proc[r].up
          /\ proc'[r].pc = "checked" /\ proc'[r].text = proc[r].text
      <3>1. /\ proc \in [Runs -> ProcRecord]
            /\ proc[r] \in [pc: {"spawned", "checked", "launched", "fetching",
                                 "failing", "ended", "exited"},
                            job: Jobs, at: Nat, up: BOOLEAN,
                            text: {"none", "reply", "material", "dead"}]
        BY <1>0, <1>2, BusyProc DEF TypeOK
      <3>. QED
        BY <1>1, <2>1, <3>1
    <2>4. Owns(r)' /\ RunSound(r)'
      BY <1>1, <1>2, <2>1, <2>2, <2>3 DEF RunSound, Owns, Busy, Over
    <2>5. proc'[r].up
      BY <1>2, <2>3 DEF RunSound, Busy
    <2>6. Answering(r)'
      BY <2>3 DEF Answering, Over
    <2>7. SaysOf(r, k)'
      BY <2>3 DEF SaysOf, Printing, Over
    <2>8. FileSound(k)'
      BY <1>1, <1>2, <2>3, <2>7, FileMoves DEF FileSound
    <2>. QED
      BY <1>1, <1>2, <2>3, <2>4, <2>5, <2>6, <2>8, ProcOnly
  <1>4. CASE ~Mine(r)
    <2>1. proc' = [proc EXCEPT ![r] = FreeProc]
      BY <1>4 DEF RunnerChecks
    <2>2. proc'[r] = FreeProc /\ \A s \in Runs \ {r} : proc'[s] = proc[s]
      BY <1>0, <2>1 DEF TypeOK
    <2>3. RunSound(r)' /\ ~Owns(r)'
      BY <2>2 DEF RunSound, Owns, Busy, Working, Printing, Over, FreeProc
    <2>4. ~Owns(r) /\ Answering(r)'
      BY <1>4, <2>2, <2>3 DEF Mine, Owns, Answering
    <2>5. FileSound(k)'
      BY <1>1, <1>2, <2>2, <2>3, FileMoves DEF FileSound, SaysOf
    <2>. QED
      BY <1>1, <1>2, <2>2, <2>3, <2>4, <2>5, ProcOnly DEF FreeProc
  <1>. QED
    BY <1>3, <1>4

(* It opens the file, which is the job's own: nobody replaced it since.    *)
LEMMA OpensDeployed ==
    ASSUME QueueInv, DeployedInv, NEW r \in Runs, RunnerOpens(r)
    PROVE  DeployedStep
  <1>0. TypeOK
    BY DEF QueueInv
  <1>1. PICK k \in Jobs : k = proc[r].job
    BY <1>0, BusyProc DEF RunnerOpens
  <1>2. /\ proc[r].pc = "checked" /\ RunSound(r) /\ FileSound(k)
        /\ UNCHANGED <<job, turn, clock, answers>>
        /\ out' = Opened(r) /\ proc' = [proc EXCEPT ![r].pc = "launched"]
    BY DEF RunnerOpens, DeployedInv
  <1>3. Owns(r) /\ job[k].run = r /\ job[k].phase = "started"
    <2>1. Owns(r) /\ job[k].run = r
      BY <1>1, <1>2 DEF RunSound, Working, Owns
    <2>. QED
      BY <1>1, <1>2, <2>1, NobodyAt DEF Owns
  <1>4. /\ \A s \in Runs \ {r} : proc'[s] = proc[s]
        /\ proc'[r].job = k /\ proc'[r].up = proc[r].up
        /\ proc'[r].pc = "launched" /\ proc'[r].text = proc[r].text
    <2>1. /\ proc \in [Runs -> ProcRecord]
          /\ proc[r] \in [pc: {"spawned", "checked", "launched", "fetching",
                               "failing", "ended", "exited"},
                          job: Jobs, at: Nat, up: BOOLEAN,
                          text: {"none", "reply", "material", "dead"}]
      BY <1>0, <1>2, BusyProc DEF TypeOK
    <2>. QED
      BY <1>1, <1>2, <2>1
  <1>5. /\ out'[k] = [says |-> "none", for |-> 0, by |-> out[k].by \cup {r}]
        /\ \A j \in Jobs \ {k} : out'[j] = out[j]
    BY <1>0, <1>1, <1>2 DEF TypeOK, Opened
  <1>6. Owns(r)' /\ RunSound(r)'
    BY <1>1, <1>2, <1>3, <1>4
    DEF RunSound, Owns, Busy, Working, Printing, Over
  <1>7. proc'[r].up
    BY <1>2, <1>4 DEF RunSound, Busy
  <1>8. Answering(r)'
    BY <1>4 DEF Answering, Over
  <1>9. FileSound(k)'
    <2>1. HasOpen(r, k)'
      BY <1>4, <1>6 DEF HasOpen, Printing
    <2>2. SaysOf(r, k)'
      BY <1>4, <1>5 DEF SaysOf
    <2>. QED
      BY <1>1, <1>2, <1>3, <1>4, <1>5, <2>1, <2>2, FileMoves
  <1>. QED
    BY <1>1, <1>2, <1>3, <1>4, <1>5, <1>6, <1>7, <1>8, <1>9, ProcOnly

(* What the handler printed reaches the file.                              *)
LEMMA ExitsDeployed ==
    ASSUME QueueInv, DeployedInv, NEW r \in Runs, HandlerExits(r)
    PROVE  DeployedStep
  <1>0. TypeOK
    BY DEF QueueInv
  <1>1. PICK k \in Jobs : k = proc[r].job
    BY <1>0, BusyProc DEF HandlerExits
  <1>2. /\ proc[r].pc = "ended" /\ RunSound(r) /\ FileSound(k)
        /\ UNCHANGED <<job, turn, clock, answers>>
        /\ proc' = [proc EXCEPT ![r].pc = "exited"]
        /\ proc[r].text \in {"reply", "material"}
    BY <1>0, BusyProc DEF HandlerExits, DeployedInv
  <1>3. /\ \A s \in Runs \ {r} : proc'[s] = proc[s]
        /\ proc'[r].job = k /\ proc'[r].up = proc[r].up
        /\ proc'[r].at = proc[r].at
        /\ proc'[r].pc = "exited" /\ proc'[r].text = proc[r].text
    <2>1. /\ proc \in [Runs -> ProcRecord]
          /\ proc[r] \in [pc: {"spawned", "checked", "launched", "fetching",
                               "failing", "ended", "exited"},
                          job: Jobs, at: Nat, up: BOOLEAN,
                          text: {"none", "reply", "material", "dead"}]
      BY <1>0, <1>2, BusyProc DEF TypeOK
    <2>. QED
      BY <1>1, <1>2, <2>1
  <1>4. /\ r \in out[k].by <=> Owns(r)
        /\ Owns(r) => job[k].phase = "started"
    <2>1. r \in out[k].by => Owns(r)
      BY <1>2 DEF FileSound, HasOpen
    <2>2. Owns(r) => r \in out[k].by
      BY <1>1, <1>2 DEF FileSound, SaysOf, Over
    <2>3. Owns(r) => job[k].phase = "started"
      BY <1>1, <1>2, NobodyAt DEF Owns
    <2>. QED
      BY <2>1, <2>2, <2>3
  <1>5. /\ ~Owns(r) => out'[k] = out[k]
        /\ Owns(r) => /\ out'[k].says = proc[r].text
                      /\ out'[k].for = proc[r].at
                      /\ out'[k].by = out[k].by
        /\ \A j \in Jobs \ {k} : out'[j] = out[j]
    <2>1. out \in [Jobs -> [says: {"none", "reply", "material"}, for: Nat,
                           by: SUBSET Runs]]
      BY <1>0 DEF TypeOK, Output
    <2>2. CASE ~Owns(r)
      <3>1. out' = out
        BY <1>1, <1>4, <2>2 DEF HandlerExits
      <3>. QED
        BY <2>2, <3>1
    <2>3. CASE Owns(r)
      <3>1. out' = [out EXCEPT ![k].says = proc[r].text, ![k].for = proc[r].at]
        BY <1>1, <1>4, <2>3 DEF HandlerExits
      <3>. QED
        BY <2>1, <2>3, <3>1
    <2>. QED
      BY <2>2, <2>3
  <1>6. (Owns(r)' <=> Owns(r)) /\ RunSound(r)'
    BY <1>1, <1>2, <1>3 DEF RunSound, Owns, Busy, Working, Printing, Over
  <1>7. proc'[r].up
    BY <1>2, <1>3 DEF RunSound, Busy
  <1>8. CalmInv => Answering(r)'
    BY <1>1, <1>2, <1>3, <1>6 DEF CalmInv, Answering, Over
  <1>9. FileSound(k)'
    <2>1. r \in out'[k].by => HasOpen(r, k)'
      BY <1>3, <1>4, <1>5, <1>6 DEF HasOpen, Over
    <2>2. SaysOf(r, k)'
      BY <1>3, <1>4, <1>5, <1>6 DEF SaysOf, Over, Printing
    <2>3. out'[k].says # "none" => job[k].phase \in {"started", "unread"}
      BY <1>2, <1>4, <1>5 DEF FileSound
    <2>4. out'[k].by = out[k].by
      BY <1>5
    <2>. QED
      BY <1>1, <1>2, <1>3, <1>5, <2>1, <2>2, <2>3, <2>4, FileMoves
  <1>10. job[k].phase = "unread" => out'[k].says = out[k].says
    BY <1>4, <1>5
  <1>. QED
    BY <1>1, <1>2, <1>3, <1>5, <1>6, <1>7, <1>8, <1>9, <1>10, ProcOnly

(* The runner records what the file says, if the job is still its.         *)
LEMMA RecordsDeployed ==
    ASSUME QueueInv, DeployedInv, NEW r \in Runs, RunnerRecords(r)
    PROVE  DeployedStep
  <1>0. TypeOK
    BY DEF QueueInv
  <1>1. PICK k \in Jobs : k = proc[r].job
    BY <1>0, BusyProc DEF RunnerRecords
  <1>2. /\ proc[r].pc = "exited" /\ RunSound(r) /\ JobSound(k) /\ FileSound(k)
        /\ proc' = [proc EXCEPT ![r] = FreeProc]
        /\ UNCHANGED <<turn, clock, answers>>
    BY DEF RunnerRecords, DeployedInv
  <1>3. proc'[r] = FreeProc /\ \A s \in Runs \ {r} : proc'[s] = proc[s]
    BY <1>0, <1>2 DEF TypeOK
  <1>4. RunSound(r)' /\ ~Owns(r)'
    BY <1>3 DEF RunSound, Owns, Busy, Working, Printing, Over, FreeProc
  <1>l. /\ Left(r)[k].says = out[k].says /\ Left(r)[k].for = out[k].for
        /\ Left(r)[k].by = out[k].by \ {r}
        /\ \A j \in Jobs \ {k} : Left(r)[j] = out[j]
    BY <1>0, <1>1 DEF Left, TypeOK, Output
  <1>5. CASE ~Mine(r)
    <2>1. ~Owns(r) /\ Answering(r)'
      BY <1>4, <1>5 DEF Mine, Owns, Answering
    <2>2. out' = Left(r) /\ UNCHANGED job
      BY <1>5 DEF RunnerRecords
    <2>3. FileSound(k)'
      <3>1. /\ out'[k].says = out[k].says /\ out'[k].for = out[k].for
            /\ out'[k].by = out[k].by \ {r}
        BY <1>l, <2>2
      <3>2. out'[k].says # "none" => job[k].phase \in {"started", "unread"}
        BY <1>2, <3>1 DEF FileSound
      <3>3. SaysOf(r, k)' /\ r \notin out'[k].by
        BY <1>4, <3>1 DEF SaysOf
      <3>. QED
        BY <1>1, <1>3, <2>2, <3>1, <3>2, <3>3, FileMoves
    <2>. QED
      BY <1>1, <1>2, <1>3, <1>4, <1>l, <2>1, <2>2, <2>3, ProcOnly DEF FreeProc
  <1>6. CASE Mine(r)
    <2>. DEFINE said == Said(r)
    <2>1. /\ job' = [job EXCEPT ![k] = Recorded(k, said)]
          /\ out' = IF said = "none" THEN [out EXCEPT ![k] = NoFile] ELSE Left(r)
          /\ job[k].run = r
      BY <1>1, <1>6 DEF RunnerRecords, Mine
    <2>2. Owns(r) /\ job[k].phase = "started"
      BY <1>1, <1>2, <2>1, NobodyAt DEF Owns, Busy
    <2>3. /\ job'[k] = Recorded(k, said)
          /\ \A j \in Jobs \ {k} : job'[j] = job[j] /\ out'[j] = out[j]
      BY <1>0, <1>l, <2>1 DEF TypeOK
    <2>4. \A j \in Jobs \ {k} : Simple(j)
      BY <1>2, <2>3, SameIsSimple
    <2>5. /\ said # "none" => said = proc[r].text
          /\ proc[r].text # "dead" => said = proc[r].text
          /\ said = "none" => out'[k] = NoFile
          /\ said # "none" => /\ out'[k].says = said
                              /\ out'[k].by = out[k].by \ {r}
          /\ said \in {"none", "reply", "material"}
      <3>1. SaysOf(r, k) /\ out[k].says \in {"none", "reply", "material"}
        BY <1>0, <1>2 DEF FileSound, TypeOK, Output
      <3>2. proc[r].text # "dead" => out[k].says = proc[r].text
        BY <1>1, <1>2, <2>2, <3>1 DEF SaysOf
      <3>3. said = IF proc[r].text = "dead" THEN "none" ELSE out[k].says
        BY <1>1 DEF Said
      <3>4. said = "none" => out'[k] = NoFile
        BY <1>0, <2>1 DEF TypeOK
      <3>5. said # "none" => out' = Left(r)
        BY <2>1
      <3>. HIDE DEF said
      <3>. QED
        BY <1>l, <3>1, <3>2, <3>3, <3>4, <3>5
    <2>. HIDE DEF said
    <2>6. /\ job'[k].status = job[k].status /\ job'[k].at = job[k].at
          /\ job'[k].run = r
          /\ job'[k].phase = IF said = "none" THEN "empty" ELSE "unread"
      BY <2>1, <2>3 DEF Recorded
    <2>7. /\ said = "material" => job[k].status = "running" /\ answers[k] = 0
          /\ said = "reply" => job[k].status \in Ended /\ answers[k] = 0
      BY <1>1, <1>2, <2>2, <2>5 DEF RunSound, JobSound, Live
    <2>8. JobSound(k)' /\ Tale(k)
      BY <1>2, <2>3, <2>5, <2>6, <2>7 DEF JobSound, Tale
    <2>f. FileSound(k)'
      <3>1. ASSUME NEW s \in Runs PROVE SaysOf(s, k)'
        <4>1. ~(Owns(s)' /\ proc'[s].job = k)
          BY <1>4, <2>6 DEF Owns
        <4>. QED
          BY <4>1 DEF SaysOf
      <3>2. CASE said = "none"
        BY <2>5, <3>1, <3>2 DEF FileSound, NoFile
      <3>3. CASE said # "none"
        <4>1. ASSUME NEW s \in out'[k].by PROVE HasOpen(s, k)'
          <5>1. HasOpen(s, k) /\ s # r
            BY <1>2, <2>5, <3>3 DEF FileSound
          <5>2. ~Owns(s) /\ proc'[s] = proc[s]
            BY <1>3, <2>1, <5>1 DEF HasOpen, Owns
          <5>. QED
            BY <5>1, <5>2 DEF HasOpen
        <4>. QED
          BY <2>6, <3>1, <3>3, <4>1 DEF FileSound
      <3>. QED
        BY <3>2, <3>3
    <2>9. \A t \in Turns : ~Holds(t, k) /\ ~Replies(t, k)
      BY <1>1, <2>2 DEF DeployedInv, TurnSound
    <2>10. \A j \in Jobs \ {k} : job[j].run # r
      BY <1>1, <1>2 DEF RunSound, Busy
    <2>11. CalmInv => Promised(k)' /\ Answering(r)'
      <3>1. CalmInv /\ k \notin Quiet /\ job[k].status \in Ended => said = "reply"
        BY <1>1, <1>2, <2>2, <2>5 DEF CalmInv, Answering, Over
      <3>2. CalmInv => Promised(k)'
        BY <2>6, <3>1 DEF Promised, InHand
      <3>. QED
        BY <1>4, <3>2 DEF Answering
    <2>. QED
      BY <1>1, <1>2, <1>3, <1>4, <2>1, <2>4, <2>6, <2>8, <2>f, <2>9, <2>10, <2>11,
         RunStep DEF Busy, FreeProc
  <1>. QED
    BY <1>5, <1>6

(* The runner and its handler.                                             *)
LEMMA ProcDeployed ==
    ASSUME QueueInv, DeployedInv, NEW r \in Runs, ProcStep(r)
    PROVE  DeployedStep
  <1>0. TypeOK
    BY DEF QueueInv
  <1>1. CASE RunnerChecks(r)
    BY <1>1, ChecksDeployed
  <1>2. CASE RunnerRecords(r)
    BY <1>2, RecordsDeployed
  <1>3. CASE HandlerBegins(r)
    <2>1. proc[r].pc = "launched" /\ job[proc[r].job].status = "running"
      BY <1>3 DEF HandlerBegins, DeployedInv, RunSound, Working, Printing, Over
    <2>. QED
      BY <1>3, <2>1, HandlerMoves DEF HandlerBegins, Printing
  <1>4. CASE HandlerPrints(r)
    BY <1>4, HandlerMoves DEF HandlerPrints
  <1>5. ASSUME NEW v \in Ended, SetEnded(proc[r].job, v),
               proc[r].pc \in Printing, UNCHANGED <<out, turn, clock, answers>>,
               proc' = EndProc(r, Say(proc[r].job))
        PROVE  DeployedStep
    <2>1. PICK k \in Jobs : k = proc[r].job
      BY <1>0, <1>5, BusyProc DEF Printing
    <2>2. Owns(r) /\ job[k].status = "running"
      BY <1>5, <2>1 DEF DeployedInv, RunSound, Working, Printing, Over
    <2>. DEFINE n == [job[k] EXCEPT !.status = v, !.aged = FALSE]
    <2>3. job' = [job EXCEPT ![k] = n]
      BY <1>0, <1>5, <2>1, <2>2 DEF SetEnded, TypeOK
    <2>4. /\ n.status = v /\ n.run = job[k].run /\ n.at = job[k].at
          /\ n.phase = job[k].phase
      BY <1>0 DEF TypeOK, JobRecord
    <2>5. Say(k) \in {"none", "reply"} /\ (Say(k) = "none" => k \in Quiet)
      BY DEF Say
    <2>. HIDE DEF n
    <2>. QED
      BY <1>5, <2>1, <2>3, <2>4, <2>5, HandlerReports
  <1>6. CASE HandlerFinishes(r)
    BY <1>5, <1>6 DEF HandlerFinishes, Printing, Ended
  <1>7. CASE HandlerFails(r)
    BY <1>5, <1>7 DEF HandlerFails, Printing, Ended
  <1>8. ASSUME proc[r].pc = "fetching", UNCHANGED <<out, turn, clock, answers>>,
               proc' = EndProc(r, "none"), NEW a \in Nat,
               \/ job' = [job EXCEPT ![proc[r].job].status = "queued",
                                     ![proc[r].job].attempts = a]
               \/ job' = [job EXCEPT ![proc[r].job].status = "queued"]
        PROVE  DeployedStep
    <2>1. PICK k \in Jobs : k = proc[r].job
      BY <1>0, <1>8, BusyProc
    <2>. DEFINE q == [job[k] EXCEPT !.status = "queued"]
                m == [q EXCEPT !.attempts = a]
    <2>2. PICK n \in {q, m} : job' = [job EXCEPT ![k] = n]
      BY <1>0, <1>8, <2>1 DEF TypeOK
    <2>3. /\ n.status = "queued" /\ n.run = job[k].run /\ n.at = job[k].at
          /\ n.phase = job[k].phase
      BY <1>0 DEF TypeOK, JobRecord
    <2>4. proc[r].pc \in Printing
      BY <1>8 DEF Printing
    <2>. HIDE DEF q, m
    <2>. QED
      BY <1>8, <2>1, <2>2, <2>3, <2>4, HandlerReports
  <1>9. ASSUME proc[r].pc = "fetching" 
        PROVE  job[proc[r].job].status = "running"
    BY <1>9 DEF DeployedInv, RunSound, Working, Printing, Over, Owns
  <1>10. CASE HandlerReleases(r)
    <2>1. Uncounted(job[proc[r].job].attempts) \in Nat
      <3>1. proc[r].job \in Jobs
        BY <1>0, <1>10, BusyProc DEF HandlerReleases
      <3>. QED
        BY <1>0, <3>1 DEF Uncounted, TypeOK, JobRecord
    <2>2. job' = [job EXCEPT ![proc[r].job].status = "queued",
                             ![proc[r].job].attempts =
                                Uncounted(job[proc[r].job].attempts)]
      <3>1. PICK k \in Jobs : k = proc[r].job
        BY <1>0, <1>10, BusyProc DEF HandlerReleases
      <3>2. job[k].status = "running"
        BY <1>9, <1>10, <3>1 DEF HandlerReleases
      <3>3. job' = [job EXCEPT ![k].status = "queued",
                               ![k].attempts = Uncounted(@)]
        BY <1>10, <3>1, <3>2 DEF HandlerReleases
      <3>. QED
        BY <1>0, <3>1, <3>3 DEF TypeOK, JobRecord
    <2>. QED
      BY <1>8, <1>10, <2>1, <2>2 DEF HandlerReleases
  <1>11. CASE HandlerRetries(r)
    <2>1. /\ proc[r].pc = "fetching"
          /\ UNCHANGED <<out, turn, clock, answers>>
          /\ \/ /\ proc' = [proc EXCEPT ![r].pc = "failing"]
                /\ UNCHANGED job
             \/ /\ proc' = EndProc(r, "none")
                /\ job' = [job EXCEPT ![proc[r].job].status = "queued"]
      BY <1>9, <1>11 DEF HandlerRetries
    <2>2. CASE proc' = [proc EXCEPT ![r].pc = "failing"] /\ UNCHANGED job
      BY <2>1, <2>2, HandlerMoves DEF Printing
    <2>3. CASE /\ proc' = EndProc(r, "none")
               /\ job' = [job EXCEPT ![proc[r].job].status = "queued"]
      BY <1>8, <2>1, <2>3
    <2>. QED
      BY <2>1, <2>2, <2>3
  <1>12. CASE OrphanEnds(r)
    BY <1>12 DEF OrphanEnds, DeployedInv, RunSound, Busy
  <1>13. CASE RunnerOpens(r)
    BY <1>13, OpensDeployed
  <1>14. CASE HandlerExits(r)
    BY <1>14, ExitsDeployed
  <1>. QED
    BY <1>1, <1>2, <1>3, <1>4, <1>6, <1>7, <1>10, <1>11, <1>12, <1>13, <1>14
    DEF ProcStep

-----------------------------------------------------------------------------
(* The agent turn.                                                         *)
LEMMA ReadsDeployed ==
    ASSUME QueueInv, DeployedInv, NEW t \in Turns, TurnReads(t)
    PROVE  DeployedStep
  <1>0. TypeOK /\ clock \in Nat
    BY QueueAssumption DEF QueueInv, TypeOK
  <1>1. PICK k \in Jobs : k = turn[t].job
    BY <1>0, BusyTurn DEF TurnReads
  <1>2. /\ job[k].phase = "unread" /\ JobSound(k)
        /\ job' = [job EXCEPT ![k].phase = "read"]
        /\ out' = [out EXCEPT ![k] = NoFile]
        /\ UNCHANGED <<proc, clock, answers>>
    BY <1>1 DEF TurnReads, DeployedInv
  <1>3. /\ turn'[t].job = k /\ turn'[t].at = job[k].at
        /\ turn'[t].pc = IF out[k].says = "reply" THEN "replying" ELSE "holding"
        /\ \A u \in Turns \ {t} : turn'[u] = turn[u]
    <2>1. /\ turn \in [Turns -> TurnRecord]
          /\ turn[t] \in [pc: {"told", "holding", "filing", "replying"},
                          job: Jobs, at: Nat]
      BY <1>0, BusyTurn DEF TypeOK, TurnReads
    <2>. DEFINE p == IF out[k].says = "reply" THEN "replying" ELSE "holding"
    <2>2. turn' = [turn EXCEPT ![t].pc = p, ![t].at = job[k].at]
      <3>1. out[k].says \in {"reply", "material"}
        BY <1>2 DEF JobSound
      <3>. QED
        BY <1>1, <3>1 DEF TurnReads
    <2>. HIDE DEF p
    <2>3. turn'[t].job = k /\ turn'[t].at = job[k].at /\ turn'[t].pc = p
      BY <1>1, <2>1, <2>2
    <2>. QED
      BY <2>1, <2>2, <2>3 DEF p
  <1>4. /\ job'[k].run = job[k].run /\ job'[k].at = job[k].at
        /\ job'[k].status = job[k].status /\ job'[k].phase = "read"
        /\ out'[k] = NoFile
        /\ \A j \in Jobs \ {k} : job'[j] = job[j] /\ out'[j] = out[j]
    BY <1>0, <1>2 DEF TypeOK, JobRecord
  <1>5. \A j \in Jobs \ {k} : Simple(j)
    BY <1>2, <1>4, SameIsSimple
  <1>6. JobSound(k)' /\ Tale(k) /\ SameRun(k)
    BY <1>2, <1>4 DEF JobSound, Tale, SameRun
  <1>7. Ownerless(k)
    BY <1>2, NotStarted
  <1>f. FileSound(k)'
    <2>1. \A s \in Runs : job'[k].run = s => ~Busy(s)'
      BY <1>2, <1>4, <1>7 DEF Ownerless, Busy
    <2>. QED
      BY <1>2, <1>4, <2>1, FileFrame DEF DeployedInv
  <1>8. \A r \in Runs : Owns(r)' => proc'[r].job # k
    BY <1>2, <1>4, <1>7 DEF Ownerless, Owns, Busy
  <1>9. TurnSound(t)'
    <2>1. job[k].at \in 1..clock'
      <3>1. job[k].at \in Nat
        BY <1>0 DEF TypeOK, JobRecord
      <3>. QED
        BY <1>0, <1>2, <3>1 DEF JobSound, Ended
    <2>2. /\ out[k].says = "reply" => job[k].status \in Ended /\ answers[k] = 0
          /\ out[k].says # "reply" => job[k].status = "running"
      BY <1>2 DEF JobSound
    <2>. QED
      BY <1>2, <1>3, <1>4, <1>8, <2>1, <2>2 DEF TurnSound, Holds, Replies
  <1>10. \A u \in Turns : ~Holds(u, k) /\ ~Replies(u, k)
    BY <1>2 DEF DeployedInv, TurnSound
  <1>11. \A j \in Jobs : Holds(t, j)' \/ Replies(t, j)' => j = k
    BY <1>3 DEF Holds, Replies
  <1>12. Promised(k)'
    <2>1. job[k].status \in Ended => Replies(t, k)'
      BY <1>2, <1>3, <1>4 DEF JobSound, Replies, Ended
    <2>. QED
      BY <1>4, <2>1 DEF Promised, InHand, Replies
  <1>13. \A j \in Jobs : ~Replies(t, j)
    BY DEF TurnReads, Replies
  <1>. QED
    BY <1>2, <1>3, <1>5, <1>6, <1>7, <1>f, <1>9, <1>10, <1>11, <1>12, <1>13,
       JobStep

LEMMA FinishesDeployed ==
    ASSUME QueueInv, DeployedInv, NEW t \in Turns, TurnFinishes(t)
    PROVE  DeployedStep
  <1>0. TypeOK
    BY DEF QueueInv
  <1>1. PICK k \in Jobs : k = turn[t].job
    BY <1>0, BusyTurn DEF TurnFinishes
  <1>2. /\ job[k].status = "running" /\ job[k].phase = "read"
        /\ turn[t].at = job[k].at /\ JobSound(k) /\ Holds(t, k)
    BY <1>1 DEF TurnFinishes, DeployedInv, TurnSound, Holds
  <1>3. /\ job' = [job EXCEPT ![k].status = "done", ![k].aged = FALSE]
        /\ UNCHANGED <<out, proc, clock, answers>>
    BY <1>1, <1>2 DEF TurnFinishes, SetEnded
  <1>4. /\ job'[k].run = job[k].run /\ job'[k].at = job[k].at
        /\ job'[k].status = "done" /\ job'[k].phase = "read"
        /\ \A j \in Jobs \ {k} : job'[j] = job[j]
    BY <1>0, <1>2, <1>3 DEF TypeOK, JobRecord
  <1>5. /\ \A u \in Turns \ {t} : turn'[u] = turn[u]
        /\ turn'[t].pc \in {"idle", "replying"}
        /\ turn'[t].pc = "replying" =>
              turn'[t].job = k /\ turn'[t].at = turn[t].at
    <2>1. /\ turn \in [Turns -> TurnRecord]
          /\ turn[t] \in [pc: {"told", "holding", "filing", "replying"},
                          job: Jobs, at: Nat]
      BY <1>0, BusyTurn DEF TypeOK, TurnFinishes
    <2>. QED
      BY <1>1, <2>1 DEF TurnFinishes, IdleTurn
  <1>6. \A j \in Jobs \ {k} : Simple(j)
    BY <1>3, <1>4, SameIsSimple
  <1>7. answers[k] = 0
    BY <1>2 DEF JobSound, Live
  <1>f. FileSound(k)'
    BY <1>2, <1>3, <1>4, FileFrame DEF DeployedInv
  <1>8. JobSound(k)' /\ Tale(k) /\ SameRun(k)
    BY <1>2, <1>3, <1>4, <1>7 DEF JobSound, Tale, SameRun, Ended, Live
  <1>9. Ownerless(k)
    BY <1>2, NotStarted
  <1>10. \A r \in Runs : Owns(r)' => proc'[r].job # k
    BY <1>3, <1>4, <1>9 DEF Ownerless, Owns, Busy
  <1>11. TurnSound(t)'
    <2>1. turn[t].at \in 1..clock
      BY <1>2 DEF DeployedInv, TurnSound, Holds
    <2>2. \A j \in Jobs : ~Holds(t, j)' /\ (Replies(t, j)' => j = k)
      BY <1>5 DEF Holds, Replies
    <2>3. /\ job'[k].status \in Ended /\ job'[k].phase # "unread"
          /\ answers'[k] = 0
      BY <1>3, <1>4, <1>7 DEF Ended
    <2>4. turn'[t].pc # "idle" => turn'[t].at \in 1..clock'
      BY <1>3, <1>5, <2>1
    <2>. QED
      BY <1>10, <2>2, <2>3, <2>4 DEF TurnSound
  <1>12. \A u \in Turns \ {t} : ~Holds(u, k) /\ ~Replies(u, k)
    BY <1>2 DEF DeployedInv, TurnSound, TurnsApart, Ended
  <1>13. \A j \in Jobs : Holds(t, j)' \/ Replies(t, j)' => j = k
    BY <1>5 DEF Holds, Replies
  <1>14. turn'[t] # turn[t]
    BY <1>5 DEF TurnFinishes
  <1>15. Promised(k)'
    <2>1. k \notin Quiet => turn'[t].pc = "replying"
      <3>1. turn \in [Turns -> TurnRecord]
        BY <1>0 DEF TypeOK
      <3>. QED
        BY <1>1, <3>1 DEF TurnFinishes
    <2>2. k \notin Quiet => Replies(t, k)'
      BY <1>2, <1>4, <1>5, <2>1 DEF Replies
    <2>. QED
      BY <2>2 DEF Promised, InHand, Replies
  <1>16. \A j \in Jobs : ~Replies(t, j)
    BY DEF TurnFinishes, Replies
  <1>. QED
    BY <1>3, <1>5, <1>6, <1>8, <1>f, <1>9, <1>11, <1>12, <1>13, <1>14, <1>15,
       <1>16, JobStep

LEMMA RepliesDeployed ==
    ASSUME QueueInv, DeployedInv, TypeOK', NEW t \in Turns, TurnReplies(t)
    PROVE  DeployedStep
  <1>0. TypeOK
    BY DEF QueueInv
  <1>1. PICK k \in Jobs : k = turn[t].job
    BY <1>0, BusyTurn DEF TurnReplies
  <1>2. /\ turn'[t] = IdleTurn
        /\ \A u \in Turns \ {t} : turn'[u] = turn[u]
        /\ UNCHANGED <<job, out, proc, clock>>
    BY <1>0 DEF TurnReplies, TypeOK
  <1>3. TurnSound(t)' /\ \A j \in Jobs : ~Holds(t, j)' /\ ~Replies(t, j)'
    BY <1>2 DEF TurnSound, Holds, Replies, IdleTurn
  <1>4. CASE answers' = answers
    <2>1. \A j \in Jobs : ~Replies(t, j)
      <3>. SUFFICES ASSUME NEW j \in Jobs, Replies(t, j) PROVE FALSE
        OBVIOUS
      <3>1. j = k /\ job[k].at = turn[t].at /\ answers[k] = 0
        BY <1>1 DEF Replies, DeployedInv, TurnSound
      <3>2. answers' = [answers EXCEPT ![k] = @ + 1]
        BY <1>1, <3>1 DEF TurnReplies
      <3>. QED
        BY <1>0, <1>4, <3>1, <3>2 DEF TypeOK
    <2>. QED
      BY <1>2, <1>3, <1>4, <2>1, TurnOnly
  <1>5. CASE answers' # answers
    <2>1. /\ job[k].at = turn[t].at
          /\ answers' = [answers EXCEPT ![k] = @ + 1]
          /\ Replies(t, k)
      BY <1>1, <1>5 DEF TurnReplies, Replies
    <2>2. /\ job[k].status \in Ended /\ job[k].phase # "unread"
          /\ answers[k] = 0 /\ JobSound(k)
          /\ \A r \in Runs : Owns(r) => proc[r].job # k
      BY <2>1 DEF DeployedInv, TurnSound
    <2>3. answers'[k] = 1 /\ \A j \in Jobs \ {k} : answers'[j] = answers[j]
      BY <1>0, <2>1, <2>2 DEF TypeOK
    <2>4. \A j \in Jobs \ {k} : Simple(j)
      BY <1>2, <2>3, SameIsSimple
    <2>5. JobSound(k)' /\ Tale(k) /\ SameRun(k)
      BY <1>2, <2>2, <2>3 DEF JobSound, Tale, SameRun, Ended, Live
    <2>f. FileSound(k)'
      BY <1>2, FileFrame DEF DeployedInv
    <2>6. Ownerless(k)
      BY <2>2, NotStarted
    <2>7. \A u \in Turns \ {t} : ~Holds(u, k) /\ ~Replies(u, k)
      BY <2>1, <2>2 DEF DeployedInv, TurnSound, TurnsApart, Ended
    <2>8. turn'[t] # turn[t]
      BY <1>2, <2>1 DEF Replies, IdleTurn
    <2>9. Promised(k)' /\ \A j \in Jobs \ {k} : ~Replies(t, j)
      BY <1>1, <2>3 DEF Promised, Replies
    <2>. QED
      BY <1>2, <1>3, <2>4, <2>5, <2>f, <2>6, <2>7, <2>8, <2>9, JobStep
  <1>. QED
    BY <1>4, <1>5

LEMMA TurnDeployed ==
    ASSUME QueueInv, DeployedInv, TypeOK', NEW t \in Turns,
           TurnStep(t) \/ TurnQuits(t) \/ TurnLosesAnswer(t)
    PROVE  DeployedStep
  <1>0. TypeOK
    BY DEF QueueInv
  <1>1. CASE TurnReads(t)
    BY <1>1, ReadsDeployed
  <1>2. CASE TurnFinishes(t)
    BY <1>2, FinishesDeployed
  <1>3. CASE TurnReplies(t)
    BY <1>3, RepliesDeployed
  <1>4. ASSUME turn' = [turn EXCEPT ![t] = IdleTurn],
               UNCHANGED <<job, out, proc, clock, answers>>,
               Calm => turn[t].pc # "replying"
        PROVE  DeployedStep
    <2>1. turn'[t] = IdleTurn /\ \A u \in Turns \ {t} : turn'[u] = turn[u]
      BY <1>0, <1>4 DEF TypeOK
    <2>2. TurnSound(t)' /\ \A j \in Jobs : ~Holds(t, j)' /\ ~Replies(t, j)'
      BY <2>1 DEF TurnSound, Holds, Replies, IdleTurn
    <2>3. Calm => \A j \in Jobs : ~Replies(t, j)
      BY <1>4 DEF Replies
    <2>. QED
      BY <1>4, <2>1, <2>2, <2>3, TurnOnly
  <1>5. CASE TurnFindsNothing(t) \/ TurnQuits(t) \/ TurnLosesAnswer(t)
    BY <1>4, <1>5 DEF TurnFindsNothing, TurnQuits, TurnLosesAnswer, Calm
  <1>6. CASE TurnReports(t)
    <2>1. /\ turn[t].pc = "holding"
          /\ \/ turn' = [turn EXCEPT ![t] = IdleTurn]
             \/ turn' = [turn EXCEPT ![t].pc = "filing"]
          /\ UNCHANGED <<job, out, proc, clock, answers>>
      BY <1>6 DEF TurnReports
    <2>2. CASE turn' = [turn EXCEPT ![t].pc = "filing"]
      <3>1. /\ turn \in [Turns -> TurnRecord]
            /\ turn[t] \in [pc: {"told", "holding", "filing", "replying"},
                            job: Jobs, at: Nat]
        BY <1>0, <2>1, BusyTurn DEF TypeOK
      <3>2. /\ \A u \in Turns \ {t} : turn'[u] = turn[u]
            /\ turn'[t].pc = "filing" /\ turn'[t].job = turn[t].job
            /\ turn'[t].at = turn[t].at
        BY <2>2, <3>1
      <3>3. \A j \in Jobs : /\ Holds(t, j)' => Holds(t, j)
                            /\ ~Replies(t, j)'
        BY <2>1, <3>2 DEF Holds, Replies
      <3>4. TurnSound(t)
        BY DEF DeployedInv
      <3>5. TurnSound(t)'
        BY <2>1, <3>2, <3>3, <3>4 DEF TurnSound
      <3>6. \A j \in Jobs : ~Replies(t, j)
        BY <2>1 DEF Replies
      <3>. QED
        BY <2>1, <3>2, <3>3, <3>5, <3>6, TurnOnly
    <2>. QED
      BY <1>4, <2>1, <2>2
  <1>. QED
    BY <1>1, <1>2, <1>3, <1>5, <1>6 DEF TurnStep

-----------------------------------------------------------------------------
(* Time and failures.                                                      *)
LEMMA LapsesDeployed ==
    ASSUME QueueInv, DeployedInv, Deployed, NEW k \in Jobs, LeaseLapses(k)
    PROVE  DeployedStep
  <1>0. TypeOK
    BY DEF QueueInv
  <1>1. /\ job[k].status = "running" /\ job[k].phase = "read"
        /\ job' = [job EXCEPT ![k].phase = "lapsed"]
        /\ UNCHANGED <<out, proc, turn, clock, answers>>
        /\ \A t \in Turns : turn[t].job = k => turn[t].pc = "told"
    BY DEF LeaseLapses, Deployed
  <1>2. /\ job'[k].run = job[k].run /\ job'[k].at = job[k].at
        /\ job'[k].status = job[k].status /\ job'[k].phase = "lapsed"
        /\ \A j \in Jobs \ {k} : job'[j] = job[j]
    BY <1>0, <1>1 DEF TypeOK, JobRecord
  <1>3. \A j \in Jobs \ {k} : Simple(j)
    BY <1>1, <1>2, SameIsSimple
  <1>4. JobSound(k)' /\ Tale(k) /\ SameRun(k)
    <2>1. JobSound(k)
      BY DEF DeployedInv
    <2>. QED
      BY <1>1, <1>2, <2>1 DEF JobSound, Tale, SameRun, Ended, Live
  <1>5. Ownerless(k)
    BY <1>1, NotStarted
  <1>6. \A t \in Turns : ~Holds(t, k) /\ ~Replies(t, k)
    BY <1>1 DEF Holds, Replies
  <1>7. \A j \in Jobs : job'[j].run = job[j].run /\ job'[j].at = job[j].at
    BY <1>2
  <1>8. ASSUME NEW j \in Jobs \ {k}
        PROVE  Framed(j) /\ Tale(j)
    BY <1>3, SimpleFramed
  <1>9. (\A s \in Runs : RunSound(s)') /\ OwnersStay
    BY <1>1, <1>5, <1>7, <1>8, RunsRest
  <1>10. (\A t \in Turns : TurnSound(t)') /\ TurnsApart'
    BY <1>0, <1>1, <1>6, <1>7, <1>8, <1>9, TurnsRest
  <1>f. FileSound(k)'
    <2>1. FileSound(k) /\ out[k].says = "none"
      BY <1>1 DEF DeployedInv, FileSound
    <2>. QED
      BY <1>1, <1>2, <2>1, FileFrame
  <1>11. \A j \in Jobs : JobSound(j)' /\ FileSound(j)'
    <2>. SUFFICES ASSUME NEW j \in Jobs \ {k}
                  PROVE  JobSound(j)' /\ FileSound(j)'
      BY <1>4, <1>f
    <2>1. JobSound(j) /\ FileSound(j) /\ Simple(j)
      BY <1>3 DEF DeployedInv
    <2>2. JobSound(j)'
      BY <1>0, <1>1, <2>1, JobFrame DEF Simple
    <2>. QED
      BY <1>1, <2>1, <2>2, SimpleFile
  <1>12. \A j \in Jobs : Tale(j)
    BY <1>4, <1>8
  <1>13. Answered
    <2>. SUFFICES ASSUME CalmInv PROVE CalmInv'
      BY DEF Answered
    <2>1. ASSUME NEW j \in Jobs \ {k} PROVE Promised(j)'
      BY <1>1, <1>3, SimpleFramed, PromisedStays DEF CalmInv
    <2>2. Promised(k)'
      BY <1>1, <1>2 DEF Promised, Ended
    <2>3. ASSUME NEW s \in Runs PROVE Answering(s)'
      <3>1. \A j \in Jobs : \/ Framed(j)
                            \/ job'[j].run # s
                            \/ Ownerless(j) /\ job[j].run = s
        BY <1>2, <1>5, <1>8
      <3>. QED
        BY <1>0, <1>1, <3>1, AnsweringStays DEF CalmInv
    <2>. QED
      BY <2>1, <2>2, <2>3 DEF CalmInv
  <1>. QED
    BY <1>9, <1>10, <1>11, <1>12, <1>13 DEF DeployedStep, DeployedInv

LEMMA SameFilesDeployed ==
    ASSUME QueueInv, DeployedInv,
           UNCHANGED <<job, out, proc, turn, clock, answers>>
    PROVE  DeployedStep
  BY SameIsSimple, SimpleStep

LEMMA AgesDeployed ==
    ASSUME QueueInv, DeployedInv, NEW k \in Jobs, Ages(k)
    PROVE  DeployedStep
  <1>0. TypeOK
    BY DEF QueueInv
  <1>1. /\ job' = [job EXCEPT ![k].aged = TRUE]
        /\ UNCHANGED <<out, proc, turn, clock, answers>>
    BY DEF Ages
  <1>2. \A j \in Jobs : /\ job'[j].run = job[j].run /\ job'[j].at = job[j].at
                        /\ job'[j].status = job[j].status
                        /\ job'[j].phase = job[j].phase
    BY <1>0, <1>1 DEF TypeOK, JobRecord
  <1>3. \A j \in Jobs : Simple(j)
    BY <1>1, <1>2 DEF Simple, Steady, SameRun
  <1>. QED
    BY <1>1, <1>3, SimpleStep

LEMMA RestartDeployed ==
    ASSUME QueueInv, DeployedInv, GatewayRestarts
    PROVE  DeployedStep
  <1>0. TypeOK
    BY DEF QueueInv
  <1>1. /\ proc' = [r \in Runs |-> FreeProc]
        /\ turn' = [t \in Turns |-> IdleTurn]
        /\ UNCHANGED <<job, clock, answers>>
        /\ \A j \in Jobs : out'[j].says = out[j].says /\ out'[j].by = {}
    BY <1>0 DEF GatewayRestarts, TypeOK, Output
  <1>2. \A r \in Runs : RunSound(r)'
    BY <1>1 DEF RunSound, Owns, Busy, Working, Printing, Over, FreeProc
  <1>3. \A t \in Turns : TurnSound(t)' /\ \A j \in Jobs : ~Holds(t, j)' /\ ~Replies(t, j)'
    BY <1>1 DEF TurnSound, Holds, Replies, IdleTurn
  <1>4. TurnsApart'
    BY <1>3 DEF TurnsApart
  <1>5. \A j \in Jobs : JobSound(j)' /\ FileSound(j)' /\ Tale(j)
    <2>. SUFFICES ASSUME NEW j \in Jobs
                  PROVE  JobSound(j)' /\ FileSound(j)' /\ Tale(j)
      OBVIOUS
    <2>1. JobSound(j) /\ FileSound(j) /\ Steady(j)
      BY <1>1 DEF DeployedInv, Steady, SameRun
    <2>2. JobSound(j)' /\ Tale(j)
      BY <1>0, <1>1, <2>1, JobFrame, FramedTale DEF Framed
    <2>3. \A r \in Runs : SaysOf(r, j)'
      BY <1>1 DEF SaysOf, Owns, Busy, FreeProc
    <2>4. FileSound(j)'
      BY <1>1, <2>1, <2>3 DEF FileSound
    <2>. QED
      BY <2>2, <2>4
  <1>6. Answered
    BY DEF Answered, Calm, GatewayRestarts
  <1>. QED
    BY <1>2, <1>3, <1>4, <1>5, <1>6 DEF DeployedStep, DeployedInv

LEMMA EnvironmentDeployed ==
    ASSUME QueueInv, DeployedInv, TypeOK', Deployed, Environment
    PROVE  DeployedStep
  <1>1. ASSUME NEW j \in Jobs, LeaseLapses(j) \/ Ages(j)
        PROVE  DeployedStep
    BY <1>1, LapsesDeployed, AgesDeployed
  <1>2. CASE EgressFlips
    BY <1>2, SameFilesDeployed DEF EgressFlips
  <1>3. ASSUME NEW g \in Gates, GateKilled(g)
        PROVE  DeployedStep
    BY <1>3, SameFilesDeployed DEF GateKilled
  <1>4. ASSUME NEW g \in Gates, NEW r \in Runs, GateKilledStarting(g, r)
        PROVE  DeployedStep
    BY <1>4, StartsDeployed
  <1>5. CASE GatewayRestarts
    BY <1>5, RestartDeployed
  <1>6. ASSUME NEW r \in Runs
        PROVE  ~RunnerKilled(r)
    BY DEF RunnerKilled, Deployed
  <1>7. ASSUME NEW r \in Runs, HandlerDies(r) \/ HandlerLosesAnswer(r)
        PROVE  DeployedStep
    <2>1. CASE HandlerDies(r)
      BY <2>1, HandlerMoves DEF HandlerDies, Printing, Over
    <2>2. CASE HandlerLosesAnswer(r)
      BY <2>2, HandlerMoves DEF HandlerLosesAnswer, Calm, Over
    <2>. QED
      BY <1>7, <2>1, <2>2
  <1>8. ASSUME NEW t \in Turns, TurnQuits(t) \/ TurnLosesAnswer(t)
        PROVE  DeployedStep
    BY <1>8, TurnDeployed
  <1>. QED
    BY <1>1, <1>2, <1>3, <1>4, <1>5, <1>6, <1>7, <1>8 DEF Environment

LEMMA GateDeployed ==
    ASSUME QueueInv, DeployedInv, NEW g \in Gates, GateStep(g)
    PROVE  DeployedStep
  <1>0. TypeOK
    BY DEF QueueInv
  <1>1. ASSUME NEW t \in Turns,
               GateOffers(g, t) \/ GateWithdraws(g, t) \/ GateGivesUp(g, t)
        PROVE  DeployedStep
    BY <1>1, OffersDeployed, WithdrawsDeployed, GivesUpDeployed
  <1>2. CASE GateCollects(g)
    <2>1. \A j \in Jobs : Simple(j)
      BY <1>0, <1>2, KeptIsSimple DEF GateCollects
    <2>. QED
      BY <1>2, <2>1, SimpleStep DEF GateCollects
  <1>3. CASE GatePicks(g) \/ GateSkips(g) \/ GateTooLate(g)
    BY <1>3, SameFilesDeployed DEF GatePicks, GateSkips, GateTooLate
  <1>4. ASSUME NEW r \in Runs, GateStarts(g, r)
        PROVE  DeployedStep
    BY <1>4, StartsDeployed
  <1>. QED
    BY <1>1, <1>2, <1>3, <1>4 DEF GateStep

LEMMA InitDeployed == Init => DeployedInv
  <1>. SUFFICES ASSUME Init PROVE DeployedInv
    OBVIOUS
  <1>1. ASSUME NEW j \in Jobs PROVE JobSound(j) /\ FileSound(j)
    <2>1. job[j] = Absent /\ out[j] = NoFile /\ answers[j] = 0 /\ clock = 0
      BY DEF Init
    <2>2. JobSound(j)
      BY <2>1 DEF JobSound, Absent, Live, Ended
    <2>3. \A r \in Runs : SaysOf(r, j)
      BY DEF Init, SaysOf, Owns, Busy, FreeProc
    <2>. QED
      BY <2>1, <2>2, <2>3 DEF FileSound, NoFile
  <1>2. \A r \in Runs : RunSound(r)
    BY DEF Init, RunSound, Owns, Busy, Working, Printing, Over, FreeProc
  <1>3. \A t \in Turns : TurnSound(t)
    BY DEF Init, TurnSound, Holds, Replies, IdleTurn
  <1>4. TurnsApart
    <2>1. \A t \in Turns : turn[t].pc = "idle"
      BY DEF Init, IdleTurn
    <2>. QED
      BY <2>1 DEF TurnsApart, Holds, Replies
  <1>. QED
    BY <1>1, <1>2, <1>3, <1>4 DEF DeployedInv

LEMMA InitCalm == Init => CalmInv
  <1>. SUFFICES ASSUME Init PROVE CalmInv
    OBVIOUS
  <1>1. \A r \in Runs : proc[r].pc = "free"
    BY DEF Init, FreeProc
  <1>2. \A j \in Jobs : job[j].status = "absent"
    BY DEF Init, Absent
  <1>3. \A r \in Runs : Answering(r)
    BY <1>1 DEF Answering, Owns, Busy
  <1>4. \A j \in Jobs : Promised(j)
    BY <1>2 DEF Promised, Ended
  <1>. QED
    BY <1>3, <1>4 DEF CalmInv

LEMMA NextDeployed ==
    ASSUME Deployed
    PROVE  QueueInv /\ QueueInv' /\ DeployedInv /\ [Next]_vars => DeployedStep
  <1>. SUFFICES ASSUME QueueInv, QueueInv', DeployedInv, [Next]_vars
                PROVE  DeployedStep
    OBVIOUS
  <1>0. TypeOK'
    BY DEF QueueInv
  <1>1. CASE UNCHANGED vars
    BY <1>1, SameFilesDeployed DEF vars
  <1>. QED
    BY <1>0, <1>1, GateDeployed, ProcDeployed, TurnDeployed, ClientDeployed,
       EnvironmentDeployed DEF Next

LEMMA DeployedInvariant ==
    ASSUME Deployed
    PROVE  Spec => []DeployedInv
  <1>1. QueueInv /\ QueueInv' /\ DeployedInv /\ [Next]_vars => DeployedInv'
    BY NextDeployed DEF DeployedStep
  <1>. QED
    BY <1>1, InitDeployed, QueueInvariant, PTL DEF Spec

-----------------------------------------------------------------------------
(***************************************************************************)
(* What follows for the deployed system.                                   *)
(***************************************************************************)

(* At most one handler is fetching or transcribing, whatever gates race,   *)
(* die between start and save, or find the egress gone.                    *)
THEOREM FetchingIsExclusive ==
    ASSUME Deployed
    PROVE  Spec => []FetchesAlone
  <1>1. QueueInv /\ DeployedInv /\ OneLive => FetchesAlone
    <2>. SUFFICES ASSUME QueueInv, DeployedInv, OneLive,
                         NEW r \in Runs, NEW s \in Runs,
                         proc[r].pc = "fetching", proc[s].pc = "fetching"
                  PROVE  r = s
      BY DEF FetchesAlone
    <2>1. ASSUME NEW q \in Runs, proc[q].pc = "fetching"
          PROVE  /\ proc[q].job \in Jobs
                 /\ job[proc[q].job].run = q
                 /\ job[proc[q].job].status = "running"
                 /\ ~Stale(proc[q].job, {})
      <3>1. proc[q].job \in Jobs
        BY <2>1, BusyProc DEF QueueInv
      <3>2. RunSound(q)
        BY DEF DeployedInv
      <3>3. /\ job[proc[q].job].run = q /\ proc[q].up
            /\ job[proc[q].job].status = "running"
        BY <2>1, <3>2 DEF RunSound, Working, Printing, Over, Owns, Busy
      <3>4. job[proc[q].job].phase = "started"
        BY <2>1, <3>1, <3>2, <3>3, NobodyAt DEF Busy
      <3>. QED
        BY <3>1, <3>3, <3>4 DEF Stale, Alive
    <2>2. proc[r].job = proc[s].job
      BY <2>1 DEF OneLive
    <2>. QED
      BY <2>1, <2>2
  <1>. QED
    BY <1>1, QueueInvariant, DeployedInvariant, OneAtATime, PTL

(* An output that is read, withdrawn or of a replaced job is off the disk, *)
(* and what a handler printed stays there only until its job is recorded,  *)
(* run again, asked for anew or forgotten.                                 *)
THEOREM NothingLeftBehind ==
    ASSUME Deployed
    PROVE  Spec => []OutputOnlyWhileUnread
  <1>1. DeployedInv => OutputOnlyWhileUnread
    BY DEF DeployedInv, FileSound, OutputOnlyWhileUnread
  <1>. QED
    BY <1>1, DeployedInvariant, PTL

(* What a gate offers as unread can be read: no runner that was replaced   *)
(* empties the file of the run that came after it.                         *)
THEOREM UnreadOnDisk ==
    ASSUME Deployed
    PROVE  Spec => []UnreadHasOutput
  <1>1. DeployedInv => UnreadHasOutput
    BY DEF DeployedInv, JobSound, UnreadHasOutput
  <1>. QED
    BY <1>1, DeployedInvariant, PTL

(* What a runner files is what its own handler printed, and that was       *)
(* started for the very request the job now stands for.                    *)
THEOREM OwnAnswer ==
    ASSUME Deployed
    PROVE  Spec => AnswerOfThisRequest
  <1>1. ASSUME QueueInv, DeployedInv, [Next]_vars, NEW j \in Jobs,
               job[j].phase # "unread", job'[j].phase = "unread"
        PROVE  out'[j].for = job[j].at
    <2>. DEFINE r == job[j].run
    <2>1. Footprint
      BY <1>1, NextFootprint DEF QueueInv
    <2>2. Reported(j)
      BY <1>1, <2>1
      DEF Footprint, JobMove, Untouched, Reset, Consumed, Started
    <2>3. /\ r \in Runs /\ proc[r].job = j /\ proc[r].pc = "exited"
          /\ proc[r].text # "dead" /\ out[j].says # "none"
          /\ out'[j].for = out[j].for
      BY <1>1, <2>2 DEF Reported
    <2>4. Owns(r) /\ SaysOf(r, j)
      BY <1>1, <2>3 DEF Owns, Busy, DeployedInv, FileSound
    <2>5. out[j].for = proc[r].at
      BY <2>3, <2>4 DEF SaysOf
    <2>6. proc[r].at = job[j].at
      BY <1>1, <2>3 DEF QueueInv, RunInv
    <2>. QED
      BY <2>3, <2>5, <2>6
  <1>2. QueueInv /\ DeployedInv /\ [Next]_vars =>
           [\A j \in Jobs :
               job[j].phase # "unread" /\ job'[j].phase = "unread"
                  => out'[j].for = job[j].at]_vars
    BY <1>1
  <1>. QED
    BY <1>2, QueueInvariant, DeployedInvariant, PTL DEF Spec, AnswerOfThisRequest

(* No request ends without its owner's answer being told or in hand.       *)
THEOREM NobodyIsLeftWaiting ==
    ASSUME Calm
    PROVE  Spec => []NoSilentEnd
  <1>1. QueueInv /\ QueueInv' /\ DeployedInv /\ CalmInv /\ [Next]_vars => CalmInv'
    BY NextDeployed DEF DeployedStep, Answered, Calm
  <1>2. CalmInv => NoSilentEnd
    BY DEF CalmInv, Promised, NoSilentEnd
  <1>3. Spec => []DeployedInv
    BY DeployedInvariant DEF Calm
  <1>. QED
    BY <1>1, <1>2, <1>3, InitCalm, QueueInvariant, PTL DEF Spec

-----------------------------------------------------------------------------
(* What an owner sees of one job.                                          *)
Seen(j) == CASE job[j].status = "absent" -> "none"
             [] job[j].status \in Live -> "pending"
             [] OTHER -> job[j].status

Heard(j) == IF job[j].status = "absent" THEN 0 ELSE answers[j]

LEMMA OwnersSee ==
    ASSUME TypeOK, NEW j \in Jobs, JobSound(j)
    PROVE  /\ job[j].status \in Live => Seen(j) = "pending" /\ Heard(j) = 0
           /\ job[j].status \in Ended => /\ Seen(j) = job[j].status
                                         /\ Heard(j) = answers[j]
           /\ job[j].status = "absent" => Seen(j) = "none" /\ Heard(j) = 0
  BY DEF Seen, Heard, Live, Ended, JobSound

(* Each step is a step of the request at each job, or none.                *)
LEMMA OwnersStep ==
    ASSUME TypeOK, TypeOK', NEW j \in Jobs, JobSound(j), JobSound(j)', Tale(j)
    PROVE  \/ Seen(j)' = Seen(j) /\ Heard(j)' = Heard(j)
           \/ Seen(j) # "pending" /\ Seen(j)' = "pending" /\ Heard(j)' = 0
           \/ /\ Seen(j) = "pending" /\ Seen(j)' \in {"done", "failed"}
              /\ Heard(j)' = Heard(j)
           \/ /\ Seen(j) \in {"done", "failed"} /\ Heard(j) = 0
              /\ Heard(j)' = 1 /\ Seen(j)' = Seen(j)
           \/ Seen(j)' = "none" /\ Heard(j)' = 0
  <1>1. /\ job[j].status \in Live \cup Ended \cup {"absent"}
        /\ job'[j].status \in Live \cup Ended \cup {"absent"}
    BY DEF TypeOK, JobRecord
  <1>2. /\ job[j].status \in Live => Seen(j) = "pending" /\ Heard(j) = 0
        /\ job[j].status \in Ended => /\ Seen(j) = job[j].status
                                      /\ Heard(j) = answers[j]
        /\ job[j].status = "absent" => Seen(j) = "none" /\ Heard(j) = 0
    BY OwnersSee
  <1>3. /\ job'[j].status \in Live => Seen(j)' = "pending" /\ Heard(j)' = 0
        /\ job'[j].status \in Ended => /\ Seen(j)' = job'[j].status
                                       /\ Heard(j)' = answers'[j]
        /\ job'[j].status = "absent" => Seen(j)' = "none" /\ Heard(j)' = 0
    <2>1. job'[j].status = "absent" => Seen(j)' = "none" /\ Heard(j)' = 0
      BY DEF Seen, Heard, Live
    <2>2. job'[j].status \in Live => Seen(j)' = "pending" /\ Heard(j)' = 0
      BY DEF Seen, Heard, Live, JobSound
    <2>3. job'[j].status \in Ended => /\ Seen(j)' = job'[j].status
                                      /\ Heard(j)' = answers'[j]
      BY DEF Seen, Heard, Live, Ended
    <2>. QED
      BY <2>1, <2>2, <2>3
  <1>4. CASE Renewed(j)
    <2>1. \/ job'[j].status = "absent"
          \/ job'[j].status \in Live /\ job[j].status \notin Live
          \/ job'[j].status \in Live /\ job[j].status = "queued"
      BY <1>4 DEF Renewed, Absent, NewRecord, Live
    <2>. QED
      BY <1>1, <1>2, <1>3, <2>1 DEF Ended
  <1>5. CASE job'[j].status = job[j].status /\ answers'[j] = answers[j]
    BY <1>1, <1>2, <1>3, <1>5
  <1>6. CASE {job[j].status, job'[j].status} \subseteq Live
    BY <1>2, <1>3, <1>6
  <1>7. CASE /\ job[j].status = "running" /\ job'[j].status \in Ended
             /\ answers'[j] = answers[j]
    <2>1. job[j].status \in Live /\ answers[j] = 0
      BY <1>7 DEF Live, JobSound
    <2>. QED
      BY <1>2, <1>3, <1>7, <2>1 DEF Ended
  <1>8. CASE /\ job[j].status \in Ended /\ job'[j].status = job[j].status
             /\ answers[j] = 0 /\ answers'[j] = 1
    BY <1>2, <1>3, <1>8 DEF Ended
  <1>. QED
    BY <1>4, <1>5, <1>6, <1>7, <1>8 DEF Tale

(* The deployed queue implements the promise to the owners.                *)
THEOREM RequestsImplemented ==
    ASSUME Deployed
    PROVE  Spec => ImplementsRequests
  <1>1. Init => Owners!Init
    BY DEF Init, Owners!Init, Absent, Live
  <1>2. ASSUME QueueInv, QueueInv', DeployedInv, [Next]_vars
        PROVE  [Owners!Next]_(Owners!vars)
    <2>. DEFINE ticket == [j \in Jobs |->
                    CASE job[j].status = "absent" -> "none"
                      [] job[j].status \in Live -> "pending"
                      [] OTHER -> job[j].status]
                told == [j \in Jobs |-> IF job[j].status = "absent" THEN 0
                                        ELSE answers[j]]
    <2>1. TypeOK /\ TypeOK' /\ DeployedStep
      BY <1>2, NextDeployed DEF QueueInv
    <2>2. ASSUME NEW j \in Jobs
          PROVE  /\ JobSound(j) /\ JobSound(j)' /\ Tale(j)
                 /\ ticket[j] = Seen(j) /\ told[j] = Heard(j)
                 /\ ticket'[j] = Seen(j)' /\ told'[j] = Heard(j)'
      BY <1>2, <2>1 DEF DeployedStep, DeployedInv, Seen, Heard
    <2>3. ASSUME NEW j \in Jobs
          PROVE  Seen(j)' \in Owners!Tickets /\ Heard(j)' \in 0..1
      <3>1. /\ job'[j].status \in Live \cup Ended \cup {"absent"}
            /\ answers'[j] \in 0..2
        BY <2>1 DEF TypeOK, JobRecord
      <3>2. /\ job'[j].status \in Live => answers'[j] = 0
            /\ job'[j].status \in Ended => answers'[j] <= 1
        BY <2>2 DEF JobSound
      <3>. QED
        BY <3>1, <3>2 DEF Seen, Heard, Live, Ended, Owners!Tickets
    <2>4. ASSUME NEW j \in Jobs
          PROVE  \/ Owners!Stay(j) \/ Owners!Ask(j) \/ Owners!Settle(j)
                 \/ Owners!Tell(j) \/ Owners!Forget(j)
      BY <2>1, <2>2, OwnersStep
      DEF Owners!Stay, Owners!Ask, Owners!Settle, Owners!Tell, Owners!Forget
    <2>5. /\ ticket' \in [Jobs -> Owners!Tickets]
          /\ told' \in [Jobs -> 0..1]
      BY <2>2, <2>3
    <2>. QED
      BY <2>4, <2>5 DEF Owners!Next
  <1>. QED
    BY <1>1, <1>2, QueueInvariant, DeployedInvariant, PTL
    DEF ImplementsRequests, Owners!Spec, Spec

-----------------------------------------------------------------------------
(***************************************************************************)
(* What the producer sees: one job worked on, and nobody else's verdict on *)
(* it meanwhile.                                                           *)
(***************************************************************************)
SameWork == \A j \in Jobs : WorkedOn(j)' <=> WorkedOn(j)
NoWork   == \A j \in Jobs : ~WorkedOn(j)
Only(k)  == \A j \in Jobs : WorkedOn(j) <=> j = k

(* The job keeps its status, or is cancelled or forgotten.                 *)
Passed(j) ==
    \/ job'[j].status = job[j].status
    \/ /\ job[j].status \notin {"absent", "running"}
       /\ job'[j].status = "absent"

(* What else may become of one job in a step.                              *)
Deed(j) ==
    \/ /\ job[j].status \notin Live /\ job'[j].status = "queued"
       /\ SameWork
    \/ /\ NoWork /\ job[j].status \in Live
       /\ job'[j].status = "running" /\ Only(j)'
    \/ /\ NoWork /\ job[j].status = "running"
       /\ job'[j].status \in {"failed", "done"} /\ NoWork'
    \/ /\ Only(j) /\ NoWork'
       /\ job'[j].status \in {job[j].status, "queued", "done", "failed"}

LEMMA StatusesSeen == TypeOK' => \A j \in Jobs : job'[j].status \in Producer!Statuses
  BY DEF TypeOK, JobRecord, Producer!Statuses, Producer!Live, Live, Ended

LEMMA PassStep ==
    ASSUME TypeOK', \A j \in Jobs : Passed(j), SameWork
    PROVE  Producer!Next
  <1>1. [j \in Jobs |-> job[j].status]' \in [Jobs -> Producer!Statuses]
    BY StatusesSeen
  <1>2. {j \in Jobs : WorkedOn(j)}' = {j \in Jobs : WorkedOn(j)}
    BY DEF SameWork
  <1>3. ASSUME NEW j \in Jobs
        PROVE  Producer!Stay(j) \/ Producer!Forget(j)
    BY DEF Passed, Producer!Stay, Producer!Forget, Producer!MayForget
  <1>. QED
    BY <1>1, <1>2, <1>3 DEF Producer!Next

LEMMA DeedStep ==
    ASSUME TypeOK', NEW j \in Jobs, Deed(j), \A k \in Jobs \ {j} : Passed(k)
    PROVE  Producer!Next
  <1>. DEFINE working == {k \in Jobs : WorkedOn(k)}
  <1>1. [k \in Jobs |-> job[k].status]' \in [Jobs -> Producer!Statuses]
    BY StatusesSeen
  <1>2. ASSUME NEW k \in Jobs \ {j}
        PROVE  Producer!Stay(k) \/ Producer!Forget(k)
    BY DEF Passed, Producer!Stay, Producer!Forget, Producer!MayForget
  <1>3. /\ NoWork => working = {}
        /\ NoWork' => working' = {}
        /\ Only(j) => working = {j}
        /\ Only(j)' => working' = {j}
        /\ SameWork => working' = working
    BY DEF NoWork, Only, SameWork
  <1>4. \/ Producer!Ask(j) \/ Producer!Hand(j) \/ Producer!GiveUp(j)
        \/ Producer!Leave(j) \/ Producer!Settle(j) \/ Producer!Report(j)
    <2>1. CASE /\ job[j].status \notin Live /\ job'[j].status = "queued"
               /\ SameWork
      BY <1>3, <2>1 DEF Producer!Ask, Producer!MayAsk, Producer!Live, Live
    <2>2. CASE /\ NoWork /\ job[j].status \in Live
               /\ job'[j].status = "running" /\ Only(j)'
      BY <1>3, <2>2 DEF Producer!Hand, Producer!MayHand, Producer!Live, Live
    <2>3. CASE /\ NoWork /\ job[j].status = "running"
               /\ job'[j].status \in {"failed", "done"} /\ NoWork'
      BY <1>3, <2>3 DEF Producer!GiveUp, Producer!MayGiveUp, Producer!Report
    <2>4. CASE /\ Only(j) /\ NoWork'
               /\ job'[j].status \in {job[j].status, "queued", "done", "failed"}
      BY <1>3, <2>4 DEF Producer!Leave, Producer!Settle
    <2>. QED
      BY <2>1, <2>2, <2>3, <2>4 DEF Deed
  <1>. QED
    BY <1>1, <1>2, <1>4 DEF Producer!Next

-----------------------------------------------------------------------------
AtWork == {"spawned"} \cup Working

(* A job is worked on only while somebody will report back for it, ...     *)
LEMMA WorkIsAttended ==
    ASSUME QueueInv, DeployedInv, NEW j \in Jobs, WorkedOn(j)
    PROVE  Attended(j) /\ job[j].status = "running" /\ job[j].phase = "started"
  <1>1. PICK r \in Runs : /\ proc[r].pc \in AtWork
                          /\ proc[r].job = j
                          /\ job[j].run = r
    BY DEF WorkedOn, AtWork, Working, Printing
  <1>2. RunSound(r) /\ Busy(r) /\ Owns(r) /\ proc[r].pc \notin Over
    BY <1>1 DEF DeployedInv, Busy, Owns, AtWork, Working, Printing, Over
  <1>3. proc[r].up /\ job[j].status = "running" /\ job[j].phase = "started"
    BY <1>1, <1>2, NobodyAt DEF RunSound
  <1>. QED
    BY <1>1, <1>3 DEF Attended, Stale, Alive

(* ... so that no other is, and none while another is attended.            *)
LEMMA WorkIsAlone ==
    ASSUME QueueInv, DeployedInv, OneLive
    PROVE  /\ \A j \in Jobs : WorkedOn(j) => Only(j)
           /\ \A j \in Jobs : Attended(j) /\ ~WorkedOn(j) => NoWork
           /\ (\A j \in Jobs : ~Attended(j)) => NoWork
  <1>1. \A j \in Jobs : WorkedOn(j) => Attended(j)
    BY WorkIsAttended
  <1>. QED
    BY <1>1 DEF OneLive, Attended, Only, NoWork

SameRunHere(j) ==
    \/ job'[j].run = job[j].run
    \/ job'[j].run = NoRun /\ job[j].status # "running"

(* The processes rest, and no job that is worked on goes away.             *)
LEMMA WorkRests ==
    ASSUME QueueInv, DeployedInv, proc' = proc, \A j \in Jobs : SameRunHere(j)
    PROVE  SameWork
  <1>. SUFFICES ASSUME NEW j \in Jobs PROVE WorkedOn(j)' <=> WorkedOn(j)
    BY DEF SameWork
  <1>1. CASE job'[j].run = job[j].run
    BY <1>1 DEF WorkedOn
  <1>2. CASE job'[j].run = NoRun /\ job[j].status # "running"
    <2>1. ~WorkedOn(j)
      BY <1>2, WorkIsAttended
    <2>. QED
      BY <1>2, <2>1, QueueAssumption DEF WorkedOn
  <1>. QED
    BY <1>1, <1>2 DEF SameRunHere

(* One process moves, and neither comes to work on a job nor leaves one.   *)
LEMMA WorkGoesOn ==
    ASSUME NEW r \in Runs, \A s \in Runs \ {r} : proc'[s] = proc[s],
           \A j \in Jobs : job'[j].run = job[j].run,
           \/ /\ proc[r].pc \in AtWork
              /\ proc'[r].pc \in AtWork
              /\ proc'[r].job = proc[r].job
           \/ \A j \in Jobs :
                /\ \/ proc[r].pc \notin AtWork
                   \/ job[j].run # r \/ proc[r].job # j
                /\ \/ proc'[r].pc \notin AtWork
                   \/ job[j].run # r \/ proc'[r].job # j
    PROVE  SameWork
  <1>. SUFFICES ASSUME NEW j \in Jobs PROVE WorkedOn(j)' <=> WorkedOn(j)
    BY DEF SameWork
  <1>1. \A s \in Runs :
           /\ proc'[s].pc \in AtWork /\ proc'[s].job = j /\ job'[j].run = s
           <=> proc[s].pc \in AtWork /\ proc[s].job = j /\ job[j].run = s
    OBVIOUS
  <1>. QED
    BY <1>1 DEF WorkedOn, AtWork, Working, Printing

(* A handler comes to its end.                                             *)
LEMMA WorkEnds ==
    ASSUME QueueInv, DeployedInv, OneLive,
           NEW r \in Runs, proc[r].pc \in Working, proc'[r].pc \in Over,
           \A s \in Runs \ {r} : proc'[s] = proc[s],
           \A j \in Jobs : job'[j].run = job[j].run
    PROVE  /\ proc[r].job \in Jobs /\ job[proc[r].job].status = "running"
           /\ Only(proc[r].job) /\ NoWork'
  <1>1. proc[r].job \in Jobs
    BY BusyProc DEF QueueInv, Working, Printing
  <1>2. job[proc[r].job].run = r
    BY DEF DeployedInv, RunSound, Owns
  <1>3. WorkedOn(proc[r].job)
    BY <1>1, <1>2 DEF WorkedOn, Working, Printing
  <1>4. Only(proc[r].job) /\ job[proc[r].job].status = "running"
    BY <1>1, <1>3, WorkIsAlone, WorkIsAttended
  <1>5. NoWork'
    <2>. SUFFICES ASSUME NEW j \in Jobs, NEW s \in Runs, proc'[s].job = j, job'[j].run = s,
                         proc'[s].pc \in AtWork
                  PROVE  FALSE
      BY DEF NoWork, WorkedOn, AtWork, Working, Printing
    <2>1. s # r
      BY DEF AtWork, Working, Printing, Over
    <2>2. WorkedOn(j)
      BY <2>1 DEF WorkedOn, AtWork, Working, Printing
    <2>3. j = proc[r].job
      BY <1>4, <2>2 DEF Only
    <2>. QED
      BY <1>2, <2>1, <2>3
  <1>. QED
    BY <1>1, <1>4, <1>5

(* Nothing that the producer sees changes.                                 *)
LEMMA Unseen ==
    ASSUME TypeOK', SameWork, \A j \in Jobs : job'[j].status = job[j].status
    PROVE  Producer!Next
  BY PassStep DEF Passed

(* A pruned job: kept as it is, or forgotten after it ended.               *)
LEMMA KeptPasses ==
    ASSUME TypeOK, NEW j \in Jobs, job'[j] = Kept[j]
    PROVE  Passed(j) /\ SameRunHere(j)
  <1>1. Kept[j] = job[j] \/ (Kept[j] = Absent /\ job[j].status \in Ended)
    BY KeptLemma
  <1>. QED
    BY <1>1 DEF Passed, SameRunHere, Absent, Ended

(* Processes and records rest but for one job's verdict, while nothing is  *)
(* worked on.                                                              *)
LEMMA VerdictStep ==
    ASSUME QueueInv, DeployedInv, TypeOK', NoWork, proc' = proc,
           NEW k \in Jobs, \A j \in Jobs \ {k} : Passed(j) /\ SameRunHere(j),
           SameRunHere(k), job[k].status = "running",
           job'[k].status \in {"failed", "done"}
    PROVE  Producer!Next
  <1>1. SameWork
    BY WorkRests
  <1>2. NoWork'
    BY <1>1 DEF SameWork, NoWork
  <1>3. Deed(k)
    BY <1>2 DEF Deed
  <1>. QED
    BY <1>3, DeedStep

(* An unread output is offered: the producer sees nothing of it.           *)
LEMMA OffersWork ==
    ASSUME QueueInv, DeployedInv, TypeOK', NEW g \in Gates, NEW t \in Turns,
           GateOffers(g, t)
    PROVE  Producer!Next
  <1>0. TypeOK
    BY DEF QueueInv
  <1>1. PICK c \in Oldest(Tickets(Unread)) :
           job' = [Kept EXCEPT ![c.id].offers = @ + 1]
    BY DEF GateOffers
  <1>. DEFINE k == c.id
  <1>2. /\ k \in Jobs /\ ~Prunable(k)
        /\ Kept[k] = job[k] /\ Kept \in [Jobs -> JobRecord]
    BY <1>0, OldestLemma, UnprunedJob, KeptLemma DEF Unread
  <1>3. job'[k].status = job[k].status /\ job'[k].run = job[k].run
    BY <1>1, <1>2 DEF JobRecord
  <1>4. \A j \in Jobs \ {k} : job'[j] = Kept[j]
    BY <1>1, <1>2
  <1>. HIDE DEF k
  <1>5. \A j \in Jobs : Passed(j) /\ SameRunHere(j)
    BY <1>0, <1>3, <1>4, KeptPasses DEF Passed, SameRunHere
  <1>6. SameWork
    BY <1>5, WorkRests DEF GateOffers
  <1>. QED
    BY <1>5, <1>6, PassStep

(* One withdrawn: its job is not worked on, it has been run.               *)
LEMMA WithdrawsWork ==
    ASSUME QueueInv, DeployedInv, OneLive, TypeOK', NEW g \in Gates,
           NEW t \in Turns, GateWithdraws(g, t)
    PROVE  Producer!Next
  <1>0. TypeOK
    BY DEF QueueInv
  <1>1. PICK c \in Oldest(Tickets(Unread)) :
           job' = [Kept EXCEPT
                     ![c.id].phase = "empty",
                     ![c.id].status = IF @ = "running" THEN "failed" ELSE @]
    BY DEF GateWithdraws
  <1>. DEFINE k == c.id
  <1>2. /\ k \in Jobs /\ ~Prunable(k) /\ job[k].phase = "unread"
        /\ Kept[k] = job[k] /\ Kept \in [Jobs -> JobRecord]
    BY <1>0, OldestLemma, UnprunedJob, KeptLemma DEF Unread
  <1>3. /\ job'[k].run = job[k].run
        /\ job'[k].status = IF job[k].status = "running" THEN "failed"
                            ELSE job[k].status
    BY <1>1, <1>2 DEF JobRecord
  <1>4. \A j \in Jobs \ {k} : job'[j] = Kept[j]
    BY <1>1, <1>2
  <1>5. proc' = proc
    BY DEF GateWithdraws
  <1>. HIDE DEF k
  <1>6. /\ \A j \in Jobs \ {k} : Passed(j) /\ SameRunHere(j)
        /\ SameRunHere(k)
    BY <1>0, <1>3, <1>4, KeptPasses DEF SameRunHere
  <1>7. CASE job[k].status = "running"
    <2>1. Attended(k)
      BY <1>2, <1>7 DEF Attended, Stale
    <2>2. ~WorkedOn(k)
      BY <1>2, WorkIsAttended
    <2>3. NoWork
      BY <1>2, <2>1, <2>2, WorkIsAlone
    <2>. QED
      BY <1>2, <1>3, <1>5, <1>6, <1>7, <2>3, VerdictStep
  <1>8. CASE job[k].status # "running"
    <2>1. \A j \in Jobs : Passed(j) /\ SameRunHere(j)
      BY <1>3, <1>6, <1>8 DEF Passed
    <2>2. SameWork
      BY <1>5, <2>1, WorkRests
    <2>. QED
      BY <2>1, <2>2, PassStep
  <1>. QED
    BY <1>7, <1>8

(* A job given up: every running one is stale, and none is worked on.      *)
LEMMA GivesUpWork ==
    ASSUME QueueInv, DeployedInv, OneLive, TypeOK', NEW g \in Gates,
           NEW t \in Turns, GateGivesUp(g, t)
    PROVE  Producer!Next
  <1>0. TypeOK
    BY DEF QueueInv
  <1>1. PICK c \in Oldest(Tickets(Exhausted)) :
           job' = [Kept EXCEPT ![c.id].status = "failed"]
    BY DEF GateGivesUp
  <1>. DEFINE k == c.id
  <1>2. /\ k \in Jobs /\ Stale(k, {}) /\ ~Prunable(k)
        /\ \A j \in Jobs : job[j].status = "running" => Stale(j, {})
        /\ Kept[k] = job[k] /\ Kept \in [Jobs -> JobRecord]
    <2>1. k \in Exhausted
      <3>1. Exhausted \in SUBSET Jobs
        BY DEF Exhausted, Runnable
      <3>. QED
        BY <1>0, <3>1, OldestLemma
    <2>2. k \in Jobs /\ Stale(k, {}) /\ ~Prunable(k)
      BY <2>1 DEF Exhausted, Runnable, Stale, Prunable, Ended
    <2>3. \A j \in Jobs : job[j].status = "running" => Stale(j, {})
      BY <2>1 DEF Exhausted, Runnable
    <2>. QED
      BY <1>0, <2>2, <2>3, UnprunedJob, KeptLemma
  <1>3. job'[k].status = "failed" /\ job'[k].run = job[k].run
    BY <1>1, <1>2 DEF JobRecord
  <1>4. \A j \in Jobs \ {k} : job'[j] = Kept[j]
    BY <1>1, <1>2
  <1>. HIDE DEF k
  <1>5. /\ \A j \in Jobs \ {k} : Passed(j) /\ SameRunHere(j)
        /\ SameRunHere(k)
    BY <1>0, <1>3, <1>4, KeptPasses DEF SameRunHere
  <1>6. NoWork
    BY <1>2, WorkIsAlone DEF Attended
  <1>7. job[k].status = "running" /\ proc' = proc
    BY <1>2 DEF Stale, GateGivesUp
  <1>. QED
    BY <1>2, <1>3, <1>5, <1>6, <1>7, VerdictStep

(* Only the gate in its second locked section hands a job to a handler,    *)
(* and no other job is worked on then.                                     *)
LEMMA StartsWork ==
    ASSUME QueueInv, DeployedInv, OneLive, TypeOK', NEW g \in Gates,
           NEW r \in Runs, GateStarts(g, r)
    PROVE  Producer!Next
  <1>0. TypeOK
    BY DEF QueueInv
  <1>1. PICK c \in gate[g].ready :
           /\ MayStart(g, c.id)
           /\ Spawn(r, c.id)
           /\ job' = [job EXCEPT ![c.id] = Claimed(c.id, r)]
    BY DEF GateStarts
  <1>. DEFINE k == c.id
  <1>2. /\ k \in Jobs
        /\ \/ job[k].status = "queued"
           \/ Stale(k, gate[g].late)
        /\ \A j \in Jobs : job[j].status = "running" => Stale(j, gate[g].late)
    BY <1>1 DEF MayStart, Runnable
  <1>3. /\ \A s \in Runs \ {r} : proc'[s] = proc[s]
        /\ proc'[r].pc = "spawned" /\ proc'[r].job = k
        /\ \A j \in Jobs : job[j].run # r
    BY <1>0, <1>1, <1>2 DEF Spawn, Fresh, GateStarts, TypeOK
  <1>4. /\ \A j \in Jobs \ {k} : job'[j] = job[j]
        /\ job'[k].run = r /\ job'[k].status = "running"
    BY <1>0, <1>1, <1>2 DEF TypeOK, Claimed
  <1>. HIDE DEF k
  <1>5. NoWork
    <2>1. \A j \in Jobs : ~Attended(j)
      BY <1>2 DEF Attended, Stale
    <2>. QED
      BY <2>1, WorkIsAlone
  <1>6. Only(k)'
    <2>1. WorkedOn(k)'
      BY <1>3, <1>4 DEF WorkedOn
    <2>2. ASSUME NEW j \in Jobs, j # k PROVE ~WorkedOn(j)'
      <3>1. \A s \in Runs : job'[j].run = s => s # r /\ proc'[s] = proc[s]
        BY <1>3, <1>4, <2>2
      <3>2. ~WorkedOn(j) /\ job'[j] = job[j]
        BY <1>4, <1>5, <2>2 DEF NoWork
      <3>. QED
        BY <3>1, <3>2 DEF WorkedOn
    <2>. QED
      BY <2>1, <2>2 DEF Only
  <1>7. Deed(k)
    BY <1>2, <1>4, <1>5, <1>6 DEF Deed, Stale, Live
  <1>8. \A j \in Jobs \ {k} : Passed(j)
    BY <1>4 DEF Passed
  <1>. QED
    BY <1>2, <1>7, <1>8, DeedStep

(* Nothing of the records changes, nor of the processes.                   *)
LEMMA RestUnseen ==
    ASSUME TypeOK', UNCHANGED <<job, proc>>
    PROVE  Producer!Next
  <1>1. SameWork
    BY DEF SameWork, WorkedOn
  <1>. QED
    BY <1>1, Unseen

LEMMA GateWork ==
    ASSUME QueueInv, DeployedInv, OneLive, TypeOK', NEW g \in Gates, GateStep(g)
    PROVE  Producer!Next
  <1>1. ASSUME NEW t \in Turns, GateOffers(g, t) PROVE Producer!Next
    BY <1>1, OffersWork
  <1>2. ASSUME NEW t \in Turns, GateWithdraws(g, t) PROVE Producer!Next
    BY <1>2, WithdrawsWork
  <1>3. ASSUME NEW t \in Turns, GateGivesUp(g, t) PROVE Producer!Next
    BY <1>3, GivesUpWork
  <1>4. ASSUME GateCollects(g) PROVE Producer!Next
    <2>1. \A j \in Jobs : job'[j] = Kept[j]
      BY <1>4 DEF GateCollects
    <2>2. \A j \in Jobs : Passed(j) /\ SameRunHere(j)
      BY <2>1, KeptPasses DEF QueueInv
    <2>3. SameWork
      BY <1>4, <2>2, WorkRests DEF GateCollects
    <2>. QED
      BY <2>2, <2>3, PassStep
  <1>5. ASSUME NEW r \in Runs, GateStarts(g, r) PROVE Producer!Next
    BY <1>5, StartsWork
  <1>6. ASSUME GatePicks(g) \/ GateSkips(g) \/ GateTooLate(g) PROVE Producer!Next
    BY <1>6, RestUnseen DEF GatePicks, GateSkips, GateTooLate
  <1>. QED
    BY <1>1, <1>2, <1>3, <1>4, <1>5, <1>6 DEF GateStep

(* A handler ends, and at most its own job has another status after it.    *)
LEMMA EndsWork ==
    ASSUME QueueInv, DeployedInv, OneLive, TypeOK',
           NEW r \in Runs, proc[r].pc \in Working,
           \/ \E x \in {"none", "reply", "material"} : proc' = EndProc(r, x)
           \/ proc' = Died(r),
           \A j \in Jobs : job'[j].run = job[j].run,
           \A j \in Jobs \ {proc[r].job} : job'[j].status = job[j].status,
           job'[proc[r].job].status
               \in {job[proc[r].job].status, "queued", "done", "failed"}
    PROVE  Producer!Next
  <1>1. proc'[r].pc \in Over /\ \A s \in Runs \ {r} : proc'[s] = proc[s]
    <2>1. /\ proc \in [Runs -> ProcRecord]
          /\ proc[r] \in [pc: {"spawned", "checked", "launched", "fetching",
                               "failing", "ended", "exited"},
                          job: Jobs, at: Nat, up: BOOLEAN,
                          text: {"none", "reply", "material", "dead"}]
      BY BusyProc DEF QueueInv, TypeOK, Working, Printing
    <2>2. ASSUME NEW x \in {"none", "reply", "material"}, proc' = EndProc(r, x)
          PROVE  proc'[r].pc \in Over /\ \A s \in Runs \ {r} : proc'[s] = proc[s]
      BY <2>1, <2>2 DEF EndProc, Over
    <2>3. ASSUME proc' = Died(r)
          PROVE  proc'[r].pc \in Over /\ \A s \in Runs \ {r} : proc'[s] = proc[s]
      BY <2>1, <2>3 DEF Died, Over
    <2>. QED
      BY <2>2, <2>3
  <1>2. proc[r].job \in Jobs /\ Only(proc[r].job) /\ NoWork'
    BY <1>1, WorkEnds
  <1>3. PICK k \in Jobs : k = proc[r].job
    BY <1>2
  <1>4. Deed(k)
    BY <1>2, <1>3 DEF Deed
  <1>5. \A j \in Jobs \ {k} : Passed(j)
    BY <1>3 DEF Passed
  <1>. QED
    BY <1>4, <1>5, DeedStep

(* A handler that moves on in its run: the producer sees nothing.          *)
LEMMA MovesWork ==
    ASSUME QueueInv, TypeOK', NEW r \in Runs, job' = job,
           proc[r].pc \in AtWork, NEW p \in Working,
           proc' = [proc EXCEPT ![r].pc = p]
    PROVE  Producer!Next
  <1>1. /\ \A s \in Runs \ {r} : proc'[s] = proc[s]
        /\ proc'[r].pc = p /\ proc'[r].job = proc[r].job
    <2>1. /\ proc \in [Runs -> ProcRecord]
          /\ proc[r] \in [pc: {"spawned", "checked", "launched", "fetching",
                               "failing", "ended", "exited"},
                          job: Jobs, at: Nat, up: BOOLEAN,
                          text: {"none", "reply", "material", "dead"}]
      BY BusyProc DEF QueueInv, TypeOK, AtWork, Working, Printing
    <2>. QED
      BY <2>1
  <1>2. SameWork
    BY <1>1, WorkGoesOn DEF AtWork
  <1>. QED
    BY <1>2, Unseen

LEMMA ProcWork ==
    ASSUME QueueInv, DeployedInv, OneLive, TypeOK', NEW r \in Runs, ProcStep(r)
    PROVE  Producer!Next
  <1>. DEFINE k == proc[r].job
  <1>0. TypeOK /\ proc[r].pc # "free" /\ k \in Jobs
    <2>1. TypeOK /\ proc[r].pc # "free"
      BY DEF QueueInv, ProcStep, RunnerChecks, RunnerOpens, RunnerRecords,
             HandlerBegins, HandlerFinishes, HandlerPrints, HandlerReleases,
             HandlerRetries, HandlerFails, HandlerExits, OrphanEnds
    <2>. QED
      BY <2>1, BusyProc
  <1>1. proc[r].pc \in Working => job[k].status = "running"
    BY DEF DeployedInv, RunSound, Working, Printing, Over, Owns
  <1>. HIDE DEF k
  <1>2. ASSUME RunnerChecks(r) PROVE Producer!Next
    <2>1. CASE Mine(r)
      <3>1. proc' = [proc EXCEPT ![r].pc = "checked"] /\ job' = job
        BY <1>2, <2>1 DEF RunnerChecks
      <3>. QED
        BY <1>2, <3>1, MovesWork DEF RunnerChecks, AtWork, Working
    <2>2. CASE ~Mine(r)
      <3>1. /\ \A s \in Runs \ {r} : proc'[s] = proc[s]
            /\ proc'[r].pc = "free" /\ job' = job
        BY <1>0, <1>2, <2>2 DEF RunnerChecks, FreeProc, TypeOK
      <3>2. \A j \in Jobs : job[j].run # r \/ proc[r].job # j
        BY <2>2 DEF Mine
      <3>3. SameWork
        BY <3>1, <3>2, WorkGoesOn DEF AtWork, Working, Printing
      <3>. QED
        BY <3>1, <3>3, Unseen
    <2>. QED
      BY <2>1, <2>2
  <1>3. ASSUME RunnerRecords(r) PROVE Producer!Next
    <2>1. /\ \A s \in Runs \ {r} : proc'[s] = proc[s]
          /\ proc[r].pc = "exited" /\ proc'[r].pc = "free"
      BY <1>0, <1>3 DEF RunnerRecords, FreeProc, TypeOK
    <2>2. \A j \in Jobs : /\ job'[j].status = job[j].status
                          /\ job'[j].run = job[j].run
      <3>1. \/ job' = job
            \/ job' = [job EXCEPT ![k] = Recorded(k, Said(r))]
        BY <1>3 DEF RunnerRecords, k
      <3>. QED
        BY <1>0, <3>1 DEF Recorded, TypeOK
    <2>3. SameWork
      BY <2>1, <2>2, WorkGoesOn DEF AtWork, Working, Printing
    <2>. QED
      BY <2>2, <2>3, Unseen
  <1>4. ASSUME HandlerBegins(r) PROVE Producer!Next
    BY <1>1, <1>4, MovesWork DEF HandlerBegins, AtWork, Working, Printing, k
  <1>5. ASSUME HandlerPrints(r) PROVE Producer!Next
    BY <1>5, EndsWork DEF HandlerPrints, Working, Printing
  <1>6. ASSUME NEW v \in Ended, SetEnded(k, v), proc[r].pc \in Working,
               proc' = EndProc(r, Say(k))
        PROVE  Producer!Next
    <2>1. job' = [job EXCEPT ![k].status = v, ![k].aged = FALSE]
      BY <1>1, <1>6 DEF SetEnded
    <2>2. /\ \A j \in Jobs : job'[j].run = job[j].run
          /\ \A j \in Jobs \ {k} : job'[j].status = job[j].status
          /\ job'[k].status = v
      BY <1>0, <2>1 DEF TypeOK, JobRecord
    <2>3. Say(k) \in {"none", "reply", "material"}
      BY DEF Say
    <2>. QED
      BY <1>6, <2>2, <2>3, EndsWork DEF k, Ended
  <1>7. ASSUME HandlerFinishes(r) PROVE Producer!Next
    BY <1>6, <1>7 DEF HandlerFinishes, Working, Printing, Ended, k
  <1>8. ASSUME HandlerFails(r) PROVE Producer!Next
    BY <1>6, <1>8 DEF HandlerFails, Working, Printing, Ended, k
  <1>9. ASSUME proc[r].pc = "fetching", proc' = EndProc(r, "none"),
               \/ job' = [job EXCEPT ![k].status = "queued",
                                     ![k].attempts = Uncounted(@)]
               \/ job' = [job EXCEPT ![k].status = "queued"]
        PROVE  Producer!Next
    <2>1. /\ \A j \in Jobs : job'[j].run = job[j].run
          /\ \A j \in Jobs \ {k} : job'[j].status = job[j].status
          /\ job'[k].status = "queued"
      <3>. DEFINE q == [job[k] EXCEPT !.status = "queued"]
                  m == [q EXCEPT !.attempts = Uncounted(job[k].attempts)]
      <3>0. job \in [Jobs -> JobRecord] /\ job[k] \in JobRecord
        BY <1>0 DEF TypeOK
      <3>1. PICK n \in {q, m} : job' = [job EXCEPT ![k] = n]
        <4>1. CASE job' = [job EXCEPT ![k].status = "queued"]
          BY <1>0, <3>0, <4>1
        <4>2. CASE job' = [job EXCEPT ![k].status = "queued",
                                      ![k].attempts = Uncounted(@)]
          BY <1>0, <3>0, <4>2 DEF JobRecord
        <4>. QED
          BY <1>9, <4>1, <4>2
      <3>2. n.status = "queued" /\ n.run = job[k].run
        <4>1. q.status = "queued" /\ q.run = job[k].run
          BY <3>0 DEF JobRecord
        <4>2. m.status = q.status /\ m.run = q.run
          BY <3>0 DEF JobRecord
        <4>. QED
          BY <4>1, <4>2
      <3>. HIDE DEF q, m
      <3>. QED
        BY <1>0, <3>0, <3>1, <3>2
    <2>. QED
      BY <1>9, <2>1, EndsWork DEF k, Working, Printing
  <1>10. ASSUME HandlerReleases(r) PROVE Producer!Next
    BY <1>1, <1>9, <1>10 DEF HandlerReleases, Working, Printing, k
  <1>11. ASSUME HandlerRetries(r) PROVE Producer!Next
    <2>1. /\ proc[r].pc = "fetching"
          /\ \/ /\ proc' = [proc EXCEPT ![r].pc = "failing"]
                /\ job' = job
             \/ /\ proc' = EndProc(r, "none")
                /\ job' = [job EXCEPT ![k].status = "queued"]
      BY <1>1, <1>11 DEF HandlerRetries, Working, Printing, k
    <2>2. CASE proc' = [proc EXCEPT ![r].pc = "failing"] /\ job' = job
      BY <2>1, <2>2, MovesWork DEF AtWork, Working, Printing
    <2>3. CASE /\ proc' = EndProc(r, "none")
               /\ job' = [job EXCEPT ![k].status = "queued"]
      BY <1>9, <2>1, <2>3
    <2>. QED
      BY <2>1, <2>2, <2>3
  <1>12. ASSUME OrphanEnds(r) PROVE Producer!Next
    BY <1>12 DEF OrphanEnds, DeployedInv, RunSound, Busy
  <1>13. ASSUME RunnerOpens(r) PROVE Producer!Next
    BY <1>13, MovesWork DEF RunnerOpens, AtWork, Working, Printing
  <1>14. ASSUME HandlerExits(r) PROVE Producer!Next
    <2>1. /\ \A s \in Runs \ {r} : proc'[s] = proc[s]
          /\ proc[r].pc = "ended" /\ proc'[r].pc = "exited" /\ job' = job
      <3>1. /\ proc \in [Runs -> ProcRecord]
            /\ proc[r] \in [pc: {"spawned", "checked", "launched", "fetching",
                                 "failing", "ended", "exited"},
                            job: Jobs, at: Nat, up: BOOLEAN,
                            text: {"none", "reply", "material", "dead"}]
        BY <1>0, BusyProc DEF TypeOK
      <3>. QED
        BY <1>14, <3>1 DEF HandlerExits
    <2>2. SameWork
      BY <2>1, WorkGoesOn DEF AtWork, Working, Printing
    <2>. QED
      BY <2>1, <2>2, Unseen
  <1>. QED
    BY <1>2, <1>3, <1>4, <1>5, <1>7, <1>8, <1>10, <1>11, <1>12, <1>13, <1>14
    DEF ProcStep

(* A turn's report ends a job that no handler works on.                    *)
LEMMA TurnWork ==
    ASSUME QueueInv, DeployedInv, OneLive, TypeOK', NEW t \in Turns, TurnStep(t)
    PROVE  Producer!Next
  <1>0. TypeOK
    BY DEF QueueInv
  <1>1. ASSUME TurnReads(t) PROVE Producer!Next
    <2>1. \A j \in Jobs : /\ job'[j].status = job[j].status
                          /\ job'[j].run = job[j].run
      BY <1>0, <1>1 DEF TurnReads, TypeOK, JobRecord
    <2>2. SameWork
      BY <1>1, <2>1, WorkRests DEF TurnReads, SameRunHere
    <2>. QED
      BY <2>1, <2>2, Unseen
  <1>2. ASSUME TurnFinishes(t) PROVE Producer!Next
    <2>1. PICK k \in Jobs : k = turn[t].job
      BY <1>0, <1>2, BusyTurn DEF TurnFinishes
    <2>2. job[k].status = "running" /\ job[k].phase = "read"
      BY <1>2, <2>1 DEF TurnFinishes, DeployedInv, TurnSound, Holds
    <2>3. job' = [job EXCEPT ![k].status = "done", ![k].aged = FALSE]
      BY <1>2, <2>1, <2>2 DEF TurnFinishes, SetEnded
    <2>4. /\ job'[k].run = job[k].run /\ job'[k].status = "done"
          /\ \A j \in Jobs \ {k} : job'[j] = job[j]
      BY <1>0, <2>3 DEF TypeOK, JobRecord
    <2>5. NoWork
      <3>1. Attended(k) /\ ~WorkedOn(k)
        BY <2>2, WorkIsAttended DEF Attended, Stale
      <3>. QED
        BY <3>1, WorkIsAlone
    <2>6. /\ \A j \in Jobs \ {k} : Passed(j) /\ SameRunHere(j)
          /\ SameRunHere(k)
      BY <2>4 DEF Passed, SameRunHere
    <2>. QED
      BY <1>2, <2>2, <2>4, <2>5, <2>6, VerdictStep DEF TurnFinishes
  <1>3. ASSUME TurnFindsNothing(t) \/ TurnReports(t) \/ TurnReplies(t)
        PROVE  Producer!Next
    BY <1>3, RestUnseen DEF TurnFindsNothing, TurnReports, TurnReplies
  <1>. QED
    BY <1>1, <1>2, <1>3 DEF TurnStep

LEMMA ClientWork ==
    ASSUME QueueInv, DeployedInv, OneLive, TypeOK', Deployed, ClientStep
    PROVE  Producer!Next
  <1>0. TypeOK
    BY DEF QueueInv
  <1>1. ASSUME NEW k \in Jobs, Add(k) PROVE Producer!Next
    <2>1. /\ \A j \in Jobs \ {k} : job'[j] = Kept[j]
          /\ job'[k].status = "queued" /\ job'[k].run = NoRun
          /\ job[k].status \notin Live
      BY <1>0, <1>1, KeptLemma DEF Add, NewRecord, Live, Ended
    <2>2. /\ \A j \in Jobs \ {k} : Passed(j) /\ SameRunHere(j)
          /\ SameRunHere(k)
      BY <1>0, <2>1, KeptPasses DEF SameRunHere, Live
    <2>3. SameWork
      BY <1>1, <2>2, WorkRests DEF Add
    <2>4. Deed(k)
      BY <2>1, <2>3 DEF Deed
    <2>. QED
      BY <2>2, <2>4, DeedStep
  <1>2. ASSUME NEW k \in Jobs, Drop(k) PROVE Producer!Next
    <2>1. /\ job[k].status \notin {"absent", "running"}
          /\ job'[k] = Absent
          /\ \A j \in Jobs \ {k} : job'[j] = job[j]
      BY <1>0, <1>2 DEF Drop, Deployed, TypeOK
    <2>2. \A j \in Jobs : Passed(j) /\ SameRunHere(j)
      BY <2>1 DEF Passed, SameRunHere, Absent
    <2>3. SameWork
      BY <1>2, <2>2, WorkRests DEF Drop
    <2>. QED
      BY <2>2, <2>3, PassStep
  <1>3. ASSUME OnlyPrunes PROVE Producer!Next
    <2>1. \A j \in Jobs : Passed(j) /\ SameRunHere(j)
      BY <1>0, <1>3, KeptPasses DEF OnlyPrunes
    <2>2. SameWork
      BY <1>3, <2>1, WorkRests DEF OnlyPrunes
    <2>. QED
      BY <2>1, <2>2, PassStep
  <1>. QED
    BY <1>1, <1>2, <1>3 DEF ClientStep

(* A restart of the gateway takes the handler with it: its job is left as  *)
(* it was, and becomes stale.                                              *)
LEMMA RestartWork ==
    ASSUME QueueInv, DeployedInv, OneLive, TypeOK', GatewayRestarts
    PROVE  Producer!Next
  <1>1. NoWork' /\ job' = job
    BY DEF GatewayRestarts, NoWork, WorkedOn, FreeProc
  <1>2. CASE NoWork
    BY <1>1, <1>2, Unseen DEF SameWork, NoWork
  <1>3. CASE ~NoWork
    <2>1. PICK k \in Jobs : Only(k)
      BY <1>3, WorkIsAlone DEF NoWork
    <2>2. Deed(k) /\ \A j \in Jobs : Passed(j)
      BY <1>1, <2>1 DEF Deed, Passed
    <2>. QED
      BY <2>2, DeedStep
  <1>. QED
    BY <1>2, <1>3

LEMMA EnvironmentWork ==
    ASSUME QueueInv, DeployedInv, OneLive, TypeOK', Deployed, Environment
    PROVE  Producer!Next
  <1>0. TypeOK
    BY DEF QueueInv
  <1>1. ASSUME NEW k \in Jobs, LeaseLapses(k) \/ Ages(k) PROVE Producer!Next
    <2>1. \A j \in Jobs : /\ job'[j].status = job[j].status
                          /\ job'[j].run = job[j].run
      BY <1>0, <1>1 DEF LeaseLapses, Ages, TypeOK, JobRecord
    <2>2. SameWork
      BY <1>1, <2>1, WorkRests DEF LeaseLapses, Ages, SameRunHere
    <2>. QED
      BY <2>1, <2>2, Unseen
  <1>2. ASSUME EgressFlips PROVE Producer!Next
    BY <1>2, RestUnseen DEF EgressFlips
  <1>3. ASSUME NEW g \in Gates, GateKilled(g) PROVE Producer!Next
    BY <1>3, RestUnseen DEF GateKilled
  <1>4. ASSUME NEW g \in Gates, NEW r \in Runs, GateKilledStarting(g, r)
        PROVE  Producer!Next
    <2>1. /\ \A s \in Runs \ {r} : proc'[s] = proc[s]
          /\ proc[r].pc = "free" /\ \A j \in Jobs : job[j].run # r
          /\ job' = job
      BY <1>0, <1>4 DEF GateKilledStarting, Spawn, Fresh, TypeOK
    <2>2. SameWork
      BY <2>1, WorkGoesOn DEF AtWork, Working, Printing
    <2>. QED
      BY <2>1, <2>2, Unseen
  <1>5. ASSUME GatewayRestarts PROVE Producer!Next
    BY <1>5, RestartWork
  <1>6. ASSUME NEW r \in Runs PROVE ~RunnerKilled(r)
    BY DEF RunnerKilled, Deployed
  <1>7. ASSUME NEW r \in Runs, HandlerDies(r) PROVE Producer!Next
    BY <1>7, EndsWork DEF HandlerDies, Working, Printing
  <1>8. ASSUME NEW r \in Runs, HandlerLosesAnswer(r) PROVE Producer!Next
    <2>1. /\ \A s \in Runs \ {r} : proc'[s] = proc[s]
          /\ proc[r].pc \in Over /\ proc'[r].pc = "exited" /\ job' = job
      <3>1. /\ proc \in [Runs -> ProcRecord]
            /\ proc[r] \in [pc: {"spawned", "checked", "launched", "fetching",
                                 "failing", "ended", "exited"},
                            job: Jobs, at: Nat, up: BOOLEAN,
                            text: {"none", "reply", "material", "dead"}]
        BY <1>0, <1>8, BusyProc DEF TypeOK, HandlerLosesAnswer
      <3>. QED
        BY <1>8, <3>1 DEF HandlerLosesAnswer, Died, Over
    <2>2. SameWork
      BY <2>1, WorkGoesOn DEF AtWork, Working, Printing, Over
    <2>. QED
      BY <2>1, <2>2, Unseen
  <1>9. ASSUME NEW t \in Turns, TurnQuits(t) \/ TurnLosesAnswer(t)
        PROVE  Producer!Next
    BY <1>9, RestUnseen DEF TurnQuits, TurnLosesAnswer
  <1>. QED
    BY <1>1, <1>2, <1>3, <1>4, <1>5, <1>6, <1>7, <1>8, <1>9 DEF Environment

(* The deployed queue implements the promise to its producer: one job at a *)
(* time is worked on, and none ends or goes away under its handler.        *)
THEOREM WorklistImplemented ==
    ASSUME Deployed
    PROVE  Spec => ImplementsWorklist
  <1>1. Init => Producer!Init
    BY DEF Init, Producer!Init, Absent, WorkedOn, FreeProc
  <1>2. ASSUME QueueInv, QueueInv', DeployedInv, OneLive, [Next]_vars
        PROVE  [Producer!Next]_(Producer!vars)
    <2>1. TypeOK'
      BY <1>2 DEF QueueInv
    <2>2. CASE Next
      BY <1>2, <2>1, <2>2, GateWork, ProcWork, TurnWork, ClientWork,
         EnvironmentWork DEF Next
    <2>3. CASE UNCHANGED vars
      BY <2>1, <2>3, RestUnseen DEF vars
    <2>. QED
      BY <1>2, <2>2, <2>3
  <1>. QED
    BY <1>1, <1>2, QueueInvariant, DeployedInvariant, OneAtATime, PTL
    DEF ImplementsWorklist, Producer!Spec, Spec
=============================================================================
