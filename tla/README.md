# lifekit-stack in TLA+

A verification project for [lifekit-stack](../src/README.md): the deploy and
operations code that runs a personal-AI stack on one box. Most of the
repository is provisioning and configuration. What is worth a model is the
small set of programs that keep state across crashes, run beside each other,
and owe somebody an answer. Every definition is translated from the source;
`PROJECT.json` maps each one to its lines.

| Read first | for |
| --- | --- |
| [`JobQueue`](#jobqueue), `Requests`, `Worklist` | the shared job queue, and what it promises its owners and its producer |
| [`Access`](#access) | who may reach what: Logto, the tailnet policy, the ledger, two tools at once |
| [`Intake`](#intake) with `Fetch` and `Rubric`, [`IntakeToVault`](#intaketovault) | from a link somebody sent to one page in the vault |
| [`OffboxBackup`](#offboxbackup) | sets, manifests, retention and the restore check |
| [`NotifyRelay`](#notifyrelay), `Envelope` | one message per decision; no envelope's longer than Telegram takes |
| [`ReplyPusher`](#replypusher), [`AlertInbox`](#alertinbox), [`DocDoor`](#docdoor) | deliveries that are retried and must not be lost or repeated |
| [All runs](#all-runs) | every TLC run with its bounds |
| [What is proved](#what-is-proved), [Not modelled](#not-modelled) | what holds for every instance, and what is out |


## The system

### Inventory

| Component | State | Operations | What makes it correct |
| --- | --- | --- | --- |
| **Job queue** `skills/job-queue/jobq.py`, `drain-gate.js` | `<id>.json` records, `<id>.out` answers, one `flock`; detached runner and handler processes | `add`, `next`, `output`, `finish`, `retry`, `release`, `list`, `drop`, pruning | one job at a time; no job loops, vanishes or blocks the queue; an answer belongs to its request, and reaches its owner once |
| **Video evaluation** `skills/video-eval/video.py` | `index.md`, transcripts, waiting files, reports | `enqueue`, `ingest`, `voice`, `file`, `run_job`, `file_report` | one row per source and version of the rubric, its report on disk; what was judged is known |
| **Reply pusher** `scripts/reply-pusher/` | a cursor and an outbox per home | `baseline`, `run` | no reply is lost; the owner hears them in order, and again only when the gateway forgot |
| **Notification relay** `compose/notify-relay/` | in memory: open decisions and their Telegram messages | `/notify`, `/devclaw`, `/text`, the decision routes | a decision's message is edited, not repeated, and cleared when it is answered; no envelope's message is too long |
| **Alert inbox** `scripts/alert-inbox/` | alert state file | a poll | each transition is told; an outage of the source is not a recovery |
| **Intake to vault** `scripts/intake-to-vault/` | none; the vault's pages, `index.md`, logs | an hourly run: write, lint, index, log | an accepted report becomes exactly one page and one log line, whatever step fails |
| **Document door** `skills/doc-door/door.py` | `state.json`; files on Drive, lines in the vault log | `scan`, `report` | each reported document gets its original filed and its line; the record is true to Drive |
| **People and tailnet, identity admin** `scripts/people/`, `scripts/identity/` | Logto users and roles, the tailnet policy (ETag), the ledger | invite, resend, revoke, sync, undo | nobody gets in beyond their roles; no edit of the owner's is lost; the ledger tells what was done |
| **Off-box backup** `scripts/offbox-backup/` | sets in object storage, manifest last | backup, prune, verify | a set with a manifest is complete; pruning leaves enough; "good" restores |
| **Vault door** `scripts/vault-door/` | none of its own | queries, one bridge that rewrites an inbox line | - |
| **Rotation, memory sync** `scripts/rotate/`, `scripts/sync/` | archives beside live files; the vault's branch | rotate, sync | nothing leaves the live file before it is archived |
| **Quota share, fleet publisher, gauges, reports** | none | folds and renderings of what they read | - |
| **Deploy, bootstrap, ensure scripts, compose files** | the host | - | out of scope: pure I/O and third-party configuration |

### How the parts interact

- The chat skills **add** jobs to the queue. A cron row runs the **drain gate**
  (`jobq.py next`) every two minutes; the gate starts a detached **runner**,
  which runs the producer's **handler** (`video.py run-job`), which calls back
  into the queue (`finish`, `retry`, `release`). What the handler prints goes
  to the job's `.out` file. The next gate offers that output to an **agent
  turn**, which takes it (`output`), answers the owner or judges the material
  and **files a report**, which finishes the job. Everything shares the queue
  directory, one lock, and nothing else: no process tells another that it
  died.
- Every command of **video.py** shares `index.md` and the reports with the
  queue's run, under a lock for the append and none for the look before it.
- The hourly **intake-to-vault** run turns accepted reports into pages through
  the vault's own scripts. **memory-sync** moves the branch that `log.sh`
  commits to, and the weekly model pass holds `.model-pass` against both.
- A firstmate home gets a reply; a systemd path unit starts the **reply
  pusher**, which POSTs identifiers to the gateway's hook; the gateway makes an
  agent turn of each idempotency key it does not remember.
- Producers POST decisions and notices to the **notification relay**, which
  sends, edits and clears Telegram messages, and awaits Telegram in between.
- The **people service**, command lines and the owner's admin consoles change
  one Logto tenant, one tailnet policy and one ledger, call by call.
- The alert inbox, the document door and the backups each run alone against a
  remote service that may be down or lose an answer.

### Where it is hard

- *Unlocked windows.* The gate probes the egress between two locked sections.
  The runner checks that the record still names it, opens and empties the output
  file after that, works for minutes, and checks again. A command of `video.py`
  looks the item up, writes a report, and appends its row later. A sync lists
  roles and writes groups later.
- *Identity.* A job is known by its id alone, and ids come back: a dropped and
  re-added job meets processes that still work for the old request. A Drive
  file is known by its name, a suspension's author by the order of ledger lines.
- *Crashes without witnesses.* Any process stops at any point, and the next
  one must infer from pids, leases, pages, names or listings what happened.
- *Two files or two systems, no transaction.* Record and `.out` file; outbox
  and cursor; note and state file; report, row and job; page, index and log;
  upload and `state.json`; manifest and archives; role and group; API call and
  ledger entry.

`PROJECT.json` lists each hazard at its line with the properties that catch it.


## All runs

All runs together, with the instance each checks. A passing run explores its
whole state space, and each of its properties is known to fail when the code it
is about is changed in one plausible way (`mutants` in `PROJECT.json`; their
definitions stand in the modules before the ones they replace).

| Run | Instance | Distinct question |
| --- | --- | --- |
| `jobq_storm`, `jobq_deployed`, `jobq_calm` | 2 jobs, 2 or 3 processes, 1 or 2 gates, 1 turn, 2 attempts, 1 offer, 2 adds | the queue under everything; as deployed; and live |
| `jobq_silent` | the same, gateway restarts only | the finding: a job ends unreported |
| `intake` | a reel by its link, a share link of it, and a scout's link of the same title; 2 commands, killed at any step; 2 versions of the rubric | is the index sound when commands overlap and die |
| `vault` | 2 reports that share a slug, one refused by the lint; 2 days, 2 troubles | does every accepted report get one page and one line |
| `docdoor` | 2 documents of one file name and one that does not convert; 3 messages; 2 folders; 1 shown and 1 filed per command; 3 troubles | is the record true to Drive, and every report filed |
| `pusher` | 2 homes, 2 replies each, 2 passes, 1 restart | is every reply told, in order, once per gateway life |
| `inbox` | 2 rules on 2 backends, one of them a warning, one with a hold of 2 | do inbox and state file agree, is every alert told |
| `relay` | 1 decision, 2 requests, 4 messages, 2 versions, 2 faults; some 1500 posted envelopes and the two old routes | one message per decision, true answers, lengths |
| `access` | 1 right, a service and a command line; 3 commands, 4 events, of which the fourth only between commands | call by call, who is let in, and what the ledger says |
| `offbox` | 2 stores, one optional; 2 daily and 1 weekly kept; 5 nights, 2 faults | what complete, done and good mean |


## JobQueue

### State and actions

| Variable | Code |
| --- | --- |
| `job[j]` | the record `<id>.json`. `phase` is what the record's `run` says: `started` (a pid), `unread` (`unread` is set), `read` and `lapsed` (read, within and after the lease), `empty` (the run left nothing to read). `at` is `queued_at`, `aged` is "ended more than two weeks ago" |
| `out[j]` | the file `<id>.out`: what it `says` (nothing, a reply for the owner, material for the judge), `for` which request that was printed, and the runs `by` whose handler prints into this very file; `NoFile` says nothing, and one who has a removed file open prints into nothing |
| `gate[g]` | a `jobq.py next` between its two locked sections: the runnable tickets it collected, and the leases (`late`) that ran out after it read the time |
| `proc[r]` | a runner and the handler it started: it has checked the record, has opened the file and launched the handler; the handler works, is about to print its `text`, has exited. `up` is the runner; a handler may outlive it |
| `turn[t]` | an agent turn: told of an output, holding material, filing a report, about to reply |
| `egress`, `clock` | the egress is up; the newest `queued_at` |
| `answers[j]` | history: final messages the owner got about the present request |

Each action is one locked section of `jobq.py`, or the code between two. The
pruning that opens almost every locked section (`_prune`) is part of the action
(`Kept`, `KeptOut`). `Stale` is `_stale`, `Runnable` is `_runnable` with its
"none while another is running", `Mine` is the runner's `_mine`. The first
section of `next_job` is `GateOffers`, `GateWithdraws`, `GateGivesUp`,
`GateCollects` in the order the code tries them; the probe is `GatePicks` and
`GateSkips`; the second section is `GateStarts` or `GateTooLate`. The runner's
claim check under the lock is `RunnerChecks`, the truncating open after it
`RunnerOpens`, its record under the lock `RunnerRecords`; what the handler prints
is in the file from `HandlerExits` on, whether the runner then lives to record it
or not. The handler's other steps are `video.py run_job`, the turn's are `output`
and `file_report`.

`Events` names what the environment may do in an instance: drop a running job,
kill a gate, a runner or the gateway container, crash a handler, lose an
answer that was printed or about to be sent, end a turn early or let it
outlive its lease, age a finished job, and take the egress down. The first
theorems hold for every set of events, the others for those they name.

`Requests.tla` is the owner's view: a request is pending, ends once, is told at
most once and only after it ended, and is forgotten. `ImplementsRequests` says
the queue implements it, by the mapping in `Owners`.

`Worklist.tla` is the producer's view: each job's status and the jobs a handler
works on, without gates, attempts, leases or turns. A job is handed to a handler
only while none is at work, and only that handler ends it, puts it back or leaves
it; a gate gives up and a turn reports only while none is; what runs is never
cancelled or forgotten. `ImplementsWorklist` says the queue implements it, by the
mapping in `Producer`: a job is worked on (`WorkedOn`) while the run its record
names has been started and its handler has not come to its end. `Intake` takes its
queue from the same module.

### Runs

| Run | Bounds | Shows |
| --- | --- | --- |
| `jobq_storm` | 2 jobs, 2 processes, 1 gate, 1 turn, 2 adds; running jobs dropped, runners killed alone, turns that outlive the lease, egress flips | whatever old processes do to a job that is no longer theirs, no job is started more often than its attempts allow (`AttemptsBounded`) |
| `jobq_deployed` | 3 processes, 2 gates, and every event but those that the deployment excludes | one job at a time (`OneLive`, `FetchesAlone`); an unread output is on disk (`UnreadHasOutput`), was printed by a run of this request (`AnswerOfThisRequest`), and no other private answer is left there (`OutputOnlyWhileUnread`); the owner's view (`ImplementsRequests`), the producer's (`ImplementsWorklist`) |
| `jobq_calm` | 1 gate; handlers die, turns quit, the egress flips, nothing dies with an answer in hand | every job ends, its owner is told (`EveryJobEnds`, `EveryJobAnswered`), and no job ends unreported (`NoSilentEnd`) |
| `jobq_silent` | gateway restarts only | the finding below |

Two jobs are the least that compete, and one of them needs the egress. Three
processes let an old runner, its successor and the other job's runner be
alive together (two, in the storm, an old runner and its successor); two adds let
a job be dropped and asked for again. Two attempts and one offer make both limits bite: a second crash gives up, a
second ignored offer withdraws. One turn suffices for the queue's own state,
which never looks at turns; two gates are needed for the overlap in the
unlocked probe.

*Not in the bounds.* Two gates with two turns and the full set of events
together, and liveness with restarts: a restart may recur for ever.

*Fairness.* Weak fairness of each gate (cron runs it every two minutes for as
long as the gateway is up), of each process that is not killed (the handler is
killed at `JOBQ_RUN_MINUTES`), of each turn (900 s limit) and of time
(`LeaseLapses`). Faults, adds and drops are not fair. The liveness properties
assume that the egress stays up from some point: the code itself waits for it
without counting.

### Finding

**`jobq_silent`**: a job can end unreported. `finish` marks the job ended in
the handler; the runner records the printed answer afterwards. A gateway
restart in between leaves an ended record with no unread output, which nothing
takes up again. `jobq.py` says that no job "ends unreported".

### Remarks

Seen while modelling, and neither defects nor runs of their own:

- Between the handler's `finish` and the runner's record no job is running, and
  a gate may start the next one, although `docs/runbook.md` has an output
  handed to a turn "before the next job starts".
- After `drop` of a running job its handler goes on beside the next job's. And
  one whose runner has checked its claim and not yet opened the file
  (`jobq.py:371-378`) can, when the job is added and run again meanwhile, empty
  the answer that the newer run has on record as unread. `UnreadHasOutput` and
  `AnswerOfThisRequest` are therefore claims about the deployed events.
- A runner that dies between the handler's print and its record, as in a gateway
  restart, leaves the private answer in the file, and no record offers it: until
  the job is run again, added anew, dropped or pruned. `OutputOnlyWhileUnread`
  excepts this, phase `started`.
- An egress that answers the probe and fails every fetch releases its job
  uncounted for ever; this is meant.
- Two overlapping gates can count one attempt past the limit.

### Proofs

For every set of jobs, processes, gates, turns and events, and any limits:

- `TypeCorrect`: `Spec => []TypeOK`.
- `OneAtATime`: `OneLive`.
- `AttemptsStayBounded`: `AttemptsBounded`, assuming at most one gate. With
  two overlapping gates the bound is off by one: both collect a stale job
  before either starts it, and the second section does not look at the count.

The invariants rest on `RunInv`: a process a record names in phase `started`
works for that job and that request (`job`, `at`), no two records name one
process, and a run that has recorded is no longer running. `AttemptsBounded` needs
`CollectedInv`: what a gate has collected has a try left until the gate
returns.

This argument has two halves. The *footprint* lemmas say what each step may do
to one job, one process and one gate (`JobMove`, `CountMove`, `ProcMove`,
`GateMove`), one lemma per group of actions; each invariant then follows from
the footprint alone, without opening an action again.

Under the deployed events (`Deployed`: a turn ends within its lease, no running
job is dropped, no runner dies without its handler), for any jobs, processes,
gates, turns and attempts, and with restarts, killed gates, lost answers and
egress flips still among the events:

- `FetchingIsExclusive`: `FetchesAlone`.
- `UnreadOnDisk`, `OwnAnswer`, `NothingLeftBehind`: `UnreadHasOutput`, the action
  property `AnswerOfThisRequest`, and `OutputOnlyWhileUnread`.
- `RequestsImplemented`: `ImplementsRequests`, so that the queue refines
  `Requests` action by action.
- `WorklistImplemented`: `ImplementsWorklist`, so that the queue refines
  `Worklist`, which is what `Intake` builds on.
- `NobodyIsLeftWaiting`: `NoSilentEnd`, when besides nothing dies with an answer
  in hand (`Calm`: no restart, no lost answer). `jobq_silent` shows that a restart
  alone breaks it.

The two assumptions are those of the runs `jobq_deployed` and `jobq_calm`: under
all events the properties are false, and `jobq_storm` has the steps that break
them. `DeployedInv` is the invariant: a busy process has its runner alive, and
one that has checked its claim and not come to its end is the one its record names
(`RunSound`), so that nobody else opens or empties its file; who has a job's file
open owns the job or has nothing more to say, and the file says nothing before its
run is done and then that run's words (`FileSound`); what is unread is in the file,
and an ended job is answered at most once (`JobSound`); a turn that holds a job
holds the request it was told of, and no two turns hold one (`TurnSound`, `TurnsApart`). For the refinement each step
is shown to tell one tale of each job (`Tale`): it steadies it, renews it, ends
it, or answers it once after its end. For the other refinement each job is passed over
or forgotten (`Passed`), but for one at most of which something becomes (`Deed`);
a job that is worked on is running under a live runner (`WorkIsAttended`), so by
`OneLive` no other is, and none is while a gate finds every running job stale or a
turn holds one that was read (`WorkIsAlone`). `NoSilentEnd` needs to know who has the
answer of a job that has ended: a process that has ended its job and has not
recorded is going to record a reply (`Answering`), and otherwise the answer is
told, on disk or in a turn's hand (`Promised`).

Only model-checked: liveness, which is out of the prover's reach.

### Abstractions

- What a handler prints reaches the file when it exits, and as a whole. The
  runner's read of the file and the locked section that records it are one step.
- A pid is reused only when no record and no process has it (the code compares
  pid and start time). Two processes that print into one file are not mixed: who
  exits last is read.
- A kill between the two file operations of one locked section is modelled only
  where a process has been started (`GateKilledStarting`); in `output` it ends
  like a turn that got `NO_REPLY` (see the hazards).
- A finished job ages only when no process or turn is left from it: two weeks.
- `claim` without a runner is called by tests only.


## ReplyPusher

### State and actions

`landed` is a home's replies, `cursor` and `outbox` its two files, `run` the
oneshot (which home, which pass, which entries it still writes), `due` a start
that systemd owes the unit, `halted` exit 78, `cache` and `turns` the gateway.
Replies are numbered from the cursor that the installer wrote before it
enabled the unit, so `Init` is a baselined home.

`ReadReceipts`, `WriteEntry`, `MoveCursor` are `enqueue`, file by file. `Post`
is the gateway taking the POST; `Unlink` is the answer coming back, and
`HomeFails` in between is an answer that does not. `ReceiptsFail` is a failed
or malformed read: what is queued is drained all the same. `EndPass` is the end
of a round of `run_home`; `LeaveHome` is `main`'s loop, which goes on to the
next home and ends with exit 1 if one failed. `Crash` may come at any step.

### Run `pusher`

Two homes with two replies each (one of them to somebody else's note), two
passes, one gateway restart: a failure in the first home with success in the
second, both ends of `MAX_PASSES`, a crash between any two file operations.
`NothingLost`: a reply the cursor has passed is in the outbox or was told.
`ToldInOrder`: no reply of a home overtakes an older one.
`TwiceOnlyAfterRestart`: one turn per reply and gateway life, however often a
POST is repeated. `EveryReplyTold`: once homes, disk and gateway answer, every
reply that is there while its home is going to be read (`WillBeRead`) is told, or
the unit said that an operator step is missing. A home is going to be read when a
start is owed, when the run has not come to it or does another pass over it, and
when the run has failed somewhere and is retried.

*Fairness.* systemd starts a due unit: it is retried on failure with no start
limit, at boot, and by the path unit. The path unit does not watch the homes
while the service it started runs, and what changed then starts nothing
afterwards: `Land` owes a start only while the unit is down. A process that is
not killed goes on.

### Remark

A reply that lands after the run's last look at its home, and before that run
ends well, is owed no start: it waits for the next one, which another reply while
the unit is idle, a failure or a boot brings. The last pass over
a home finds nothing new, so the window is small; for all homes but the last it
lasts while the others are served.

### Proofs

`TypeCorrect`, `NoReplyLost`, `RepliesInOrder` and `OneTurnPerGatewayLife` prove
the type invariant `TypeOK` and the three safety properties for any homes, replies,
passes and restarts. The inductive
invariant `IInv` adds: while entries are written, each reply up to the newest
one read is on the list, in the outbox or told (`WritingInv`; this is why the
cursor may then move); the entry about to be removed was told (`PostedInv`);
replies become safe oldest first (`SafeInOrder`; this is why the head of the
outbox is never newer than an untold reply); what the gateway remembers was
told (`CacheInv`), and what it forgot was told no more often than it restarted
(`Forgotten`). Liveness is left to TLC.

### Abstractions

The gateway's idempotency cache is external: a POST with a remembered key
makes no turn, a restart forgets all keys. `NotConfigured` may come at any
post, though one process reads the secrets once. A missing or malformed cursor
file (exit 78 before anything is written) and a malformed environment are left
out, and a note whose id the pusher cannot use counts as somebody else's.


## AlertInbox

### State and actions

A *condition* is whatever `advance_state` keeps an entry for: a series of a
rule, `__no_data__` of a rule, the outage of a backend. `saved` is the state
file; `on`, `reading`, `work` and `said` are the running poll: what each
condition still to be advanced reads, the states in memory, the conditions it
has noted. `inbox` is the last note about each condition, `rule` what the
provisioning files say of each rule. `cut` is history: the conditions that a
poll noted and did not save, or whose firing state was lost or retired.

`Evaluate` is `poll` up to the queries: load, retire, query. `Read` says what a
condition reads from it: true, false, or nothing, so that its state is kept.
`Advance` is `advance_state` with the note that follows, backends first and
then the rules in the order of the files; `Save` ends the poll. `NoteFails` is
`check=True` in `notify`, `Crash` any other early end, `StateLost` the
`except` of `load_state`, `Deploy` a change of the rules files.

### Run `inbox`

Two rules on two backends, one with a hold of two polls, one a warning; failed
notes, crashes, a lost state file, outages and deploys. `InboxAgrees`: between
polls the state file is alerting exactly where the last note is "firing", but
for `cut`. `SilentWhileFiring`: no repeated note, but after a cut-off poll.
`OutageIsNotResolve`: a poll that cannot reach a backend notes nothing about
its rules and keeps what is alerting. `EveryAlertTold`, `EveryEndTold`: a
condition that goes on reading true is told, and one that goes on reading
false is told to have ended, through outages between.

Two rules are the least that differ in backend, severity and hold, so that one
can be kept while the other is advanced. A hold of two polls has a pending entry
that must not restart.

*Fairness.* The timer starts the next poll, and a poll that nothing stops goes
on: queries have a timeout of 10 s; the note command has none, and is assumed
to return. The liveness properties assume that faults stop, not that an outage
does. They do not speak of conditions that stay in `cut`: this is what the
remark is about.

### Remark

A poll writes "resolved" about one condition, the note about another fails, and
nothing is saved. If the first is true again at the next poll it is still
alerting in the state file, and no note says so. The same cut makes a poll
repeat a "firing" note, or leaves one that is never taken back. The README of
the component says "exactly once per transition"; `cut` is how far the code is
from that.

### Proofs

`Typing`, `Agreement`, `Silence` and `Outage` prove `TypeOK` and the three
safety properties for any rules, series, backends, holds and faults.
`AgreeInv` strengthens `InboxAgrees` by the running poll: its states in memory
agree with the inbox of all it has noted and all outside `cut`, so that `Save`
is safe; the state file still agrees of what it has not noted, so that an early
end is. `OutageInv` says that the rules of a backend found down have nothing
left to advance and are alerting in memory where they were in the file; it
rests on outages being advanced by the same state machine. Liveness is left to
TLC.

### Abstractions

Time counts in polls: a pending entry ages by one per poll begun, up to the
longest hold. The thresholds and the parsing of rules and answers are the
choice of what a series reads. A deploy during a poll is one after it, since
the poll has read the files. Series of one rule are advanced in any order.
A note that fails was not written (a crash right after it is the other case).
Two rules files are one; a file that is not YAML ends the poll before anything
happened.


## NotifyRelay

### State and actions

| Variable | Code |
| --- | --- |
| `at`, `on`, `ver`, `known`, `got` | a request: the Bot API call it awaits, the decision, the text, the message it edits, deletes or has sent, Telegram's answer |
| `tracked` | `decisionMessages`, in memory |
| `chat` | the owner's chat: which message shows which text of which decision |
| `newest`, `told` | the text posted last; what the last 200 about the decision said |
| `crossed`, `loose`, `overlong` | history: decisions two requests were about at once; messages the relay was made to forget; an envelope's message over the limit was sent |

The relay is one event loop, so an action is what a handler does between two
awaits. `Post` and `Clear` are a route up to its first call. `Edits`, `Sends`
and `Deletes` are Telegram doing what it was asked, or refusing, or doing it
and losing the answer; `EditStands`, `EditRefused`, `SentStands`, `Cleared`
and `Fails` are the handler after the await: a refused edit forgets the message
and sends a new one, a transport error ends in a 502. `Restart` empties the
mapping, `OwnerDeletes` takes a message away.

`Envelope.tla` is `render.js` by length. A text is its number of code points
and what one of them renders to, since escaping makes up to five characters of
one and the renderer measures again after every cut. `Length` runs its two
loops (`GivesWay`); `FromText` and `FromDevclawRow` are the two routes that skip
`validateEnvelope`.

### Run `relay`

One decision, since the mapping is kept per id, and two requests at once: the
least that overlap. Four messages let both be replaced once. Two faults let a
refused edit meet a restart or a deletion. `OneMessage`: a decision whose
requests came one after another has no message but the one the relay knows and
those in `loose`. `AnswerIsTrue`: what a 200 said stays so until the next
request. `EveryMessageFits`: no envelope, of lengths at and around each limit
and of both widths, and no text or task row, renders longer than Telegram takes.

*Not claimed.* The decision route is not measured. `decision.js` limits a
decision in code points before escaping (26-33, 97-124), and `renderDecision`
(187-192) escapes and never cuts: an ask of 200 and six options of 120 ampersands
render to more than 4600 characters, over the limit as the model measures it, which
takes the escaped text for what counts. `Post` sends a decision whatever its
length.

### Proofs

`OneMessagePerDecision` and `AnswersAreTrue`, for any decisions, requests,
messages and faults. `IInv` says what a request holds at each await (`InHand`),
that a message is about the decision of whoever remembers it (`Owned`), and,
of a decision that is not in `crossed`, that its one request or the mapping
accounts for every message not in `loose` (`Sound`).

`NothingIsOverlong` (`EveryMessageFits`), for texts of any length: first, that
each loop is a function of what is left, because a pass takes at least one code
point (`APassShortens`, `TheLoopIsDefined`); then what it returns: the message
fits, or nothing of the text is left, and a message that fitted is left alone
(`TheLoopMakesItFit`). So the body is cut only when the detail is gone
(`CutToFit`), and what no loop cuts fits by itself: 3283 characters, the sum in
the comment on `FIELD_LIMITS` (`LimitsFit`), less on the two routes nobody
validates (`TextFits`, `RowFits`). The induction is over the code points left,
as the least counterexample: the library's induction theorems take an operator,
which the provers cannot instantiate, but `WFMin` takes a set (`LeastOfMany`).

### Remarks

Two requests about one decision that overlap at an await send a second message
or edit a stale one, and a refused edit sends another although the first may
still be there; `docs/decision-contract.md` has one message per decision.
`crossed` and `loose` say exactly when.


## OffboxBackup

### State and actions

`obj[n][s]` and `manifest[n]` are what a listing of the bucket shows of the set
of night `n`; the bucket is all the memory there is. `step`, `todo`, `drop`,
`kinds`, `last` are the backup; `check`, `picked`, `unchecked`, `verdict` the
restore check, a unit of its own that may run beside it. `host` and `env` are
which services are up and what is configured. `mislaid` is history: nights
whose run was told that its manifest was not written, though it was.

`Begin` to `Succeeds` follow `backup` and `prune` call by call: an upload that
fails leaves nothing or a whole object whose answer was lost (the pipe is
killed before rclone's input closes); a failed run purges its own set,
unchecked; retention lists a kind and purges what `Dropped` names, and a purge
may do a part. `Killed` may leave an object torn. `Verifies` is `verify`,
object by object, and the notice to the owner, which may fail. `Dawn` starts
the next night: timeouts end both units before it.

### Run `offbox`

Two stores, of which one may be absent, tell a set that misses an object from
one that never had it. Two daily sets and one weekly kept, every second night
weekly, five nights: both kinds overflow. Two faults: a failure and the failure
of its cleanup. Nothing happens after the last night, so the run allows
deadlock.

`CompleteIsWhole`: a set with a manifest has all it names, unless as many newer
ones as are kept are there, or the set is in `mislaid`. `RetentionKept`: a step
takes whole sets away only while as many as are kept remain. `DoneMeansDone`:
exit 0 means that tonight's set is whole and names every store deployed, and
that no incomplete set and no surplus one is left. `GoodMeansRestorable`:
"good" is told only of a fresh set that restores in full at that moment.

### Proofs

All four, for any stores, retention, nights and faults.

- `CompletenessIsTrue` (`CompleteIsWhole`) is not inductive: while retention
  purges a set its newer ones must not go. `Sound` therefore counts the newer
  sets that nothing is about to touch, and `Listed` says that whatever is in
  `drop` has enough of them behind it.
- `ADoneRunIsDone` (`DoneMeansDone`): what each step of a run has made sure of,
  up to the kinds retention is through with.
- `EnoughIsKept` (`RetentionKept`), an action property, from the same counts.
- `AGoodVerdictIsTrue` (`GoodMeansRestorable`), where two sets are kept of each
  kind of which two can be fresh at once (`KeepsEnough`; the code keeps 7 and 4):
  what has been checked of the picked set stays as it was, since it is the newest
  complete set of its kind, which neither retention nor a cleanup takes.

### Remarks

A lost manifest answer followed by a failed purge leaves a set that counts as
complete and is not, and takes a place in retention. A restore check that
overlaps the cleanup of such a run can call it good. Both are what `mislaid`
excuses.


## Access

### State and actions

One person, and everything that says what they may reach: `uid`, `live`,
`roles`, `rid` (Logto), `policy` (the groups, the owner's edits, an open
grant), `ledger`. `at`, `op`, `arg`, `todo`, `saw`, `held`, `pick`, `base`,
`retried`, `changed`, `erred` are a tool's command: the people service or a
command line. `note` is an API call whose ledger entry is still to be
appended. `by`, `amiss` and `alone` are history: who suspended the user, what
has happened that a property excuses, and which command nothing ran beside.

Each API call is an action and each ledger entry another (`Appends`, with the
line number counted before it): `Checks` to `RolesDone` are `invite` and the
Logto calls it makes through `logto-admin.py`, `ListsRoles` to `Closes` the
second half of `revoke`, `ListsUsers` and `Wants` are `sync`, `Picks` and
`Undoes` are `undo`. `Reads`, `WritesPolicy`, `Conflicts` are
`update_policy`: read with ETag, post If-Match, one retry on 412.
`SuspendedByRevoke` reads the ledger the way `suspended_by_revoke` does.
`Fails` is a call that fails or whose answer is lost, `Dies` the process, and
`Owner` the two admin consoles.

### Run `access`

One right, one service and one command line. An *event* is a command that
begins, a failed call, a lost answer, a death or an edit by hand. Any three
events, beside each other and interleaved call by call: every pair of commands
and a third or a trouble that meets them half-way. A fourth comes when nothing
runs, so that a revoke, an invite, an edit by hand and another invite can
follow each other: the shortest history in which the author of a suspension
can be mistaken. The run stops when the events are used up, so it allows
deadlock. Three commands with a trouble anywhere, four commands without one (7.1
million states) and two rights with two commands pass as well, and take longer.

`AccessAgrees`: at every step the groups let in nobody beyond the roles of an
active user, and once the commands are over everybody they should, until drift
is noted and again after an undisturbed sync. `PolicyKept`: no write loses the
owner's edit or puts anybody in a group beside an open grant. `LedgerTells`:
read in order, with undo, the ledger tells who holds what and who is suspended.
`SuspensionStands`: an invite lifts no suspension but revoke's.
`InvitedBack`: whom revoke suspended can be invited again. Both name what they
excuse: a suspension by hand or by an undo beside a running command, a lost
entry, two entries written at once. The undo was found by the proof: it takes
four commands, one more than the run has.

### Proofs

`NobodyBeyondTheirRoles` (the first half of `AccessAgrees`), `TheGroupsAgree` (all
of it) and `TheOwnersEditsAreKept` (`PolicyKept`), for any rights, tools, commands
and troubles. The inductive invariant says what each command in progress has made
sure of (`ToolSound`): an invite at the policy has granted its roles, a revoke
past it has nobody of its rights left in a group, what a sync wants is still
covered by the roles, and the text a tool read was fit to edit; and that
commands that would undo this for each other have been noted as drift when the
later of them began (`Apart`, `AloneIsAlone`). For the other half, that everybody
is let in whom the roles allow, `EInv` says of each right the user holds without
its group which command still owes it (`Owing`, `Covered`), and that an
undisturbed sync is going to write exactly what the roles call for
(`Fulfilling`).

`TheLedgerTells` (`LedgerTells`), `NoOthersSuspensionIsLifted` (`SuspensionStands`)
and `TheSuspendedAreInvitedBack` (`InvitedBack`) rest on what the ledger says
*together with the entries still owed*. `LInv`: its lines carry the numbers they
should unless two were written at once, an undo names a line that is there, an
entry owed is about the user and roles there are. `SInv`: if the ledger says that
revoke suspended the user, or is about to, it did, or the user is enabled again
and that entry is on its way (`SaysTrue`); the converse, unless the property's
excuses hold (`IsSaid`); and an invite that was let through still meets revoke's
suspension or none (`Vetted`). `TInv`: with the one entry owed, the ledger tells
who holds what at every step, not only when nothing is owed (`TellsAll`).

### Remarks

- Two processes that append at once write one ledger number twice; an answer
  that is lost leaves a change without an entry. `LedgerTells` excuses both.
- A resend's `people-request` entry, or any other, between a suspension and its
  closing entry makes revoke's suspension look like the owner's, and the person
  cannot be invited back; `people.py`'s comment on the order of the two is
  about one process.
- A suspension in the console of a user revoke had suspended before is lifted
  by the next invite. So is one that the owner's `undo` of an unsuspension makes
  while an invite runs that was let through before it.
- `sync` writes on a 412 retry what it computed from the roles before.
- An invite that enables a suspended user who kept a role leaves that role
  outside its group until the next sync.


## Intake

### State and actions

`job` is the queue's record of each link, as far as `video.py` sees it. When one
is queued, started, given up or forgotten is what `Worklist` allows (`Queue`),
which `JobQueue` is proved to implement as deployed; what a handler or a report
then says of a job is not held back by the queue, which looks at nothing but
whether the record is there (`Recorded`). A job that ended without a judgment is
`closed`, whether its answer said unavailable or the queue gave it up: what may
follow is the same. `saved` is the transcripts, `waiting` the dropped files,
`reports` the reports on disk, each of an item under a version of the rubric,
`rows` the index, `rubric` the deployed version of `rubric.md`. `run` is the queue's run of a
job, `work[w]` a command of `video.py` in progress. A link that is resolved to
another item (a share link of a reel) is `UrlOf`; `TitleOf` is the normalized
title that makes two sources one item.

`Fetch.tla` is `gather` with the `media.py` it shares with the transcript skill: the
redirects of a share link (`Resolve`), the passes over a video's captions
(`Captions`: which track is picked, which trouble ends them or is remembered),
download and speech, and which of it is material, an answer or an error.
`Fetched` is all an item can come to. `Rubric.tla` is `parse_report`: a report is a
record of what the rubric tells apart, and `Follows` says which are filed.

`Adds` is the front of `enqueue`, `ingest` and `voice`: look the item up, queue
it or repeat its verdict. `Gathers`, `Keeps`, `Hands` are a run of the queue up
to the material, `Repeats` and `EndsRepeat` a run that finds its item judged.
`Judges`, `WritesReport`, `WritesRow`, `FinishesJob` are `file_report`, file by
file; `FilesDirect` starts the same for what a producer has judged itself.
`NewRubric` deploys another version: a command goes on with the one it has read.
`Starts`, `GivesUp` and `Forgotten` are the queue's: a job is started beside
another that is running and that nobody works on any more, and a link that was
forgotten can be asked for again with its report and row still there.
`Found` is the unlocked look, `Appended` the locked append, which looks again
for the source under this version of the rubric. `Killed` ends a run or a command anywhere.

### Run `intake`

The same reel by its link and as a share link, and a scout's link of the same
title: by link, by what a link resolves to and by title, every way one item can be
two sources. The rubric is replaced once, between any two steps. Two commands and
the run overlap at every step, any of the three is killed, as often as it happens
(2.5 million states). A dropped file would add only whether it waits, which the
properties do not look at; the theorems have it. `IndexIsSound`: one row of a
source under a version of the rubric, each with its report on disk, and a
repeat stands behind the row it repeats and quotes the verdict given there, not
the "drop (duplicate)" of another repeat.
`JudgedIsIndexed`: what the queue calls judged has a row.

### Proofs

Both for any items, titles, reports, versions, commands and kills (`TheIndexIsSound`,
`JudgedJobsAreIndexed`). The index alone is not inductive: a command that
looked before another appended must still hold a row good to append
(`CommandsSound`), and a run that ends its job as a repeat must have a row
behind it (`RunSound`). That a repeat never quotes a repeat rests on `earlier`
returning the first match and on `RowsBacked`: a repeat has the title of the row it
repeats, so by title that row is found first. The instance of the run has two
sources of one title and a repeat of a repeat would take three: that case is the
theorem's alone.

`FailuresAreRetried`: for every source and every answer of the outside, a fetch is
an error, which the queue retries, exactly when the link, the egress or a program
whose failure is reported failed to answer. An ffmpeg that its time limit cuts
short, or that fails by itself, is not reported: the theorem says that this is
told as unavailable.

### Remarks

- A report file is rewritten by a second judgment under the same version of the
  rubric while the index keeps the first row, and with it the first verdict. Under
  a newer version, a job that was killed before its finish, or an item two commands
  judge at once, can get a second report and a second row of its source; `earlier`
  goes on answering with the first.
- `speech` reports a file no audio could be taken out of as a file without
  speech, an ffmpeg that ran out of time included: `unavailable`, not retried.
- A waiting file is removed before its transcript is saved; killed in between,
  the item is lost. Retention removes the file of a job still queued, and a
  file ingested while its link is queued waits until it is pruned.

### Abstractions

`FilesDirect` takes a producer's look at the index, and its report or repeat, as
one step under the rubric of that moment: what is found first stays first, and
nothing reads a report before its row. No new version is deployed between its
read of the rubric and that step.


## IntakeToVault

### State and actions

`reports` are the intake's reports, `pages` the vault's source pages with how
far each is written (`torn` above its url line, `cut` below it, `whole`),
`listed` the index, `logged` the lines that link a page, `loose` a line that
`log.sh` could not commit. `step`, `todo`, `routed`, `at` are the run; `pass`
the model pass's lock; `side` the log as memory-sync's side worktree took it.

`Begins` to `Ends` are `main` and `file_page`: `NameFor` chooses the first name
that no other source holds, `Creates` and `Writes` are `write_new`,
`LintsClean` and `LintRefuses` `bin/lint.sh`, `LeavesPage` an error that
removes nothing, `Indexes` and `Logs` the vault's scripts, each of which may
fail. `SyncBegins` and `SyncMoves` are the part of `memory-sync.sh` that moves
the branch `log.sh` commits to. `Killed` is the unit's time limit, at any step.

### Run `vault`

Two reports of one slug compete for a name, one of them is refused by the lint;
two days tell the names of one slug apart; two troubles let a run be cut short
and its successor fail. `PagesAreSound`: what a log or the index links is there
under its own key's name, and a report has one page. `LoggedOnce`: no page has
two log lines. `AcceptedReachesVault`: an accepted report gets its page, index
line and log line, unless the lint refuses it, other pages hold both its
names, or it is judged anew.

*Fairness.* Weak fairness of a run's steps (each script has a timeout) and of
the end of the model pass (its lock is ignored after an hour); strong fairness
of the start, since the timer comes every hour and the pass is weekly. Troubles
are bounded: the property is about what happens once they stop.

### Proofs

`ThePagesAreSound` and `OneLogLine`, for any keys, clashes, kills and days. A
page in hand must be one nothing links yet, since the lint may remove it
(`Fresh`); what is routed is there (`RoutedThere`); the log a side worktree
would bring back is borne out by the pages (`SideSound`); and a key takes its
second name only beside a first one that it will never take
(`FirstNameHeld`, without which one report could have two pages).

The module also extends `DocDoor` and holds the theorem about the document door
(below), which writes to the same vault.

### Remarks

A page cut below its url line is taken as filed by the next run; so is one left
by a lint past its timeout. A torn first name and a clashing slug can hold both
names, and the unit then fails each hour. memory-sync looks at the lock only
when it begins, and `git add -A` after its lint commits a page written in
between unlinted; a log line committed after its side worktree was made is
dropped when the branch moves, and logged again by the next run.


## DocDoor

### State and actions

`saved` is `state.json`, `mem` the running command's copy; `copies` the files on
Drive by document, folder and name, `lines` the vault log. A report proposes a
`folder`, a later one perhaps another; `filed` is the folder and name a document
was filed with. A command is
`ScanBegins` or `Reports`, then `LogsLine`/`LogFails` and `LogsSaved`
(`flush_logs`), then for a scan the search (`Searches`, `MailFails`), then
`FindsFile`, `Uploads`, `UploadFails` (`file_pending`, `file_original`), then
for a scan `Opens`, `Converts`, `PassesOver`, `Closes`. Each saves where the
code saves. `Killed` is anywhere, inside an upload or `log.sh` too. `UpTo` is
"the first n by document id", which may be any n as far as the state tells.

### Run `docdoor`

Two documents of one file name meet on Drive; a repeated document and one that
does not convert exercise the shown and skipped records; two folders let a report
move a document before and after it is filed; one shown and one
filed per command make both limits bite. Three troubles let an unclear upload,
its unclear retry and a kill follow each other. `DriveIsTrue`: a document on
record as filed is on Drive, in the folder and under the name it was filed with,
and no folder has more than two copies of it, one per name. `EveryReportFiled`: what is reported
gets its original filed and its log line.

*Proof.* `TheRecordOfDriveIsTrue` (in `IntakeToVault_proofs`), `DriveIsTrue` for
any documents, names, limits and troubles: what the file *and* the command's
copy call filed is on Drive (`BorneOut`), since a command that is killed leaves
either behind; what is reported has a folder to be filed in (`Placed`); and a copy
is only ever made in a folder under a name of which there is none there
(`OneMoreCopy`): the own name while nobody of that name is there, then the hash
name until it is there.

*Fairness.* Weak fairness of a command's steps (each call has a timeout), strong
fairness of `ScanBegins`: the cron row comes again and again, whatever the agent
reports between.

### Remarks

An upload whose answer is lost is made again under the document's hash name
(the code says "Upload the original once"), and when the document is reported
under another folder meanwhile, in that folder too: the first copy stays where it
is. A filed document that is reported under another folder is not moved: the
record's `folder` then names one the file is not in, and the report's new
"Drive: pending" line stays. A log line is repeated when
`log.sh` appended and then failed. What was not opened of a message whose
siblings were shown is never read. `FILE_PER_PASS` takes the first five by id:
five originals that fail for good would starve the rest, which the model's
bounded troubles exclude. Parallel `report` commands, which the skill does not
make, overwrite each other's `state.json`; the model runs one command at a
time.


## What is proved

Each module has a type invariant. The listed theorems hold for every value of
the constants under the named assumption of the module. Three need more, and
say so: `AttemptsStayBounded` one gate, `AGoodVerdictIsTrue` a retention of two,
and the second part of `JobQueue_proofs` the events of the deployed system.

| Module | Theorems |
| --- | --- |
| `JobQueue_proofs` | `TypeCorrect`, `UnreadOnDisk`, `OneAtATime`, `OwnAnswer`, `AttemptsStayBounded`; as deployed `FetchingIsExclusive`, `NothingLeftBehind`, `RequestsImplemented`, `WorklistImplemented`, `NobodyIsLeftWaiting` |
| `ReplyPusher_proofs` | `TypeCorrect`, `NoReplyLost`, `RepliesInOrder`, `OneTurnPerGatewayLife` |
| `AlertInbox_proofs` | `Typing`, `Agreement`, `Silence`, `Outage` |
| `NotifyRelay_proofs` | `Typing`, `OneMessagePerDecision`, `AnswersAreTrue`, `NothingIsOverlong` |
| `OffboxBackup_proofs` | `Typing`, `CompletenessIsTrue`, `ADoneRunIsDone`, `EnoughIsKept`, `AGoodVerdictIsTrue` |
| `Access_proofs` | `Typing`, `NobodyBeyondTheirRoles`, `TheOwnersEditsAreKept`, `TheGroupsAgree`, `NoOthersSuspensionIsLifted`, `TheSuspendedAreInvitedBack`, `TheLedgerTells` |
| `Intake_proofs` | `Typing`, `TheIndexIsSound`, `JudgedJobsAreIndexed`, `FailuresAreRetried` |
| `IntakeToVault_proofs` | `Typing`, `ThePagesAreSound`, `OneLogLine`; of the document door `TheRecordOfDriveIsTrue` |

*Only model-checked.* All liveness and what needs fairness: `EveryJobEnds`,
`EveryJobAnswered`, `EveryReplyTold`, `EveryAlertTold`, `EveryEndTold`,
`AcceptedReachesVault`, `EveryReportFiled`; this is out of the prover's reach.
Every safety invariant, action property and refinement that a passing run checks
is a theorem. Induction over data is within reach where it can be put as a least
counterexample (`LeastOfMany`), as for the renderer's loops.


## Plan

Done: the job queue and its two abstract specifications; the reply pusher; the
alert inbox; the notification relay with its renderer; people, tailnet and ledger;
intake on top of the queue's worklist, vault run and their overlap with
memory-sync; the off-box backup; the document door. What is left: the git half of
memory-sync (lint snapshot, commit, rebase).

No `RECURSIVE` operator is used; the renderer's loops are recursive functions.


## Not modelled

- *Vault door.* Sequential reads, and one bridge that re-reads `inbox.md`,
  replaces a line and writes. A line appended between the two is lost, and a
  kill after the truncation empties the file (the runbook says so); what a
  repeated request does is decided by a program outside the repository.
- *Quota share, fleet publisher, gauges and reports.* Each is a fold or a
  rendering of what it reads, with no state that a later run relies on.
- *State rotation.* A sequential move of files, one run at a time.
- *Deploy, bootstrap and ensure scripts, compose and monitoring files.* Host
  provisioning through docker, systemd and ssh, and third-party configuration.
- *Parts of modelled components.* `claim` without a runner; the wording and the length of
  a report in `video.py`; invite links and mail, the suspension of the
  tailnet account and the drift report of `people.py`; the direct subcommands
  of `logto-admin.py`; `--dry-run` everywhere. `PROJECT.json` names them per
  component.
