---------------------------- MODULE ReplyPusher ----------------------------
(***************************************************************************)
(* The reply pusher (scripts/reply-pusher): a oneshot that systemd starts  *)
(* when a reply lands in a pinned firstmate home.  For each home in turn   *)
(* it writes the new replies to the owner's notes to an outbox, moves its  *)
(* cursor past them, and POSTs the outbox to the gateway, which makes one  *)
(* agent turn per idempotency key it does not remember.                    *)
(*                                                                         *)
(* Replies are numbered from the cursor the installer wrote (baseline).    *)
(***************************************************************************)
EXTENDS Integers

CONSTANTS
    HomeCount,      \* REPLY_PUSHER_HOMES, in this order
    MaxReplies,     \* bound of the model: replies per home
    Kit,            \* the replies of each home to a note sent through Kit
    MaxPasses,      \* MAX_PASSES
    MaxRestarts     \* bound of the model: gateway restarts

Homes == 1..HomeCount
Replies == 1..MaxReplies

ASSUME PusherAssumption ==
    /\ HomeCount \in Nat \ {0}
    /\ MaxReplies \in Nat
    /\ Kit \in [Homes -> SUBSET Replies]
    /\ MaxPasses \in Nat \ {0}
    /\ MaxRestarts \in Nat

VARIABLES
    landed,     \* how many replies each home holds; the n-th has cursor n
    cursor,     \* each home's cursor file
    outbox,     \* each home's outbox entries, by cursor
    run,        \* the oneshot
    due,        \* systemd owes the unit a start
    halted,     \* the last run ended with exit 78
    cache,      \* the idempotency keys the gateway remembers
    turns,      \* history: agent turns made for each reply
    restarts    \* history: gateway restarts

vars == <<landed, cursor, outbox, run, due, halted, cache, turns, restarts>>

Down == [pc |-> "down", home |-> 1, pass |-> 1, todo |-> {}, newest |-> 0,
         moved |-> FALSE, broken |-> FALSE, failed |-> FALSE]

(* moved: this pass queued or pushed something; broken: its enqueue        *)
(* failed; failed: some home failed.                                       *)
RunRecord ==
    [pc: {"down", "enqueue", "writing", "draining", "posted"}, home: Homes,
     pass: 1..MaxPasses, todo: SUBSET Replies, newest: 0..MaxReplies,
     moved: BOOLEAN, broken: BOOLEAN, failed: BOOLEAN]

Init ==
    /\ landed = [h \in Homes |-> 0]
    /\ cursor = [h \in Homes |-> 0]
    /\ outbox = [h \in Homes |-> {}]
    /\ run = Down
    /\ due = FALSE
    /\ halted = FALSE
    /\ cache = {}
    /\ turns = [h \in Homes |-> [c \in Replies |-> 0]]
    /\ restarts = 0

-----------------------------------------------------------------------------
(***************************************************************************)
(* The homes and systemd.                                                  *)
(***************************************************************************)

(* The path unit watches the homes, but not while the service it starts    *)
(* runs, and what lands then starts nothing afterwards.                    *)
Land(h) ==
    /\ landed[h] < MaxReplies
    /\ landed' = [landed EXCEPT ![h] = @ + 1]
    /\ due' = (due \/ run.pc = "down")
    /\ UNCHANGED <<cursor, outbox, run, halted, cache, turns, restarts>>

Start ==
    /\ due
    /\ run.pc = "down"
    /\ run' = [Down EXCEPT !.pc = "enqueue"]
    /\ due' = FALSE
    /\ halted' = FALSE
    /\ UNCHANGED <<landed, cursor, outbox, cache, turns, restarts>>

-----------------------------------------------------------------------------
(***************************************************************************)
(* run_home, pass by pass, and main's loop over the homes.                 *)
(***************************************************************************)

LeaveHomeForgetting(failed) ==
    IF run.home < HomeCount
    THEN /\ run' = [Down EXCEPT !.pc = "enqueue", !.home = run.home + 1]
         /\ UNCHANGED due
    ELSE /\ run' = Down
         /\ due' = (due \/ failed)

(* Exit 1 is retried by systemd; one home's failure does not stop others.  *)
LeaveHome(failed) ==
    IF run.home < HomeCount
    THEN /\ run' = [Down EXCEPT !.pc = "enqueue", !.home = run.home + 1,
                                !.failed = run.failed \/ failed]
         /\ UNCHANGED due
    ELSE /\ run' = Down
         /\ due' = (due \/ run.failed \/ failed)

NewRepliesButNewest(h) == {c \in Kit[h] : cursor[h] < c /\ c < landed[h]}

NewReplies(h) == {c \in Kit[h] : cursor[h] < c /\ c <= landed[h]}

ReadReceipts(h) ==
    /\ run.pc = "enqueue"
    /\ run.home = h
    /\ run' = [run EXCEPT !.pc = "writing", !.todo = NewReplies(h),
                          !.newest = landed[h],
                          !.moved = NewReplies(h) # {}]
    /\ UNCHANGED <<landed, cursor, outbox, due, cache, turns, restarts, halted>>

(* receipts fails, or holds a record it cannot use: what is already queued *)
(* is drained all the same.                                                *)
ReceiptsFail ==
    /\ run.pc \in {"enqueue", "writing"}
    /\ run' = [Down EXCEPT !.pc = "draining", !.home = run.home,
                           !.broken = TRUE, !.failed = run.failed]
    /\ UNCHANGED <<landed, cursor, outbox, due, cache, turns, restarts, halted>>

Newest(S) == {c \in S : \A d \in S : d <= c}

Oldest(S) == {c \in S : \A d \in S : c <= d}

WriteEntry(h) ==
    /\ run.pc = "writing"
    /\ run.home = h
    /\ \E c \in Oldest(run.todo) :
          /\ outbox' = [outbox EXCEPT ![h] = @ \cup {c}]
          /\ run' = [run EXCEPT !.todo = @ \ {c}]
    /\ UNCHANGED <<landed, cursor, due, cache, turns, restarts, halted>>

(* Outbox first, then the cursor.                                          *)
MoveCursor(h) ==
    /\ run.pc = "writing"
    /\ run.home = h
    /\ run.todo = {}
    /\ cursor' = [cursor EXCEPT ![h] = run.newest]
    /\ run' = [run EXCEPT !.pc = "draining", !.newest = 0]
    /\ UNCHANGED <<landed, outbox, due, cache, turns, restarts, halted>>

KeyPerAttempt(h, c) == <<h, c, turns[h][c]>>

Key(h, c) == <<h, c>>

(* The gateway takes the POST; whether the answer gets back is not known.  *)
Post(h) ==
    /\ run.pc = "draining"
    /\ run.home = h
    /\ \E c \in Oldest(outbox[h]) :
          IF Key(h, c) \in cache THEN UNCHANGED <<cache, turns>>
          ELSE /\ cache' = cache \cup {Key(h, c)}
               /\ turns' = [turns EXCEPT ![h][c] = @ + 1]
    /\ run' = [run EXCEPT !.pc = "posted"]
    /\ UNCHANGED <<landed, cursor, outbox, due, restarts, halted>>

Unlink(h) ==
    /\ run.pc = "posted"
    /\ run.home = h
    /\ \E c \in Oldest(outbox[h]) : outbox' = [outbox EXCEPT ![h] = @ \ {c}]
    /\ run' = [run EXCEPT !.pc = "draining", !.moved = TRUE]
    /\ UNCHANGED <<landed, cursor, due, cache, turns, restarts, halted>>

(* A reply that lands as a pass ends is caught by the next pass.           *)
EndPass(h) ==
    /\ run.pc = "draining"
    /\ run.home = h
    /\ outbox[h] = {}
    /\ \/ /\ run.broken \/ ~run.moved
          /\ LeaveHome(run.broken)
       \/ /\ ~run.broken /\ run.moved
          /\ run.pass = MaxPasses
          /\ LeaveHome(TRUE)
       \/ /\ ~run.broken /\ run.moved
          /\ run.pass < MaxPasses
          /\ run' = [run EXCEPT !.pc = "enqueue", !.pass = @ + 1,
                                !.moved = FALSE]
          /\ UNCHANGED due
    /\ UNCHANGED <<landed, cursor, outbox, cache, turns, restarts, halted>>

-----------------------------------------------------------------------------
(***************************************************************************)
(* Failures.                                                               *)
(***************************************************************************)

(* receipts hangs, a file cannot be written or removed, the gateway does   *)
(* not answer, or answers no: this home is left at once.                   *)
HomeFails ==
    /\ \/ run.pc \in {"enqueue", "writing", "posted"}
       \/ run.pc = "draining" /\ outbox[run.home] # {}
    /\ LeaveHome(TRUE)
    /\ UNCHANGED <<landed, cursor, outbox, cache, turns, restarts, halted>>

(* The two secrets, or the entry, cannot be read: exit 78.  The later      *)
(* homes are not looked at, and systemd does not retry.                    *)
NotConfigured ==
    /\ run.pc = "draining"
    /\ outbox[run.home] # {}
    /\ run' = Down
    /\ halted' = TRUE
    /\ UNCHANGED <<landed, cursor, outbox, due, cache, turns, restarts>>

(* The process dies, or the box goes down, if it runs or not; systemd      *)
(* starts the unit again.                                                  *)
Crash ==
    /\ run' = Down
    /\ due' = TRUE
    /\ UNCHANGED <<landed, cursor, outbox, cache, turns, restarts, halted>>

GatewayRestarts ==
    /\ restarts < MaxRestarts
    /\ restarts' = restarts + 1
    /\ cache' = {}
    /\ UNCHANGED <<landed, cursor, outbox, run, due, turns, halted>>

HomeStep(h) ==
    ReadReceipts(h) \/ WriteEntry(h) \/ MoveCursor(h) \/ Post(h) \/ Unlink(h)
    \/ EndPass(h)

Next ==
    \/ \E h \in Homes : Land(h) \/ HomeStep(h)
    \/ Start
    \/ ReceiptsFail
    \/ HomeFails
    \/ NotConfigured
    \/ Crash
    \/ GatewayRestarts

Spec == Init /\ [][Next]_vars

(* systemd starts a due unit, and a process goes on.                       *)
Fairness == WF_vars(Start) /\ \A h \in Homes : WF_vars(HomeStep(h))

FairSpec == Spec /\ Fairness
-----------------------------------------------------------------------------
TypeOK ==
    /\ landed \in [Homes -> 0..MaxReplies]
    /\ cursor \in [Homes -> 0..MaxReplies]
    /\ outbox \in [Homes -> SUBSET Replies]
    /\ \A h \in Homes : outbox[h] \subseteq Kit[h]
    /\ run \in RunRecord
    /\ due \in BOOLEAN
    /\ halted \in BOOLEAN
    /\ cache \subseteq Homes \X Replies
    /\ turns \in [Homes -> [Replies -> Nat]]
    /\ restarts \in 0..MaxRestarts

(* Once the cursor has moved past a reply to one of the owner's notes, its *)
(* outbox entry is on disk or the gateway has it: no crash, failed POST or *)
(* failed read of a home loses one.                                        *)
NothingLost ==
    \A h \in Homes : \A c \in Kit[h] :
        c <= cursor[h] => c \in outbox[h] \/ turns[h][c] > 0

(* Kit hears the replies of a home in the order they were written.         *)
ToldInOrder ==
    \A h \in Homes : \A c, d \in Kit[h] :
        d < c /\ turns[h][c] > 0 => turns[h][d] > 0

(* A reply is told twice only when the gateway forgot its key meanwhile.   *)
TwiceOnlyAfterRestart ==
    \A h \in Homes : \A c \in Replies : turns[h][c] <= 1 + restarts

Fault == HomeFails \/ ReceiptsFail \/ Crash

(* Home h is going to be read (again): by a start that is owed, by the run *)
(* that has not come to it, or does another pass over it, or by the retry  *)
(* of a run that has failed somewhere.                                     *)
WillBeRead(h) ==
    \/ due
    \/ /\ run.pc # "down"
       /\ \/ run.home < h
          \/ run.home = h /\ (run.pc = "enqueue" \/ run.moved)
          \/ run.failed \/ run.broken

(* Once the homes, the disk and the gateway answer, every reply that is    *)
(* there while its home is going to be read is told, unless the unit says  *)
(* that an operator step is missing: one that finds the unit idle, one     *)
(* that lands as a pass ends, one that a failed run left behind, and one   *)
(* that the last pass missed, with the next start.                         *)
EveryReplyTold ==
    <>[][~Fault]_vars =>
        \A h \in Homes : \A c \in Kit[h] :
            c <= landed[h] /\ WillBeRead(h) ~> turns[h][c] > 0 \/ halted
=============================================================================
