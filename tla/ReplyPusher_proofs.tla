------------------------- MODULE ReplyPusher_proofs -------------------------
(***************************************************************************)
(* What the reply pusher promises, for any homes, replies, passes and      *)
(* gateway restarts.  The inductive invariant says what the files and the  *)
(* gateway hold while a home is being written or its head was just posted. *)
(***************************************************************************)
EXTENDS ReplyPusher, TLAPS

Safe(h, c) == c \in outbox[h] \/ turns[h][c] > 0

(* While entries are written, all up to the newest are safe or to do.      *)
WritingInv ==
    run.pc = "writing" =>
        /\ run.todo \subseteq Kit[run.home]
        /\ \A c \in run.todo : c <= run.newest
        /\ \A c \in Kit[run.home] :
              c <= run.newest => c \in run.todo \/ Safe(run.home, c)

(* What the gateway remembers, it made a turn of.                          *)
CacheInv == \A h \in Homes : \A c \in Replies : Key(h, c) \in cache => turns[h][c] > 0

(* The entry about to be removed was told.                                 *)
PostedInv ==
    run.pc = "posted" =>
        \A c \in Oldest(outbox[run.home]) : turns[run.home][c] > 0

(* Replies become safe oldest first.                                       *)
SafeInOrder ==
    \A h \in Homes : \A c, d \in Kit[h] : d < c /\ Safe(h, c) => Safe(h, d)

(* One turn per reply and gateway life.                                    *)
Forgotten ==
    \A h \in Homes : \A c \in Replies : Key(h, c) \notin cache => turns[h][c] <= restarts

IInv ==
    /\ TypeOK
    /\ WritingInv
    /\ CacheInv
    /\ PostedInv
    /\ SafeInOrder
    /\ Forgotten
    /\ NothingLost
    /\ ToldInOrder
    /\ TwiceOnlyAfterRestart
-----------------------------------------------------------------------------
(* Every file and process record stays one that the code can write.        *)
LEMMA DownOK == Down \in RunRecord
  BY PusherAssumption DEF Down, RunRecord, Homes, Replies

(* A run record keeps its shape when a field is set to a value it may have. *)
LEMMA SetField ==
  ASSUME NEW r \in RunRecord
  PROVE  /\ \A x \in {"down", "enqueue", "writing", "draining", "posted"} :
               [r EXCEPT !.pc = x] \in RunRecord
         /\ \A x \in Homes : [r EXCEPT !.home = x] \in RunRecord
         /\ \A x \in 1..MaxPasses : [r EXCEPT !.pass = x] \in RunRecord
         /\ \A x \in SUBSET Replies : [r EXCEPT !.todo = x] \in RunRecord
         /\ \A x \in 0..MaxReplies : [r EXCEPT !.newest = x] \in RunRecord
         /\ \A x \in BOOLEAN : [r EXCEPT !.moved = x] \in RunRecord
         /\ \A x \in BOOLEAN : [r EXCEPT !.failed = x] \in RunRecord
  BY DEF RunRecord

LEMMA InitOK == Init => IInv
  <1> SUFFICES ASSUME Init PROVE IInv
    OBVIOUS
  <1> USE PusherAssumption DEF Init
  <1>1. TypeOK
    <2>1. turns \in [Homes -> [Replies -> Nat]]
      OBVIOUS
    <2>2. outbox \in [Homes -> SUBSET Replies] /\ \A h \in Homes : outbox[h] \subseteq Kit[h]
      OBVIOUS
    <2> QED
      BY <2>2, <2>1, DownOK, 0 \in 0..MaxReplies, 0 \in 0..MaxRestarts DEF TypeOK
  <1>2. WritingInv /\ PostedInv
    BY DEF WritingInv, PostedInv, Down
  <1>3. CacheInv /\ SafeInOrder /\ Forgotten /\ ToldInOrder /\ TwiceOnlyAfterRestart
    BY DEF CacheInv, SafeInOrder, Safe, Forgotten, ToldInOrder,
           TwiceOnlyAfterRestart, Homes, Replies
  <1>4. NothingLost
    BY DEF NothingLost, Homes, Replies
  <1> QED
    BY <1>1, <1>2, <1>3, <1>4 DEF IInv

(* run stays a run record under each step that changes it.                 *)
LEMMA LeaveHomeOK ==
  ASSUME TypeOK, NEW f \in BOOLEAN, LeaveHome(f)
  PROVE  /\ run' \in RunRecord
         /\ run'.pc \in {"enqueue", "down"}
         /\ due' \in BOOLEAN
  <1> USE PusherAssumption DEF TypeOK, LeaveHome
  <1>1. CASE run.home < HomeCount
    <2>1. run.home + 1 \in Homes
      BY <1>1 DEF RunRecord, Homes
    <2>2. (run.failed \/ f) \in BOOLEAN
      BY DEF RunRecord
    <2> QED
      <3> DEFINE a == [Down EXCEPT !.pc = "enqueue"]
                 b == [a EXCEPT !.home = run.home + 1]
      <3>1. a \in RunRecord /\ a.pc = "enqueue"
        BY DownOK, SetField DEF Down
      <3>2. b \in RunRecord /\ b.pc = "enqueue"
        <4> HIDE DEF a
        <4> QED
          BY <3>1, <2>1 DEF RunRecord
      <3>3. run' = [b EXCEPT !.failed = run.failed \/ f] /\ UNCHANGED due
        BY <1>1
      <3> HIDE DEF b
      <3> QED
        BY <3>2, <3>3, <2>2 DEF RunRecord
  <1>2. CASE ~(run.home < HomeCount)
    BY <1>2, DownOK DEF Down, RunRecord
  <1> QED
    BY <1>1, <1>2

LEMMA TypeStep == TypeOK /\ WritingInv /\ [Next]_vars => TypeOK'
  <1> SUFFICES ASSUME TypeOK, WritingInv, [Next]_vars PROVE TypeOK'
    OBVIOUS
  <1> USE PusherAssumption DEF TypeOK
  <1>1. ASSUME NEW h \in Homes, Land(h) PROVE TypeOK'
    BY <1>1 DEF Land
  <1>2. CASE Start
    <2>1. run' \in RunRecord
      BY <1>2, DownOK DEF Start, Down, RunRecord
    <2> QED
      BY <1>2, <2>1 DEF Start
  <1>3. ASSUME NEW h \in Homes, ReadReceipts(h) PROVE TypeOK'
    <2>1. NewReplies(h) \in SUBSET Replies
      BY DEF NewReplies
    <2>2. run' \in RunRecord
      BY <1>3, <2>1 DEF ReadReceipts, RunRecord
    <2> QED
      BY <1>3, <2>2 DEF ReadReceipts
  <1>4. CASE ReceiptsFail
    <2>1. run' \in RunRecord
      BY <1>4, DownOK DEF ReceiptsFail, Down, RunRecord
    <2> QED
      BY <1>4, <2>1 DEF ReceiptsFail
  <1>6. ASSUME NEW h \in Homes, MoveCursor(h) PROVE TypeOK'
    <2>1. run' \in RunRecord
      <3>1. [run EXCEPT !.pc = "draining"] \in RunRecord
        BY SetField
      <3>2. 0 \in 0..MaxReplies
        OBVIOUS
      <3> QED
        BY <1>6, <3>1, <3>2, SetField DEF MoveCursor
    <2>2. run.newest \in 0..MaxReplies
      BY DEF RunRecord
    <2> QED
      BY <1>6, <2>1, <2>2 DEF MoveCursor
  <1>7. ASSUME NEW h \in Homes, Post(h) PROVE TypeOK'
    <2>1. run' \in RunRecord
      BY <1>7 DEF Post, RunRecord
    <2>2. PICK c \in Oldest(outbox[h]) :
             IF Key(h, c) \in cache THEN UNCHANGED <<cache, turns>>
             ELSE /\ cache' = cache \cup {Key(h, c)}
                  /\ turns' = [turns EXCEPT ![h][c] = @ + 1]
      BY <1>7 DEF Post
    <2>3. c \in Replies
      BY <2>2 DEF Oldest
    <2> QED
      <3>1. CASE UNCHANGED <<cache, turns>>
        BY <1>7, <2>1, <3>1 DEF Post
      <3>2. CASE /\ cache' = cache \cup {Key(h, c)}
                 /\ turns' = [turns EXCEPT ![h][c] = @ + 1]
        <4>1. turns' \in [Homes -> [Replies -> Nat]]
          BY <2>3, <3>2
        <4>2. cache' \subseteq Homes \X Replies
          BY <2>3, <3>2 DEF Key
        <4> QED
          BY <1>7, <2>1, <4>1, <4>2 DEF Post
      <3> QED
        BY <2>2, <3>1, <3>2
  <1>8. ASSUME NEW h \in Homes, Unlink(h) PROVE TypeOK'
    <2>1. run' \in RunRecord
      BY <1>8 DEF Unlink, RunRecord
    <2> QED
      BY <1>8, <2>1 DEF Unlink
  <1>9. ASSUME NEW h \in Homes, EndPass(h) PROVE TypeOK'
    <2>1. run.broken \in BOOLEAN
      BY DEF RunRecord
    <2>2. run' \in RunRecord /\ due' \in BOOLEAN
      <3>1. CASE run.pass < MaxPasses /\ UNCHANGED due /\
                 run' = [run EXCEPT !.pc = "enqueue", !.pass = @ + 1, !.moved = FALSE]
        <4>1. run.pass + 1 \in 1..MaxPasses
          BY <3>1 DEF RunRecord
        <4>3. [run EXCEPT !.pc = "enqueue", !.pass = @ + 1] \in RunRecord
          <5> DEFINE a == [run EXCEPT !.pc = "enqueue"]
          <5>1. a \in RunRecord
            BY SetField
          <5>3. a.pass = run.pass
            BY DEF RunRecord
          <5>2. [a EXCEPT !.pass = a.pass + 1] \in RunRecord
            <6> HIDE DEF a
            <6> QED
              BY <4>1, <5>1, <5>3, SetField
          <5> QED
            BY <5>2
        <4> QED
          BY <3>1, <4>3, SetField
      <3>2. CASE LeaveHome(run.broken) \/ LeaveHome(TRUE)
        BY <3>2, <2>1, LeaveHomeOK
      <3> QED
        BY <1>9, <3>1, <3>2 DEF EndPass
    <2> QED
      BY <1>9, <2>2 DEF EndPass
  <1>10. CASE HomeFails
    <2>1. run' \in RunRecord /\ due' \in BOOLEAN
      BY <1>10, LeaveHomeOK DEF HomeFails
    <2> QED
      BY <1>10, <2>1 DEF HomeFails
  <1>11. CASE NotConfigured \/ Crash
    BY <1>11, DownOK DEF NotConfigured, Crash
  <1>12. CASE GatewayRestarts
    BY <1>12 DEF GatewayRestarts
  <1>13. CASE UNCHANGED vars
    BY <1>13 DEF vars
  <1>14. ASSUME NEW h \in Homes, WriteEntry(h) PROVE TypeOK'
    <2>1. PICK c \in Oldest(run.todo) :
             /\ outbox' = [outbox EXCEPT ![h] = @ \cup {c}]
             /\ run' = [run EXCEPT !.todo = @ \ {c}]
      BY <1>14 DEF WriteEntry
    <2>2. c \in Replies /\ run' \in RunRecord
      BY <2>1 DEF Oldest, RunRecord
    <2>3. c \in Kit[h]
      BY <1>14, <2>1 DEF WriteEntry, WritingInv, Oldest
    <2> QED
      BY <1>14, <2>1, <2>2, <2>3 DEF WriteEntry
  <1> QED
    BY <1>1, <1>2, <1>3, <1>4, <1>6, <1>7, <1>8, <1>9, <1>10, <1>11, <1>12,
       <1>13, <1>14 DEF Next, HomeStep
-----------------------------------------------------------------------------
(***************************************************************************)
(* What a step may do to the files and the gateway: every other proof      *)
(* needs no more of an action than this.                                   *)
(***************************************************************************)

Footprint ==
    \/ /\ UNCHANGED <<cursor, outbox, cache, turns, restarts>>
       /\ \/ run' = run
          \/ run'.pc \notin {"writing", "posted"}
    \/ \E h \in Homes : ReadReceipts(h)
    \/ \E h \in Homes : WriteEntry(h)
    \/ \E h \in Homes : MoveCursor(h)
    \/ \E h \in Homes : Post(h)
    \/ \E h \in Homes : Unlink(h)
    \/ GatewayRestarts

LEMMA StepFootprint ==
  ASSUME TypeOK, [Next]_vars
  PROVE  Footprint
  <1> USE PusherAssumption
  <1>1. ASSUME NEW h \in Homes, Land(h) PROVE Footprint
    BY <1>1 DEF Land, Footprint
  <1>2. CASE Start
    BY <1>2 DEF Start, Footprint, Down
  <1>3. CASE ReceiptsFail
    <2>1. run'.pc = "draining"
      <3> DEFINE a == [Down EXCEPT !.pc = "draining"]
      <3>1. a \in RunRecord /\ a.pc = "draining"
        BY DownOK, SetField DEF Down
      <3>2. run' = [a EXCEPT !.home = run.home, !.broken = TRUE, !.failed = run.failed]
        BY <1>3 DEF ReceiptsFail
      <3> HIDE DEF a
      <3> QED
        BY <3>1, <3>2 DEF RunRecord
    <2> QED
      BY <1>3, <2>1 DEF ReceiptsFail, Footprint
  <1>4. ASSUME NEW h \in Homes, EndPass(h) PROVE Footprint
    <2>1. run.broken \in BOOLEAN
      BY DEF TypeOK, RunRecord
    <2>2. CASE LeaveHome(run.broken) \/ LeaveHome(TRUE)
      <3>1. run'.pc \in {"enqueue", "down"}
        BY <2>1, <2>2, LeaveHomeOK
      <3> QED
        BY <1>4, <3>1 DEF EndPass, Footprint
    <2>3. CASE run' = [run EXCEPT !.pc = "enqueue", !.pass = @ + 1, !.moved = FALSE]
      <3>1. run'.pc = "enqueue"
        BY <2>3 DEF TypeOK, RunRecord
      <3> QED
        BY <1>4, <3>1 DEF EndPass, Footprint
    <2> QED
      BY <1>4, <2>2, <2>3 DEF EndPass
  <1>5. CASE HomeFails
    <2>1. run'.pc \in {"enqueue", "down"}
      BY <1>5, LeaveHomeOK DEF HomeFails
    <2> QED
      BY <1>5, <2>1 DEF HomeFails, Footprint
  <1>6. CASE NotConfigured \/ Crash
    BY <1>6 DEF NotConfigured, Crash, Footprint, Down
  <1>7. CASE UNCHANGED vars
    BY <1>7 DEF vars, Footprint
  <1> QED
    BY <1>1, <1>2, <1>3, <1>4, <1>5, <1>6, <1>7 DEF Next, HomeStep, Footprint

-----------------------------------------------------------------------------
(* Writing: one more entry is on disk than before, and what was safe is.   *)
LEMMA WriteEntryFacts ==
  ASSUME TypeOK, NEW h \in Homes, WriteEntry(h)
  PROVE  /\ run.pc = "writing" /\ run.home = h
         /\ UNCHANGED <<cursor, cache, turns, restarts>>
         /\ run'.pc = "writing" /\ run'.home = h /\ run'.newest = run.newest
         /\ \E c \in Oldest(run.todo) :
               /\ outbox' = [outbox EXCEPT ![h] = @ \cup {c}]
               /\ run'.todo = run.todo \ {c}
  BY DEF WriteEntry, TypeOK, RunRecord

LEMMA ReadFacts ==
  ASSUME TypeOK, NEW h \in Homes, ReadReceipts(h)
  PROVE  /\ UNCHANGED <<cursor, outbox, cache, turns, restarts>>
         /\ run'.pc = "writing" /\ run'.home = h
         /\ run'.todo = NewReplies(h) /\ run'.newest = landed[h]
  BY DEF ReadReceipts, TypeOK, RunRecord

LEMMA MoveFacts ==
  ASSUME TypeOK, NEW h \in Homes, MoveCursor(h)
  PROVE  /\ run.pc = "writing" /\ run.home = h /\ run.todo = {}
         /\ cursor' = [cursor EXCEPT ![h] = run.newest]
         /\ UNCHANGED <<outbox, cache, turns, restarts>>
         /\ run'.pc = "draining"
  BY DEF MoveCursor, TypeOK, RunRecord

LEMMA PostFacts ==
  ASSUME TypeOK, CacheInv, NEW h \in Homes, Post(h)
  PROVE  /\ run.pc = "draining" /\ run.home = h
         /\ UNCHANGED <<cursor, outbox, restarts>>
         /\ run'.pc = "posted" /\ run'.home = h
         /\ \E c \in Oldest(outbox[h]) :
               /\ c \in Kit[h]
               /\ \/ /\ Key(h, c) \in cache
                     /\ turns[h][c] > 0
                     /\ UNCHANGED <<cache, turns>>
                  \/ /\ Key(h, c) \notin cache
                     /\ cache' = cache \cup {Key(h, c)}
                     /\ turns' = [turns EXCEPT ![h][c] = @ + 1]
  <1>1. run'.pc = "posted" /\ run'.home = h
    BY DEF Post, TypeOK, RunRecord
  <1>2. PICK c \in Oldest(outbox[h]) :
           IF Key(h, c) \in cache THEN UNCHANGED <<cache, turns>>
           ELSE /\ cache' = cache \cup {Key(h, c)}
                /\ turns' = [turns EXCEPT ![h][c] = @ + 1]
    BY DEF Post
  <1>3. c \in Kit[h] /\ c \in Replies
    BY <1>2 DEF Oldest, TypeOK
  <1> QED
    BY <1>1, <1>2, <1>3 DEF Post, CacheInv

LEMMA UnlinkFacts ==
  ASSUME TypeOK, NEW h \in Homes, Unlink(h)
  PROVE  /\ run.pc = "posted" /\ run.home = h
         /\ UNCHANGED <<cursor, cache, turns, restarts>>
         /\ run'.pc = "draining"
         /\ \E c \in Oldest(outbox[h]) : outbox' = [outbox EXCEPT ![h] = @ \ {c}]
  BY DEF Unlink, TypeOK, RunRecord

(* A post makes one turn more of one reply, and leaves the others alone.   *)
LEMMA TurnsAfterPost ==
  ASSUME TypeOK, NEW h \in Homes, NEW c \in Replies,
         turns' = [turns EXCEPT ![h][c] = @ + 1]
  PROVE  /\ turns'[h][c] = turns[h][c] + 1
         /\ \A k \in Homes : \A d \in Replies :
               k # h \/ d # c => turns'[k][d] = turns[k][d]
         /\ \A k \in Homes : \A d \in Replies :
               turns[k][d] \in Nat /\ turns'[k][d] \in Nat /\ turns'[k][d] >= turns[k][d]
  BY DEF TypeOK

LEMMA KeyIsUnique ==
  ASSUME NEW h, NEW c, NEW k, NEW d, Key(h, c) = Key(k, d)
  PROVE  h = k /\ c = d
  BY DEF Key
-----------------------------------------------------------------------------
(* The gateway's memory and its turns.                                     *)
LEMMA TurnsStep ==
  IInv /\ [Next]_vars /\ TypeOK' => CacheInv' /\ Forgotten' /\ TwiceOnlyAfterRestart'
  <1> SUFFICES ASSUME IInv, [Next]_vars, TypeOK'
               PROVE  CacheInv' /\ Forgotten' /\ TwiceOnlyAfterRestart'
    OBVIOUS
  <1>a. TypeOK /\ CacheInv /\ Forgotten /\ TwiceOnlyAfterRestart
    BY DEF IInv
  <1>n. restarts \in Nat /\ \A k \in Homes : \A d \in Replies : turns[k][d] \in Nat
    BY <1>a, PusherAssumption DEF TypeOK
  <1>1. CASE UNCHANGED <<cache, turns, restarts>>
    BY <1>1, <1>a DEF CacheInv, Forgotten, TwiceOnlyAfterRestart
  <1>2. CASE GatewayRestarts
    BY <1>2, <1>a, <1>n DEF GatewayRestarts, CacheInv, Forgotten, TwiceOnlyAfterRestart
  <1>3. ASSUME NEW h \in Homes, Post(h)
        PROVE  CacheInv' /\ Forgotten' /\ TwiceOnlyAfterRestart'
    <2>1. PICK c \in Oldest(outbox[h]) :
             /\ c \in Kit[h]
             /\ \/ UNCHANGED <<cache, turns>>
                \/ /\ Key(h, c) \notin cache
                   /\ cache' = cache \cup {Key(h, c)}
                   /\ turns' = [turns EXCEPT ![h][c] = @ + 1]
      BY <1>3, <1>a, PostFacts
    <2>2. UNCHANGED restarts
      BY <1>3, <1>a, PostFacts
    <2>3. CASE UNCHANGED <<cache, turns>>
      BY <2>2, <2>3, <1>1
    <2>4. CASE /\ Key(h, c) \notin cache
               /\ cache' = cache \cup {Key(h, c)}
               /\ turns' = [turns EXCEPT ![h][c] = @ + 1]
      <3>1. c \in Replies
        BY <2>1, PusherAssumption
      <3>2. turns'[h][c] = turns[h][c] + 1 /\ turns[h][c] <= restarts
        BY <2>4, <3>1, <1>a, TurnsAfterPost DEF Forgotten
      <3>3. SUFFICES ASSUME NEW k \in Homes, NEW d \in Replies
                     PROVE  /\ Key(k, d) \in cache' => turns'[k][d] > 0
                            /\ Key(k, d) \notin cache' => turns'[k][d] <= restarts'
                            /\ turns'[k][d] <= 1 + restarts'
        BY DEF CacheInv, Forgotten, TwiceOnlyAfterRestart, Key
      <3>4. CASE k = h /\ d = c
        BY <3>2, <3>4, <2>2, <2>4, <1>n DEF Key
      <3>5. CASE k # h \/ d # c
        <4>1. turns'[k][d] = turns[k][d]
          BY <3>1, <3>5, <2>4, <1>a, TurnsAfterPost
        <4>2. Key(k, d) \in cache' <=> Key(k, d) \in cache
          BY <2>4, <3>5, KeyIsUnique
        <4> QED
          BY <4>1, <4>2, <2>2, <1>a DEF CacheInv, Forgotten, TwiceOnlyAfterRestart
      <3> QED
        BY <3>4, <3>5
    <2> QED
      BY <2>1, <2>3, <2>4
  <1> QED
    <2>1. Footprint
      BY <1>a, StepFootprint
    <2> QED
      BY <1>a, <2>1, <1>1, <1>2, <1>3, ReadFacts, WriteEntryFacts, MoveFacts, UnlinkFacts
         DEF Footprint

-----------------------------------------------------------------------------
(* The outbox and the cursor.  What is safe stays safe: an entry leaves    *)
(* the outbox only when a turn was made of it.                             *)
LEMMA SafeStays ==
  ASSUME IInv, [Next]_vars
  PROVE  \A k \in Homes : \A d \in Kit[k] : Safe(k, d) => Safe(k, d)'
  <1> USE PusherAssumption
  <1>a. TypeOK /\ CacheInv /\ PostedInv
    BY DEF IInv
  <1>1. CASE UNCHANGED <<outbox, turns>>
    BY <1>1 DEF Safe
  <1>2. ASSUME NEW h \in Homes, WriteEntry(h)
        PROVE  \A k \in Homes : \A d \in Kit[k] : Safe(k, d) => Safe(k, d)'
    <2>1. PICK c \in Oldest(run.todo) : outbox' = [outbox EXCEPT ![h] = @ \cup {c}]
      BY <1>2, <1>a, WriteEntryFacts
    <2>2. \A k \in Homes : outbox[k] \subseteq outbox'[k]
      BY <2>1, <1>a DEF TypeOK
    <2> QED
      BY <1>2, <1>a, <2>2, WriteEntryFacts DEF Safe
  <1>3. ASSUME NEW h \in Homes, Post(h)
        PROVE  \A k \in Homes : \A d \in Kit[k] : Safe(k, d) => Safe(k, d)'
    <2>1. PICK c \in Kit[h] : \/ UNCHANGED turns
                              \/ turns' = [turns EXCEPT ![h][c] = @ + 1]
      BY <1>3, <1>a, PostFacts
    <2>2. c \in Replies
      OBVIOUS
    <2>3. \A k \in Homes : \A d \in Replies : turns[k][d] > 0 => turns'[k][d] > 0
      BY <2>1, <2>2, <1>a, TurnsAfterPost
    <2> QED
      BY <1>3, <1>a, <2>3, PostFacts DEF Safe
  <1>4. ASSUME NEW h \in Homes, Unlink(h)
        PROVE  \A k \in Homes : \A d \in Kit[k] : Safe(k, d) => Safe(k, d)'
    <2>1. PICK c \in Oldest(outbox[h]) : outbox' = [outbox EXCEPT ![h] = @ \ {c}]
      BY <1>4, <1>a, UnlinkFacts
    <2>2. turns[h][c] > 0 /\ UNCHANGED turns
      BY <1>4, <1>a, <2>1, UnlinkFacts DEF PostedInv
    <2>3. \A k \in Homes : \A d : d \in outbox[k] => d \in outbox'[k] \/ (k = h /\ d = c)
      BY <2>1, <1>a DEF TypeOK
    <2> QED
      BY <2>2, <2>3 DEF Safe
  <1> QED
    <2>1. Footprint
      BY <1>a, StepFootprint
    <2> QED
      BY <1>a, <2>1, <1>1, <1>2, <1>3, <1>4, ReadFacts, MoveFacts
         DEF Footprint, GatewayRestarts

(* A reply becomes safe only where the run writes it.                      *)
LEMMA NewlySafe ==
  ASSUME IInv, [Next]_vars, NEW k \in Homes, NEW d \in Kit[k], Safe(k, d)', ~Safe(k, d)
  PROVE  WriteEntry(k) /\ d \in Oldest(run.todo)
  <1> USE PusherAssumption
  <1>a. TypeOK /\ CacheInv
    BY DEF IInv
  <1>1. CASE UNCHANGED <<outbox, turns>>
    BY <1>1 DEF Safe
  <1>2. ASSUME NEW h \in Homes, WriteEntry(h)
        PROVE  WriteEntry(k) /\ d \in Oldest(run.todo)
    <2>1. PICK c \in Oldest(run.todo) : outbox' = [outbox EXCEPT ![h] = @ \cup {c}]
      BY <1>2, <1>a, WriteEntryFacts
    <2>2. UNCHANGED turns
      BY <1>2, <1>a, WriteEntryFacts
    <2>3. d \in outbox'[k] /\ d \notin outbox[k]
      BY <2>2 DEF Safe
    <2>4. k = h /\ d = c
      BY <2>1, <2>3, <1>a DEF TypeOK
    <2> QED
      BY <1>2, <2>1, <2>4
  <1>3. ASSUME NEW h \in Homes, Post(h) PROVE FALSE
    <2>1. PICK c \in Oldest(outbox[h]) :
             /\ c \in Kit[h]
             /\ UNCHANGED turns \/ turns' = [turns EXCEPT ![h][c] = @ + 1]
      BY <1>3, <1>a, PostFacts
    <2>2. UNCHANGED outbox /\ c \in Replies /\ d \in Replies /\ c \in outbox[h]
      BY <2>1, <1>3, <1>a, PostFacts DEF Oldest
    <2>3. k # h \/ d # c
      BY <2>2 DEF Safe
    <2>4. turns'[k][d] = turns[k][d]
      BY <2>1, <2>2, <2>3, <1>a, TurnsAfterPost
    <2> QED
      BY <2>2, <2>4 DEF Safe
  <1>4. ASSUME NEW h \in Homes, Unlink(h) PROVE FALSE
    <2>1. PICK c \in Oldest(outbox[h]) : outbox' = [outbox EXCEPT ![h] = @ \ {c}]
      BY <1>4, <1>a, UnlinkFacts
    <2>2. outbox'[k] \subseteq outbox[k] /\ UNCHANGED turns
      BY <1>4, <2>1, <1>a, UnlinkFacts DEF TypeOK
    <2> QED
      BY <2>2 DEF Safe
  <1> QED
    <2>1. Footprint
      BY <1>a, StepFootprint
    <2> QED
      BY <1>a, <2>1, <1>1, <1>2, <1>3, <1>4, ReadFacts, MoveFacts
         DEF Footprint, GatewayRestarts

LEMMA WritingStep ==
  IInv /\ [Next]_vars => WritingInv'
  <1> SUFFICES ASSUME IInv, [Next]_vars PROVE WritingInv'
    OBVIOUS
  <1> USE PusherAssumption
  <1>a. TypeOK /\ CacheInv /\ WritingInv /\ NothingLost
    BY DEF IInv
  <1>b. \A k \in Homes : \A d \in Kit[k] : Safe(k, d) => Safe(k, d)'
    BY SafeStays
  <1>h. run.home \in Homes
    BY <1>a DEF TypeOK, RunRecord
  <1>1. CASE run' = run
    BY <1>1, <1>a, <1>b, <1>h DEF WritingInv
  <1>2. CASE run'.pc # "writing"
    BY <1>2 DEF WritingInv
  <1>3. ASSUME NEW h \in Homes, ReadReceipts(h) PROVE WritingInv'
    <2>1. /\ run'.home = h /\ run'.todo = NewReplies(h) /\ run'.newest = landed[h]
          /\ UNCHANGED <<cursor, outbox, turns>>
      BY <1>3, <1>a, ReadFacts
    <2>2. \A c \in Kit[h] : c <= landed[h] => c \in NewReplies(h) \/ Safe(h, c)
      <3> SUFFICES ASSUME NEW c \in Kit[h], c <= landed[h]
                   PROVE  c \in NewReplies(h) \/ Safe(h, c)
        OBVIOUS
      <3>1. c \in Nat /\ cursor[h] \in Nat
        BY <1>a DEF TypeOK, Replies
      <3>2. c <= cursor[h] \/ c \in NewReplies(h)
        BY <3>1 DEF NewReplies
      <3> QED
        BY <3>2, <1>a DEF NothingLost, Safe
    <2>3. \A c \in Kit[h] : Safe(h, c) => Safe(h, c)'
      BY <1>b
    <2> QED
      BY <2>1, <2>2, <2>3 DEF WritingInv, NewReplies
  <1>4. ASSUME NEW h \in Homes, WriteEntry(h) PROVE WritingInv'
    <2>1. /\ run.pc = "writing" /\ run.home = h
          /\ run'.home = h /\ run'.newest = run.newest
      BY <1>4, <1>a, WriteEntryFacts
    <2>2. PICK c \in Oldest(run.todo) :
             /\ outbox' = [outbox EXCEPT ![h] = @ \cup {c}]
             /\ run'.todo = run.todo \ {c}
      BY <1>4, <1>a, WriteEntryFacts
    <2>3. Safe(h, c)'
      BY <2>2, <1>a DEF Safe, TypeOK
    <2>4. \A d \in Kit[h] : d \in run.todo => d \in run'.todo \/ Safe(h, d)'
      BY <2>2, <2>3
    <2> QED
      BY <1>a, <1>b, <2>1, <2>2, <2>4 DEF WritingInv
  <1> QED
    <2>1. Footprint
      BY <1>a, StepFootprint
    <2> QED
      BY <1>a, <2>1, <1>1, <1>2, <1>3, <1>4, MoveFacts, PostFacts, UnlinkFacts
         DEF Footprint, GatewayRestarts

LEMMA PostedStep ==
  IInv /\ [Next]_vars => PostedInv'
  <1> SUFFICES ASSUME IInv, [Next]_vars PROVE PostedInv'
    OBVIOUS
  <1> USE PusherAssumption
  <1>a. TypeOK /\ CacheInv /\ PostedInv
    BY DEF IInv
  <1>1. CASE run' = run /\ UNCHANGED <<outbox, turns>>
    BY <1>1, <1>a DEF PostedInv
  <1>2. CASE run'.pc # "posted"
    BY <1>2 DEF PostedInv
  <1>3. ASSUME NEW h \in Homes, Post(h) PROVE PostedInv'
    <2>1. run'.home = h /\ UNCHANGED outbox
      BY <1>3, <1>a, PostFacts
    <2>2. PICK c \in Oldest(outbox[h]) :
             /\ c \in Kit[h]
             /\ \/ turns[h][c] > 0 /\ UNCHANGED turns
                \/ turns' = [turns EXCEPT ![h][c] = @ + 1]
      BY <1>3, <1>a, PostFacts
    <2>3. c \in Replies
      BY <2>2
    <2>4. turns'[h][c] > 0
      BY <2>2, <2>3, <1>a, TurnsAfterPost
    <2>5. \A d \in Oldest(outbox[h]) : d = c
      BY <2>2, <1>a DEF Oldest, TypeOK, Replies
    <2> QED
      BY <2>1, <2>4, <2>5 DEF PostedInv
  <1> QED
    <2>1. Footprint
      BY <1>a, StepFootprint
    <2> QED
      BY <1>a, <2>1, <1>1, <1>2, <1>3, ReadFacts, WriteEntryFacts, MoveFacts, UnlinkFacts
         DEF Footprint, GatewayRestarts

LEMMA OrderStep ==
  IInv /\ [Next]_vars => SafeInOrder'
  <1> SUFFICES ASSUME IInv, [Next]_vars,
                      NEW h \in Homes, NEW c \in Kit[h], NEW d \in Kit[h],
                      d < c, Safe(h, c)'
               PROVE  Safe(h, d)'
    BY DEF SafeInOrder
  <1> USE PusherAssumption
  <1>a. TypeOK /\ WritingInv /\ SafeInOrder
    BY DEF IInv
  <1>b. \A k \in Homes : \A e \in Kit[k] : Safe(k, e) => Safe(k, e)'
    BY SafeStays
  <1>1. CASE Safe(h, c)
    BY <1>1, <1>a, <1>b DEF SafeInOrder
  <1>2. CASE ~Safe(h, c)
    <2>1. WriteEntry(h) /\ c \in Oldest(run.todo)
      BY <1>2, NewlySafe
    <2>2. run.pc = "writing" /\ run.home = h
      BY <2>1 DEF WriteEntry
    <2>3. c <= run.newest /\ d \notin run.todo
      BY <2>1, <2>2, <1>a DEF Oldest, WritingInv, Replies
    <2>4. c \in Nat /\ d \in Nat /\ run.newest \in Nat
      BY <1>a DEF TypeOK, RunRecord, Replies
    <2>5. Safe(h, d)
      BY <2>2, <2>3, <2>4, <1>a DEF WritingInv
    <2> QED
      BY <2>5, <1>b
  <1> QED
    BY <1>1, <1>2

LEMMA CursorStep ==
  IInv /\ [Next]_vars => NothingLost'
  <1> SUFFICES ASSUME IInv, [Next]_vars,
                      NEW h \in Homes, NEW c \in Kit[h], c <= cursor'[h]
               PROVE  Safe(h, c)'
    BY DEF NothingLost, Safe
  <1> USE PusherAssumption
  <1>a. TypeOK /\ CacheInv /\ WritingInv /\ NothingLost
    BY DEF IInv
  <1>b. Safe(h, c) => Safe(h, c)'
    BY SafeStays
  <1>1. CASE cursor'[h] = cursor[h]
    BY <1>1, <1>a, <1>b DEF NothingLost, Safe
  <1>2. ASSUME NEW k \in Homes, MoveCursor(k) PROVE Safe(h, c)'
    <2>1. CASE k = h
      <3>1. run.pc = "writing" /\ run.home = h /\ run.todo = {} /\ cursor'[h] = run.newest
        BY <1>2, <1>a, <2>1, MoveFacts DEF TypeOK
      <3> QED
        BY <3>1, <1>a, <1>b DEF WritingInv
    <2>2. CASE k # h
      BY <2>2, <1>1, <1>2, <1>a, MoveFacts DEF TypeOK
    <2> QED
      BY <2>1, <2>2
  <1> QED
    <2>1. Footprint
      BY <1>a, StepFootprint
    <2> QED
      BY <1>a, <2>1, <1>1, <1>2, ReadFacts, WriteEntryFacts, PostFacts, UnlinkFacts
         DEF Footprint, GatewayRestarts

(* The reply the gateway takes is the oldest in the outbox, so the older   *)
(* ones, being safe, were told.                                            *)
LEMMA ToldStep ==
  IInv /\ [Next]_vars => ToldInOrder'
  <1> SUFFICES ASSUME IInv, [Next]_vars,
                      NEW h \in Homes, NEW c \in Kit[h], NEW d \in Kit[h],
                      d < c, turns'[h][c] > 0
               PROVE  turns'[h][d] > 0
    BY DEF ToldInOrder
  <1> USE PusherAssumption
  <1>a. TypeOK /\ CacheInv /\ SafeInOrder /\ ToldInOrder
    BY DEF IInv
  <1>1. CASE UNCHANGED turns
    BY <1>1, <1>a DEF ToldInOrder
  <1>2. ASSUME NEW k \in Homes, Post(k) PROVE turns'[h][d] > 0
    <2>1. PICK e \in Oldest(outbox[k]) :
             /\ e \in Kit[k]
             /\ UNCHANGED turns \/ turns' = [turns EXCEPT ![k][e] = @ + 1]
      BY <1>2, <1>a, PostFacts
    <2>2. CASE turns' = [turns EXCEPT ![k][e] = @ + 1]
      <3>0. e \in Replies /\ c \in Replies /\ d \in Replies
        BY <2>1
      <3>1. turns[h][d] > 0 => turns'[h][d] > 0
        <4>1. /\ turns[h][d] \in Nat /\ turns'[h][d] \in Nat
              /\ turns'[h][d] >= turns[h][d]
          BY <2>2, <3>0, <1>a, TurnsAfterPost
        <4> QED
          BY <4>1
      <3>2. CASE k = h /\ e = c
        <4>1. Safe(h, d) /\ d \notin outbox[h]
          BY <2>1, <3>2, <3>0, <1>a DEF SafeInOrder, Safe, Oldest, Replies
        <4> QED
          BY <4>1, <3>1 DEF Safe
      <3>3. CASE k # h \/ e # c
        <4>1. turns[h][c] > 0
          BY <2>2, <3>0, <3>3, <1>a, TurnsAfterPost
        <4> QED
          BY <4>1, <3>1, <1>a DEF ToldInOrder
      <3> QED
        BY <3>2, <3>3
    <2> QED
      BY <2>1, <2>2, <1>1
  <1> QED
    <2>1. Footprint
      BY <1>a, StepFootprint
    <2> QED
      BY <1>a, <2>1, <1>1, <1>2, ReadFacts, WriteEntryFacts, MoveFacts, UnlinkFacts
         DEF Footprint, GatewayRestarts
-----------------------------------------------------------------------------
THEOREM Inductive == Spec => []IInv
  <1>1. IInv /\ [Next]_vars => IInv'
    <2> SUFFICES ASSUME IInv, [Next]_vars PROVE IInv'
      OBVIOUS
    <2>1. TypeOK'
      BY TypeStep DEF IInv
    <2> QED
      BY <2>1, TurnsStep, WritingStep, PostedStep, OrderStep, CursorStep, ToldStep DEF IInv
  <1> QED
    BY <1>1, InitOK, PTL DEF Spec

(* The files, the oneshot and the gateway stay well formed, and nothing    *)
(* but a reply to kit is ever queued (reply_pusher.py).                    *)
THEOREM TypeCorrect == Spec => []TypeOK
  <1>1. IInv => TypeOK
    BY DEF IInv
  <1> QED
    BY <1>1, Inductive, PTL

(* No crash, failed POST or failed read loses a reply the cursor is past.  *)
THEOREM NoReplyLost == Spec => []NothingLost
  <1>1. IInv => NothingLost
    BY DEF IInv
  <1> QED
    BY <1>1, Inductive, PTL

(* The owner hears the replies of a home in the order they were written.   *)
THEOREM RepliesInOrder == Spec => []ToldInOrder
  <1>1. IInv => ToldInOrder
    BY DEF IInv
  <1> QED
    BY <1>1, Inductive, PTL

(* One turn per reply, and one more for each time the gateway forgets.     *)
THEOREM OneTurnPerGatewayLife == Spec => []TwiceOnlyAfterRestart
  <1>1. IInv => TwiceOnlyAfterRestart
    BY DEF IInv
  <1> QED
    BY <1>1, Inductive, PTL
=============================================================================
