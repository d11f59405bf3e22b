------------------------------- MODULE DocDoor -------------------------------
(***************************************************************************)
(* skills/doc-door/door.py: scan finds the document attachments of the     *)
(* owner's mail, converts each once and shows it to the agent; report      *)
(* keeps the agent's report; both append the vault log line of each report *)
(* and file its original on Drive.  A command works on its own copy of     *)
(* state.json and saves it now and then; it can be killed anywhere, and    *)
(* what it asked of Drive or of log.sh can be done without it learning so. *)
(* The agent's turn runs one command after the other.                      *)
(***************************************************************************)
EXTENDS Naturals, FiniteSets

CONSTANTS
    Docs,        \* documents, told apart by their content's hash
    Messages,
    Attached,    \* the documents a message carries
    NameOf,      \* a document's file name
    Unreadable,  \* documents no conversion succeeds for
    Folders,     \* the Drive folders a report can propose
    Null,
    MaxNew,      \* documents shown per scan
    FilePerPass, \* originals a command tries to file
    MaxDoorTroubles  \* bound: kills, failures, answers that are lost

(* A document's file on Drive: where it is, under its own name or the one  *)
(* with the document's hash.                                               *)
Files == [in : Folders, name : {"own", "hash"}]

ASSUME DocDoorAssumption ==
    /\ Attached \in [Messages -> SUBSET Docs]
    /\ Unreadable \subseteq Docs
    /\ Null \notin Messages \cup Folders \cup {"converted", "reported"}
    /\ Null \notin Files
    /\ MaxNew \in Nat \ {0} /\ FilePerPass \in Nat \ {0} /\ MaxDoorTroubles \in Nat

(* state.json: docs (status, message_id, folder, drive and drive_ref with  *)
(* drive_name, logged), and skipped.                                       *)
States ==
    [status : [Docs -> {Null, "converted", "reported"}],
     of : [Docs -> Messages \cup {Null}],
     folder : [Docs -> Folders \cup {Null}],
     filed : [Docs -> Files \cup {Null}],
     logged : SUBSET Docs,
     skipped : SUBSET Messages]

VARIABLES
    saved,    \* state.json
    mem,      \* the running command's copy
    mail,     \* the messages the search window shows
    shown,    \* the documents this scan has shown
    doorStep,     \* where the command is
    doorTodo,     \* what is left of the step: documents, or messages
    current,  \* the message, or the document, in hand
    copies,   \* Drive: how many files there are of each document
    lines,    \* the lines of each document in the vault log
    doorTroubles

command == <<mem, shown, doorStep, doorTodo, current>>
doorVars == <<saved, command, mail, copies, lines, doorTroubles>>

EmptyState ==
    [status |-> [d \in Docs |-> Null], of |-> [d \in Docs |-> Null],
     folder |-> [d \in Docs |-> Null], filed |-> [d \in Docs |-> Null], logged |-> {}, skipped |-> {}]

DoorInit ==
    /\ saved = EmptyState /\ mem = EmptyState
    /\ mail = {}
    /\ shown = {} /\ doorStep = "idle" /\ doorTodo = {} /\ current = Null
    /\ copies = [d \in Docs |-> [f \in Files |-> 0]]
    /\ lines = [d \in Docs |-> 0]
    /\ doorTroubles = 0

DoorTrouble == doorTroubles < MaxDoorTroubles /\ doorTroubles' = doorTroubles + 1

Unlogged(s) == {d \in Docs : s.status[d] = "reported" /\ d \notin s.logged}
UnfiledAndUnlogged(s) == {d \in Unlogged(s) : s.filed[d] = Null}

Unfiled(s) == {d \in Docs : s.status[d] = "reported" /\ s.filed[d] = Null}

(* The first n by document id, which are any as far as the state tells.    *)
UpTo(n, S) ==
    {some \in SUBSET S : \/ Cardinality(some) = n
                         \/ some = S /\ Cardinality(S) < n}

Save == saved' = mem

-----------------------------------------------------------------------------
(* Mail comes, and leaves the window of the search.                        *)
Arrives(m) ==
    /\ m \notin mail
    /\ mail' = mail \cup {m}
    /\ UNCHANGED <<saved, command, copies, lines, doorTroubles>>

Lapses(m) ==
    /\ m \in mail
    /\ DoorTrouble
    /\ mail' = mail \ {m}
    /\ UNCHANGED <<saved, command, copies, lines>>

-----------------------------------------------------------------------------
(* The two commands *)

ScanBegins ==
    /\ doorStep = "idle"
    /\ mem' = saved
    /\ doorStep' = "logging" /\ doorTodo' = Unlogged(saved)
    /\ current' = "scan"
    /\ shown' = {}
    /\ UNCHANGED <<saved, mail, copies, lines, doorTroubles>>

(* The report is kept and the record saved, a document already reported    *)
(* included, which may get another folder; its file, if it has one, stays  *)
(* where it is.  A report that breaks the rules changes nothing.           *)
Reports(d, folder) ==
    /\ doorStep = "idle" /\ saved.status[d] # Null
    /\ mem' = [saved EXCEPT !.status[d] = "reported", !.folder[d] = folder]
    /\ saved' = mem'
    /\ doorStep' = "logging" /\ doorTodo' = Unlogged(mem')
    /\ current' = "report"
    /\ UNCHANGED <<mail, shown, copies, lines, doorTroubles>>

(* flush_logs: log.sh for each report that has no line, one save at the end*)
LogsLine(d) ==
    /\ doorStep = "logging" /\ d \in doorTodo
    /\ lines' = [lines EXCEPT ![d] = @ + 1]
    /\ mem' = [mem EXCEPT !.logged = @ \cup {d}]
    /\ doorTodo' = doorTodo \ {d}
    /\ UNCHANGED <<saved, mail, shown, doorStep, current, copies, doorTroubles>>

(* log.sh refuses, or appends and cannot commit.                           *)
LogFails(d) ==
    /\ doorStep = "logging" /\ d \in doorTodo
    /\ DoorTrouble
    /\ lines' \in {lines, [lines EXCEPT ![d] = @ + 1]}
    /\ doorTodo' = doorTodo \ {d}
    /\ UNCHANGED <<saved, mem, mail, shown, doorStep, current, copies>>

(* What was converted earlier and not reported is shown again first.       *)
Converted(s) == {d \in Docs : s.status[d] = "converted"}

LogsSaved ==
    /\ doorStep = "logging" /\ doorTodo = {}
    /\ Save
    /\ IF current = "scan"
       THEN /\ shown' \in UpTo(MaxNew, Converted(mem))
            /\ doorStep' = "searching"
            /\ UNCHANGED doorTodo
       ELSE /\ doorStep' = "filing" /\ doorTodo' \in UpTo(FilePerPass, Unfiled(mem))
            /\ UNCHANGED shown
    /\ UNCHANGED <<mem, mail, current, copies, lines, doorTroubles>>

(* "mail unavailable": the scan ends here.                                 *)
MailFails ==
    /\ doorStep = "searching"
    /\ DoorTrouble
    /\ Save
    /\ doorStep' = "idle"
    /\ UNCHANGED <<mem, mail, shown, doorTodo, current, copies, lines>>

Searches ==
    /\ doorStep = "searching"
    /\ doorStep' = "filing" /\ doorTodo' \in UpTo(FilePerPass, Unfiled(mem))
    /\ UNCHANGED <<saved, mem, mail, shown, current, copies, lines, doorTroubles>>

-----------------------------------------------------------------------------
(* Drive: file_pending, file_original *)

InFolder(d, name) == [in |-> mem.folder[d], name |-> name]

(* A file of this name is listed in the document's folder.                 *)
Taken(d) ==
    \E e \in Docs : NameOf[e] = NameOf[d] /\ copies[e][InFolder(d, "own")] > 0

HashTaken(d) == copies[d][InFolder(d, "hash")] > 0

(* The original's name, or the one with its hash when that is taken.       *)
Target(d) == InFolder(d, IF Taken(d) THEN "hash" ELSE "own")

AnyAlready(d) == Taken(d)

(* Only a name with the document's own hash is known to be its file.       *)
ThereAlready(d) == Taken(d) /\ HashTaken(d)

Uploaded(d) == copies' = [copies EXCEPT ![d][Target(d)] = @ + 1]

Filed(d) ==
    /\ mem' = [mem EXCEPT !.filed[d] = Target(d)]
    /\ saved' = mem'
    /\ doorTodo' = doorTodo \ {d}

FindsFile(d) ==
    /\ doorStep = "filing" /\ d \in doorTodo /\ ThereAlready(d)
    /\ Filed(d)
    /\ UNCHANGED <<mail, shown, doorStep, current, copies, lines, doorTroubles>>

Uploads(d) ==
    /\ doorStep = "filing" /\ d \in doorTodo /\ ~ThereAlready(d)
    /\ Uploaded(d) /\ Filed(d)
    /\ UNCHANGED <<mail, shown, doorStep, current, lines, doorTroubles>>

(* Any Drive problem leaves it pending; the upload may have been made.     *)
UploadFails(d) ==
    /\ doorStep = "filing" /\ d \in doorTodo
    /\ DoorTrouble
    /\ UNCHANGED copies \/ (~ThereAlready(d) /\ Uploaded(d))
    /\ Save
    /\ doorTodo' = doorTodo \ {d}
    /\ UNCHANGED <<mem, mail, shown, doorStep, current, lines>>

FilingEnds ==
    /\ doorStep = "filing" /\ doorTodo = {}
    /\ IF current = "scan"
       THEN /\ doorStep' = "reading"
            /\ doorTodo' = {m \in mail : m \notin mem.skipped /\ \A d \in Docs : mem.of[d] # m}
       ELSE doorStep' = "idle" /\ UNCHANGED doorTodo
    /\ current' = Null
    /\ UNCHANGED <<saved, mem, mail, shown, copies, lines, doorTroubles>>

-----------------------------------------------------------------------------
(* The messages no document on record is of and that were not skipped,     *)
(* while fewer than MaxNew documents are shown *)

Full == Cardinality(shown) >= MaxNew

Opens(m) ==
    /\ doorStep = "reading" /\ m \in doorTodo /\ ~Full
    /\ doorTodo' = doorTodo \ {m}
    /\ IF Attached[m] = {}
       THEN mem' = [mem EXCEPT !.skipped = @ \cup {m}] /\ UNCHANGED <<doorStep, current>>
       ELSE doorStep' = "opening" /\ current' = [message |-> m, left |-> Attached[m]]
            /\ UNCHANGED mem
    /\ UNCHANGED <<saved, mail, shown, copies, lines, doorTroubles>>

Advanced(d) == [current EXCEPT !.left = @ \ {d}]

(* A document on record by its content, or one that does not convert.      *)
PassesOver(d) ==
    /\ doorStep = "opening" /\ ~Full /\ d \in current.left
    /\ mem.status[d] # Null \/ d \in Unreadable
    /\ current' = Advanced(d)
    /\ UNCHANGED <<saved, mem, mail, shown, doorStep, doorTodo, copies, lines, doorTroubles>>

Converts(d) ==
    /\ doorStep = "opening" /\ ~Full /\ d \in current.left
    /\ mem.status[d] = Null /\ d \notin Unreadable
    /\ mem' = [mem EXCEPT !.status[d] = "converted", !.of[d] = current.message]
    /\ saved' = mem'
    /\ shown' = shown \cup {d}
    /\ current' = Advanced(d)
    /\ UNCHANGED <<mail, doorStep, doorTodo, copies, lines, doorTroubles>>

(* The mail server fails: the rest of the message is left.                 *)
OpenFails ==
    /\ doorStep = "opening"
    /\ DoorTrouble
    /\ doorStep' = "reading" /\ current' = Null
    /\ UNCHANGED <<saved, mem, mail, shown, doorTodo, copies, lines>>

Closes ==
    /\ doorStep = "opening" /\ (Full \/ current.left = {})
    /\ doorStep' = "reading" /\ current' = Null
    /\ UNCHANGED <<saved, mem, mail, shown, doorTodo, copies, lines, doorTroubles>>

ScanEnds ==
    /\ doorStep = "reading" /\ (Full \/ doorTodo = {})
    /\ Save
    /\ doorStep' = "idle" /\ doorTodo' = {}
    /\ UNCHANGED <<mem, mail, shown, current, copies, lines, doorTroubles>>

(* Between any two steps, and inside log.sh or an upload.                  *)
DoorKilled ==
    /\ doorStep # "idle"
    /\ DoorTrouble
    /\ \/ UNCHANGED <<copies, lines>>
       \/ \E d \in Docs : /\ doorStep = "logging" /\ d \in doorTodo
                          /\ lines' = [lines EXCEPT ![d] = @ + 1]
                          /\ UNCHANGED copies
       \/ \E d \in Docs : /\ doorStep = "filing" /\ d \in doorTodo /\ ~ThereAlready(d)
                          /\ Uploaded(d)
                          /\ UNCHANGED lines
    /\ doorStep' = "idle" /\ doorTodo' = {} /\ current' = Null
    /\ UNCHANGED <<saved, mem, mail, shown>>

CommandStep ==
    \/ LogsSaved \/ MailFails \/ Searches \/ FilingEnds
    \/ OpenFails \/ Closes \/ ScanEnds
    \/ \E d \in Docs : \/ LogsLine(d) \/ LogFails(d)
                       \/ FindsFile(d) \/ Uploads(d) \/ UploadFails(d)
                       \/ PassesOver(d) \/ Converts(d)
    \/ \E m \in Messages : Opens(m)

DoorNext ==
    \/ \E m \in Messages : Arrives(m) \/ Lapses(m)
    \/ ScanBegins \/ \E d \in Docs, f \in Folders : Reports(d, f)
    \/ CommandStep \/ DoorKilled

DoorSpec == DoorInit /\ [][DoorNext]_doorVars

(* The cron job comes again and again, whatever the agent reports between. *)
DoorFairSpec == DoorSpec /\ WF_doorVars(CommandStep) /\ SF_doorVars(ScanBegins)

-----------------------------------------------------------------------------
(* Properties *)

DoorTypeOK ==
    /\ saved \in States /\ mem \in States
    /\ mail \subseteq Messages
    /\ shown \subseteq Docs
    /\ copies \in [Docs -> [Files -> Nat]]
    /\ lines \in [Docs -> Nat]
    /\ doorTroubles \in 0..MaxDoorTroubles

(* A document the record calls filed is on Drive, in the folder and under  *)
(* the name it was filed with, however often it is reported again, and     *)
(* never another document of the same file name taken for it; and answers  *)
(* that are lost, or a death before the save, do not fill a folder: the    *)
(* copy under the document's own hash ends the retries there.              *)
DriveIsTrue ==
    \A d \in Docs :
        /\ saved.filed[d] # Null => copies[d][saved.filed[d]] > 0
        /\ \A f \in Files : copies[d][f] <= 1

(* "the next scan retries": what is reported gets its original filed and   *)
(* its log line, however often the command failed or died on the way.      *)
EveryReportFiled ==
    \A d \in Docs :
        saved.status[d] = "reported" ~>
            /\ saved.filed[d] # Null
            /\ lines[d] > 0
=============================================================================
