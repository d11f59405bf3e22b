---------------------------- MODULE IntakeToVault ----------------------------
(***************************************************************************)
(* scripts/intake-to-vault/intake_to_vault.py: the hourly run that files   *)
(* each accepted report of the intake (Intake.tla) into the memory vault   *)
(* as one source page, one index line and one log line, through the        *)
(* vault's own bin/lint.sh, bin/index.sh and bin/log.sh; beside it, as far *)
(* as they share the vault, the weekly model pass that holds .model-pass,  *)
(* and memory-sync.sh, which moves the branch log.sh commits to.           *)
(***************************************************************************)
EXTENDS Naturals, FiniteSets

CONSTANTS
    Keys,        \* the items that can have a report
    SlugOf,      \* the name a key gets: two keys may share one
    Red,         \* the keys whose page the vault lint refuses
    None,
    MaxDay,      \* bound: days that pass
    MaxTroubles  \* bound: kills, failed writes and scripts, items judged anew

ASSUME VaultAssumption ==
    /\ SlugOf \in [Keys -> SUBSET Keys]
    /\ \A k \in Keys : k \in SlugOf[k]
    /\ \A k, l \in Keys : l \in SlugOf[k] => SlugOf[l] = SlugOf[k]
    /\ Red \subseteq Keys
    /\ None \notin Keys /\ None \notin [key : Keys, text : {"torn", "cut", "whole"}]
    /\ MaxDay \in Nat /\ MaxTroubles \in Nat

Days == 0..MaxDay

(* A park is filed no more than a drop is.                                 *)
Verdicts == {"accept", "drop"}

(* sources/<day>-video-<slug>.md, and with a hash of the key behind it.    *)
Stems == [day : Days, slug : {SlugOf[k] : k \in Keys}, hash : Keys \cup {None}]

VARIABLES
    day,
    reports,   \* reports/<key>.md: verdict and day judged, or None
    pages,     \* each page: whose it is and how far it is written, or None
    listed,    \* the pages index.md lists
    logged,    \* how many lines link a page, over all logs
    loose,     \* log.md holds a line that log.sh could not commit
    step,      \* where the run is
    todo,      \* the reports it has still to look at
    routed,    \* the pages on file it has still to log
    at,        \* the page it is writing
    pass,      \* the model pass holds .model-pass
    side,      \* the log lines memory-sync's side worktree was made from
    troubles

files == <<pages, listed, logged, loose>>
filer == <<step, todo, routed, at>>
vars == <<day, reports, files, filer, pass, side, troubles>>

Init ==
    /\ day = 0
    /\ reports = [k \in Keys |-> None]
    /\ pages = [s \in Stems |-> None]
    /\ listed = {}
    /\ logged = [s \in Stems |-> 0]
    /\ loose = FALSE
    /\ step = "idle" /\ todo = {} /\ routed = {} /\ at = None
    /\ pass = FALSE
    /\ side = None
    /\ troubles = 0

Trouble == troubles < MaxTroubles /\ troubles' = troubles + 1

-----------------------------------------------------------------------------
(* What others do *)

(* The judge's report, written as a whole; and written anew when a command *)
(* died, or two overlapped, before the item was in the intake's index      *)
(* (Intake!WritesReport).                                                  *)
Judged(k, verdict) ==
    /\ IF reports[k] = None THEN UNCHANGED troubles ELSE Trouble
    /\ reports' = [reports EXCEPT ![k] = [verdict |-> verdict, day |-> day]]
    /\ UNCHANGED <<day, files, filer, pass, side>>

NextDay ==
    /\ day < MaxDay
    /\ day' = day + 1
    /\ UNCHANGED <<reports, files, filer, pass, side, troubles>>

PassBegins ==
    /\ ~pass
    /\ pass' = TRUE
    /\ UNCHANGED <<day, reports, files, filer, side, troubles>>

(* Its last step, or the lock is an hour old.                              *)
PassEnds ==
    /\ pass
    /\ pass' = FALSE
    /\ UNCHANGED <<day, reports, files, filer, side, troubles>>

(* memory-sync looks at the lock, commits what is on disk and, when red    *)
(* edits are in the way of a rebase, checks the branch out into a side     *)
(* worktree.                                                               *)
SyncBegins ==
    /\ side = None /\ ~pass
    /\ loose' = FALSE
    /\ side' = logged
    /\ UNCHANGED <<day, reports, pages, listed, logged, filer, pass, troubles>>

(* The branch moves to what was rebased there: a line log.sh committed in  *)
(* between is on neither.  checkout refuses when log.md has another edit.  *)
SyncMoves ==
    /\ side # None /\ ~loose
    /\ logged' = side
    /\ side' = None
    /\ UNCHANGED <<day, reports, pages, listed, loose, filer, pass, troubles>>

(* A plain rebase, one that stopped, or a checkout that refused.           *)
SyncEnds ==
    /\ side # None
    /\ side' = None
    /\ UNCHANGED <<day, reports, files, filer, pass, troubles>>

-----------------------------------------------------------------------------
(* The run *)

Exists(s) == pages[s] # None

(* The url line names the page's source; a page torn above it has none.    *)
NamesSource(s, k) == Exists(s) /\ pages[s].key = k /\ pages[s].text # "torn"

Candidates(k, d) ==
    <<[day |-> d, slug |-> SlugOf[k], hash |-> None],
      [day |-> d, slug |-> SlugOf[k], hash |-> k]>>

(* The first name that another source does not hold, if there is one.      *)
Free(k, d) ==
    {n \in 1..2 : ~Exists(Candidates(k, d)[n]) \/ NamesSource(Candidates(k, d)[n], k)}

NameUnread(k, d) == Candidates(k, d)[IF Exists(Candidates(k, d)[1]) THEN 2 ELSE 1]

NameFor(k, d) == Candidates(k, d)[IF 1 \in Free(k, d) THEN 1 ELSE 2]

Accepted(k) == reports[k] # None /\ reports[k].verdict = "accept"

Begins ==
    /\ step = "idle" /\ ~pass
    /\ step' = "reading"
    /\ todo' = {k \in Keys : reports[k] # None}
    /\ routed' = {}
    /\ UNCHANGED <<day, reports, files, at, pass, side, troubles>>

Passes(k) ==
    /\ step = "reading" /\ k \in todo
    /\ \/ ~Accepted(k)
       \/ Accepted(k) /\ Free(k, reports[k].day) = {}
    /\ todo' = todo \ {k}
    /\ UNCHANGED <<day, reports, files, step, routed, at, pass, side, troubles>>

OnFileDone(k) ==
    /\ step = "reading" /\ k \in todo
    /\ Accepted(k) /\ Free(k, reports[k].day) # {}
    /\ Exists(NameFor(k, reports[k].day))
    /\ todo' = todo \ {k}
    /\ UNCHANGED <<day, reports, files, step, routed, at, pass, side, troubles>>

(* The page is on file: it is never written again.                         *)
OnFile(k) ==
    /\ step = "reading" /\ k \in todo
    /\ Accepted(k) /\ Free(k, reports[k].day) # {}
    /\ Exists(NameFor(k, reports[k].day))
    /\ todo' = todo \ {k}
    /\ routed' = routed \cup {NameFor(k, reports[k].day)}
    /\ UNCHANGED <<day, reports, files, step, at, pass, side, troubles>>

(* write_new: the page is created, only where there is none ...            *)
Creates(k) ==
    /\ step = "reading" /\ k \in todo
    /\ Accepted(k) /\ Free(k, reports[k].day) # {}
    /\ LET s == NameFor(k, reports[k].day) IN
         /\ ~Exists(s)
         /\ pages' = [pages EXCEPT ![s] = [key |-> k, text |-> "torn"]]
         /\ at' = s
    /\ todo' = todo \ {k}
    /\ step' = "writing"
    /\ UNCHANGED <<day, reports, listed, logged, loose, routed, pass, side, troubles>>

(* ... and then its text written, the part with the url line first.        *)
Writes ==
    /\ step = "writing"
    /\ pages' = [pages EXCEPT ![at].text = IF @ = "torn" THEN "cut" ELSE "whole"]
    /\ step' = IF pages[at].text = "torn" THEN "writing" ELSE "linting"
    /\ UNCHANGED <<day, reports, listed, logged, loose, todo, routed, at, pass, side,
                   troubles>>

(* OSError, or bin/lint.sh past its timeout: neither removes the page.     *)
LeavesPage ==
    /\ step \in {"writing", "linting"}
    /\ Trouble
    /\ step' = "reading" /\ at' = None
    /\ UNCHANGED <<day, reports, files, todo, routed, pass, side>>

LintsClean ==
    /\ step = "linting" /\ pages[at].key \notin Red
    /\ routed' = routed \cup {at}
    /\ step' = "reading" /\ at' = None
    /\ UNCHANGED <<day, reports, files, todo, pass, side, troubles>>

(* Red, or a lint that exits with another code: the page is removed.       *)
LintRefuses ==
    /\ step = "linting"
    /\ \/ pages[at].key \in Red /\ UNCHANGED troubles
       \/ Trouble
    /\ pages' = [pages EXCEPT ![at] = None]
    /\ step' = "reading" /\ at' = None
    /\ UNCHANGED <<day, reports, listed, logged, loose, todo, routed, pass, side>>

(* bin/index.sh lists every page there is, when a routed one is not listed.*)
Indexes ==
    /\ step = "reading" /\ todo = {} /\ routed # {}
    /\ listed' = IF routed \subseteq listed THEN listed ELSE {s \in Stems : Exists(s)}
    /\ step' = "logging"
    /\ UNCHANGED <<day, reports, pages, logged, loose, todo, routed, at, pass, side,
                   troubles>>

IndexFails ==
    /\ step = "reading" /\ todo = {} /\ ~(routed \subseteq listed)
    /\ Trouble
    /\ step' = "idle" /\ routed' = {}
    /\ UNCHANGED <<day, reports, files, todo, at, pass, side>>

LinkedInCommits(s) == logged[s] > 0 /\ ~loose

(* linked_from_a_log *)
Linked(s) == logged[s] > 0

Skips(s) ==
    /\ step = "logging" /\ s \in routed /\ Linked(s)
    /\ routed' = routed \ {s}
    /\ UNCHANGED <<day, reports, files, step, todo, at, pass, side, troubles>>

(* bin/log.sh appends the line and commits it; its commit may fail, which  *)
(* leaves the line for memory-sync.                                        *)
Logs(s) ==
    /\ step = "logging" /\ s \in routed /\ ~Linked(s)
    /\ logged' = [logged EXCEPT ![s] = @ + 1]
    /\ loose' \in {loose, TRUE}
    /\ routed' = routed \ {s}
    /\ UNCHANGED <<day, reports, pages, listed, step, todo, at, pass, side, troubles>>

LogRefuses(s) ==
    /\ step = "logging" /\ s \in routed /\ ~Linked(s)
    /\ Trouble
    /\ routed' = routed \ {s}
    /\ UNCHANGED <<day, reports, files, step, todo, at, pass, side>>

Ends ==
    /\ \/ step = "reading" /\ todo = {} /\ routed = {}
       \/ step = "logging" /\ routed = {}
    /\ step' = "idle"
    /\ UNCHANGED <<day, reports, files, todo, routed, at, pass, side, troubles>>

(* The unit's time limit, a restart of the host.  log.sh may be done with  *)
(* its line by then, or not.                                               *)
Killed ==
    /\ step # "idle"
    /\ Trouble
    /\ \/ UNCHANGED <<logged, loose>>
       \/ \E s \in routed :
            /\ step = "logging" /\ ~Linked(s)
            /\ logged' = [logged EXCEPT ![s] = @ + 1]
            /\ loose' = TRUE
    /\ step' = "idle" /\ todo' = {} /\ routed' = {} /\ at' = None
    /\ UNCHANGED <<day, reports, pages, listed, pass, side>>

RunStep ==
    \/ \E k \in Keys : Passes(k) \/ OnFile(k) \/ Creates(k)
    \/ Writes \/ LeavesPage \/ LintsClean \/ LintRefuses
    \/ Indexes \/ IndexFails
    \/ \E s \in Stems : Skips(s) \/ Logs(s) \/ LogRefuses(s)
    \/ Ends

Next ==
    \/ \E k \in Keys, v \in Verdicts : Judged(k, v)
    \/ NextDay
    \/ PassBegins \/ PassEnds
    \/ SyncBegins \/ SyncMoves \/ SyncEnds
    \/ Begins \/ RunStep \/ Killed

Spec == Init /\ [][Next]_vars

(* The timer comes every hour, and the pass is weekly and holds its lock   *)
(* for an hour at most: again and again a run finds it gone.               *)
FairSpec == Spec /\ WF_vars(RunStep) /\ SF_vars(Begins) /\ WF_vars(PassEnds)

-----------------------------------------------------------------------------
(* Properties *)

TypeOK ==
    /\ day \in Days
    /\ reports \in [Keys -> [verdict : Verdicts, day : Days] \cup {None}]
    /\ pages \in [Stems -> [key : Keys, text : {"torn", "cut", "whole"}] \cup {None}]
    /\ listed \subseteq Stems
    /\ logged \in [Stems -> Nat]
    /\ loose \in BOOLEAN /\ pass \in BOOLEAN
    /\ step \in {"idle", "reading", "writing", "linting", "logging"}
    /\ todo \subseteq Keys /\ routed \subseteq Stems
    /\ at \in Stems \cup {None}
    /\ side \in [Stems -> Nat] \cup {None}
    /\ troubles \in 0..MaxTroubles

(* Whatever a log or the index links is there, and under the name of its   *)
(* own key; and a report has one page that names its source, however often *)
(* runs were cut short and whatever other key shares its slug.             *)
PagesAreSound ==
    /\ \A s \in Stems : Linked(s) => Exists(s) /\ pages[s].text # "torn"
    /\ \A s \in listed : Exists(s)
    /\ \A s \in Stems : Exists(s) => /\ s.slug = SlugOf[pages[s].key]
                                       /\ s.hash \in {pages[s].key, None}
    /\ \A k \in Keys, d \in Days :
         Cardinality({n \in 1..2 : NamesSource(Candidates(k, d)[n], k)}) <= 1

(* "nothing is written twice": a page has one log line, although log.sh    *)
(* can fail after it appended, the run can die there, and memory-sync can  *)
(* take the line back.                                                     *)
LoggedOnce == \A s \in Stems : logged[s] <= 1

OnRecord(k, d) ==
    \E n \in 1..2 : LET s == Candidates(k, d)[n] IN
        NamesSource(s, k) /\ s \in listed /\ Linked(s)

(* "a run that stopped half-way is completed by the next one": an accepted *)
(* report gets its page, its index line and its log line, unless the lint  *)
(* refuses the page, other pages hold both its names (the unit fails each  *)
(* hour), or the item is judged anew.                                      *)
AcceptedReachesVault ==
    \A k \in Keys \ Red, d \in Days :
        reports[k] = [verdict |-> "accept", day |-> d]
            ~> \/ OnRecord(k, d)
               \/ reports[k] # [verdict |-> "accept", day |-> d]
               \/ Free(k, d) = {}
=============================================================================
