------------------------------- MODULE Intake -------------------------------
(***************************************************************************)
(* skills/video-eval/video.py, the intake: an item is filed (enqueue,      *)
(* ingest, voice, the drop door), fetched and transcribed by its queued    *)
(* run, judged, and kept as one report file and one row of the index; or,  *)
(* a link, a repo, an idea or a note, filed directly by a producer that    *)
(* has judged it.  The index is read without its lock and appended to      *)
(* under it, several commands run at once, and any of them can be killed.  *)
(* The queue itself is JobQueue.tla; here it does what Worklist.tla, which *)
(* it implements, lets it.  What a fetch can come to is in Fetch.tla, what *)
(* a report has to be in Rubric.tla.                                       *)
(***************************************************************************)
EXTENDS Fetch, Rubric

CONSTANTS
    Links,      \* items a job is queued for: a link, or a file dropped here
    Files,      \* the ones queued with a file that waits in inbox/
    Directs,    \* items a producer files with its own judgment
    UrlOf,      \* the item a link is once resolved (a share link is a reel)
    TitleOf,    \* the normalized title an item comes with; NoTitle when it has
                \* none (a file, a note), and its row the judge's wording
    NoTitle,
    None,
    MaxRubric,  \* bound of the model: the newest version of rubric.md
    Workers     \* commands of video.py that run at the same time

Items == Links \cup Directs \cup {UrlOf[i] : i \in Links}

ASSUME IntakeAssumption ==
    /\ Files \subseteq Links
    /\ DOMAIN UrlOf = Links
    /\ DOMAIN TitleOf = Items
    /\ Links \cap Directs = {} /\ None \notin Items
    /\ MaxRubric \in Nat \ {0}

VARIABLES
    job,      \* the queue's record of each link
    saved,    \* the links whose transcript is kept
    waiting,  \* the files that wait in inbox/
    run,      \* the queue's run of a job, as far as it has got
    reports,  \* the reports on disk: of an item, under a version of the rubric
    rows,     \* index.md
    work,     \* what each command is in the middle of
    rubric    \* the deployed version of rubric.md

intakeVars == <<job, saved, waiting, run, reports, rows, work, rubric>>

NoRun == [item |-> None, step |-> "none", rubric |-> 0]
Idle == [step |-> "idle"]

IntakeInit ==
    /\ job = [i \in Links |-> "none"]
    /\ saved = {} /\ waiting = {}
    /\ run = NoRun
    /\ reports = {}
    /\ rows = <<>>
    /\ work = [w \in Workers |-> Idle]
    /\ rubric = 1

-----------------------------------------------------------------------------
(* The queue *)

(* A job that is closed ended without a judgment, as done (unavailable) or *)
(* as failed (given up): what may follow is the same.                      *)
Queue == INSTANCE Worklist WITH
    Jobs <- Links,
    status <- [i \in Links |-> CASE job[i] = "none" -> "absent"
                                 [] job[i] = "judged" -> "done"
                                 [] job[i] = "closed" -> "failed"
                                 [] OTHER -> job[i]],
    working <- IF run = NoRun THEN {} ELSE {run.item}

(* What is said of a job that is gone by then is kept nowhere.             *)
Recorded(i, state) == IF job[i] = "none" THEN job ELSE [job EXCEPT ![i] = state]

-----------------------------------------------------------------------------
(* The index *)

(* earlier: the first row for the same item, by its source, else its title.*)
Matches(row, i, title) ==
    \/ row.source = i
    \/ title # NoTitle /\ row.title = title

Found(i, title) == {k \in DOMAIN rows : Matches(rows[k], i, title)}

Earlier(i, title) ==
    rows[CHOOSE k \in Found(i, title) : \A l \in Found(i, title) : k <= l]

Indexed(i) == \E k \in DOMAIN rows : rows[k].source = i

(* append_row: under the lock, and only what the index does not have of    *)
(* this source under this version of the rubric.                           *)
AppendedBlind(row) == Append(rows, row)

Appended(row) ==
    IF \E k \in DOMAIN rows : rows[k].source = row.source /\ rows[k].rubric = row.rubric
    THEN rows ELSE Append(rows, row)

NoVerdict == "none"

Judgment(i, title, verdict) ==
    [source |-> i, title |-> title, report |-> [of |-> i, rubric |-> rubric],
     verdict |-> verdict, quotes |-> NoVerdict, rubric |-> rubric]

(* The same item from another source: a row of its own with the earlier    *)
(* row's title and report, a drop "same as" the earlier verdict.           *)
RepeatUnchanged(i, row, version) == row

Repeat(i, row, version) ==
    [source |-> i, title |-> row.title, report |-> row.report, verdict |-> "drop",
     quotes |-> row.verdict, rubric |-> version]

-----------------------------------------------------------------------------
(* Filing a link or a file *)

(* _file_job: nothing is queued for an item the index has under its link.  *)
(* A dropped file is kept before the index is read.                        *)
FilesItem(w, i) ==
    /\ work[w] = Idle
    /\ IF Indexed(i)
       THEN /\ waiting' = waiting \ {i}
            /\ UNCHANGED work
       ELSE /\ waiting' = waiting \cup ({i} \cap Files)
            /\ work' = [work EXCEPT ![w] = [step |-> "adding", item |-> i]]
    /\ UNCHANGED <<job, saved, run, reports, rows, rubric>>

Adds(w) ==
    /\ work[w].step = "adding"
    /\ LET i == work[w].item IN
         job' = IF Queue!MayAsk(i) THEN [job EXCEPT ![i] = "queued"] ELSE job
    /\ work' = [work EXCEPT ![w] = Idle]
    /\ UNCHANGED <<saved, waiting, run, reports, rows, rubric>>

-----------------------------------------------------------------------------
(* The queued run *)

(* A job is started while no other is worked on, or again when its run is  *)
(* lost or its report was never filed; in the end the queue gives it up.   *)
(* Each run first prunes what was kept longer than the retention.          *)
Starts(i) ==
    /\ Queue!MayHand(i)
    /\ job' = [job EXCEPT ![i] = "running"]
    /\ run' = [item |-> i, step |-> "fetching", rubric |-> rubric]
    /\ saved' \in SUBSET saved /\ waiting' \in SUBSET waiting
    /\ UNCHANGED <<reports, rows, work, rubric>>

GivesUp(i) ==
    /\ Queue!MayGiveUp(i)
    /\ job' = [job EXCEPT ![i] = "closed"]
    /\ UNCHANGED <<saved, waiting, run, reports, rows, work, rubric>>

(* Cancelled before it runs, or ended two weeks ago.                       *)
Forgotten(i) ==
    /\ Queue!MayForget(i)
    /\ job' = [job EXCEPT ![i] = "none"]
    /\ UNCHANGED <<saved, waiting, run, reports, rows, work, rubric>>

Fetched(i) ==
    UNION {Gathered[s] : s \in IF i \in Files THEN {"file"}
                              ELSE IF UrlOf[i] # i THEN {"share"} ELSE {"youtube", "reel"}}

(* A waiting file is removed, and then the transcript is kept.             *)
Gathers ==
    /\ run.step = "fetching"
    /\ LET i == run.item IN
         /\ i \notin saved /\ (i \in Files => i \in waiting)
         /\ "material" \in Fetched(i)
         /\ waiting' = waiting \ {i}
    /\ run' = [run EXCEPT !.step = "gathered"]
    /\ UNCHANGED <<job, saved, reports, rows, work, rubric>>

Keeps ==
    /\ run.step = "gathered"
    /\ saved' = saved \cup {run.item}
    /\ run' = [run EXCEPT !.step = "material"]
    /\ UNCHANGED <<job, waiting, reports, rows, work, rubric>>

(* The transcript of an earlier attempt.                                   *)
KeptAlready ==
    /\ run.step = "fetching" /\ run.item \in saved
    /\ run' = [run EXCEPT !.step = "material"]
    /\ UNCHANGED <<job, saved, waiting, reports, rows, work, rubric>>

(* "unavailable": a normal answer, and the end of the job.                 *)
Unavailable ==
    /\ run.step = "fetching"
    /\ LET i == run.item IN
         /\ i \notin saved /\ (i \in Files => i \in waiting)
         /\ "unavailable" \in Fetched(i)
         /\ job' = Recorded(i, "closed")
         /\ waiting' = waiting \ {i}
    /\ run' = NoRun
    /\ UNCHANGED <<saved, reports, rows, work, rubric>>

(* An error (the waiting file gone is one): released, unless it no longer  *)
(* runs, or retried, and in the end given up, which also removes the       *)
(* waiting file.                                                           *)
RunFails ==
    /\ run.step = "fetching" /\ run.item \notin saved
    /\ LET i == run.item IN
         \/ job' = Recorded(i, "queued") /\ UNCHANGED waiting
         \/ job[i] # "running" /\ UNCHANGED <<job, waiting>>
         \/ job' = Recorded(i, "closed") /\ waiting' = waiting \ {i}
    /\ run' = NoRun
    /\ UNCHANGED <<saved, reports, rows, work, rubric>>

(* The material is printed for the judge; the job goes on running.         *)
Hands ==
    /\ run.step = "material" /\ Found(UrlOf[run.item], TitleOf[run.item]) = {}
    /\ run' = NoRun
    /\ UNCHANGED <<job, saved, waiting, reports, rows, work, rubric>>

(* A repeat is answered with the earlier verdict; from another source it   *)
(* gets a row first (what the run found first stays first).                *)
Repeats ==
    /\ run.step = "material" /\ Found(UrlOf[run.item], TitleOf[run.item]) # {}
    /\ LET url == UrlOf[run.item]
           row == Earlier(url, TitleOf[run.item])
       IN rows' = IF row.source = url THEN rows ELSE Appended(Repeat(url, row, run.rubric))
    /\ run' = [run EXCEPT !.step = "repeated"]
    /\ UNCHANGED <<job, saved, waiting, reports, work, rubric>>

EndsRepeat ==
    /\ run.step = "repeated"
    /\ job' = Recorded(run.item, "judged")
    /\ run' = NoRun
    /\ UNCHANGED <<saved, waiting, reports, rows, work, rubric>>

-----------------------------------------------------------------------------
(* The judgment *)

(* file_report on a running job; a report that breaks the rubric changes   *)
(* nothing.                                                                *)
Judges(w, i, r) ==
    /\ work[w] = Idle /\ job[i] = "running" /\ Follows(r)
    /\ work' = [work EXCEPT ![w] =
                   [step |-> "judging", item |-> i, verdict |-> r.verdict]]
    /\ UNCHANGED <<job, saved, waiting, run, reports, rows, rubric>>

(* The report is cut to the rubric's cap, never in its verdict, stamped,   *)
(* and replaces the file as a whole.                                       *)
Writes(w, i, row) ==
    /\ reports' = reports \cup {row.report}
    /\ work' = [work EXCEPT ![w] = [step |-> "written", item |-> i, row |-> row]]

(* The source and title are the transcript's: once retention has taken it  *)
(* they are the job's own link and the judge's wording.                    *)
WritesReport(w) ==
    /\ work[w].step = "judging"
    /\ LET i == work[w].item IN
         Writes(w, i, IF i \in saved
                      THEN Judgment(UrlOf[i], TitleOf[i], work[w].verdict)
                      ELSE Judgment(i, NoTitle, work[w].verdict))
    /\ UNCHANGED <<job, saved, waiting, run, rows, rubric>>

(* _file_direct: the earlier verdict is the answer, from another source    *)
(* with a row of its own, or the judgment stands.  What was found first    *)
(* stays first, and nothing reads a report before its row, so the look and *)
(* what follows are one step, under the rubric of that moment.             *)
FilesDirect(w, i, r) ==
    /\ work[w] = Idle /\ Follows(r)
    /\ IF Found(i, TitleOf[i]) = {}
       THEN Writes(w, i, Judgment(i, TitleOf[i], r.verdict)) /\ UNCHANGED rows
       ELSE LET row == Earlier(i, TitleOf[i]) IN
            /\ rows' = IF row.source = i THEN rows ELSE Appended(Repeat(i, row, rubric))
            /\ UNCHANGED <<reports, work>>
    /\ UNCHANGED <<job, saved, waiting, run, rubric>>

(* Then its row is appended, unless the source has one under this version, *)
(* ...                                                                     *)
WritesRow(w) ==
    /\ work[w].step = "written"
    /\ rows' = Appended(work[w].row)
    /\ work' = [work EXCEPT ![w] =
          IF @.item \in Links THEN [step |-> "indexed", item |-> @.item] ELSE Idle]
    /\ UNCHANGED <<job, saved, waiting, run, reports, rubric>>

(* ... and the job is finished.                                            *)
FinishesJob(w) ==
    /\ work[w].step = "indexed"
    /\ job' = Recorded(work[w].item, "judged")
    /\ work' = [work EXCEPT ![w] = Idle]
    /\ UNCHANGED <<saved, waiting, run, reports, rows, rubric>>

-----------------------------------------------------------------------------
(* At any step, and as often as it happens.                                *)
Killed ==
    /\ \/ \E w \in Workers :
            /\ work[w] # Idle
            /\ work' = [work EXCEPT ![w] = Idle]
            /\ UNCHANGED run
       \/ run # NoRun /\ run' = NoRun /\ UNCHANGED work
    /\ UNCHANGED <<job, saved, waiting, reports, rows, rubric>>

(* A new version of the rubric is deployed; what runs has read the old one.*)
NewRubric ==
    /\ rubric < MaxRubric
    /\ rubric' = rubric + 1
    /\ UNCHANGED <<job, saved, waiting, run, reports, rows, work>>

RunStep ==
    \/ Gathers \/ Keeps \/ KeptAlready \/ Unavailable \/ RunFails
    \/ Hands \/ Repeats \/ EndsRepeat

CommandStep(w) ==
    Adds(w) \/ WritesReport(w) \/ WritesRow(w) \/ FinishesJob(w)

IntakeNext ==
    \/ \E w \in Workers : \/ \E i \in Links : FilesItem(w, i)
                          \/ \E i \in Links, r \in Submitted : Judges(w, i, r)
                          \/ \E i \in Directs, r \in Submitted : FilesDirect(w, i, r)
                          \/ CommandStep(w)
    \/ \E i \in Links : Starts(i) \/ GivesUp(i) \/ Forgotten(i)
    \/ RunStep
    \/ Killed
    \/ NewRubric

IntakeSpec == IntakeInit /\ [][IntakeNext]_intakeVars

-----------------------------------------------------------------------------
(* Properties *)

Titles == {TitleOf[i] : i \in Items} \cup {NoTitle}

Versions == 1..MaxRubric

OnDisk == [of : Items, rubric : Versions]

Rows ==
    [source : Items, title : Titles, report : OnDisk, verdict : Verdicts,
     quotes : Verdicts \cup {NoVerdict}, rubric : Versions]

Commands ==
    {Idle}
    \cup [step : {"adding", "indexed"}, item : Links]
    \cup [step : {"judging"}, item : Links, verdict : Verdicts]
    \cup [step : {"written"}, item : Items, row : Rows]

TypeOK ==
    /\ job \in [Links -> {"none", "queued", "running", "judged", "closed"}]
    /\ saved \subseteq Links /\ waiting \subseteq Files
    /\ run \in [item : Links, step : {"fetching", "gathered", "material", "repeated"},
               rubric : Versions] \cup {NoRun}
    /\ reports \subseteq OnDisk
    /\ rows \in Seq(Rows)
    /\ work \in [Workers -> Commands]
    /\ rubric \in Versions

(* However the commands overlap between the look at the index and the      *)
(* append, and whichever of them dies: a source has one row under a        *)
(* version of the rubric ...                                               *)
OneRowEach ==
    \A k, l \in DOMAIN rows :
        rows[k].source = rows[l].source /\ rows[k].rubric = rows[l].rubric => k = l

(* ... the report a row names is on disk ...                               *)
RowsHaveReports ==
    \A k \in DOMAIN rows : rows[k].report \in reports

(* ... and a row that repeats another source's verdict stands behind the   *)
(* row it names the report of, and quotes the verdict that was judged      *)
(* there, never the "drop" that another repeat of it says.                 *)
RepeatsPointBack ==
    \A k \in DOMAIN rows : rows[k].report.of # rows[k].source =>
        \E l \in 1..(k - 1) :
            /\ rows[l].source = rows[k].report.of
            /\ rows[l].report = rows[k].report
            /\ rows[k].quotes = rows[l].verdict

IndexIsSound == OneRowEach /\ RowsHaveReports /\ RepeatsPointBack

(* A job that ended with a verdict has a row, under its link or under what *)
(* the link resolved to: the item is a repeat from now on.                 *)
JudgedIsIndexed ==
    \A i \in Links : job[i] = "judged" => Indexed(i) \/ Indexed(UrlOf[i])
=============================================================================
