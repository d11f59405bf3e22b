---------------------------- MODULE Intake_proofs ----------------------------
(***************************************************************************)
(* The index of the intake stays sound, and what the queue calls judged is *)
(* in it, for any items, any number of overlapping commands and any deaths *)
(* of commands and runs.  The index alone is not inductive: a command that *)
(* looked at it before another appended to it must hold a row that is      *)
(* still good to append (CommandsSound), a run that is about to end its    *)
(* job as a repeat must have a row behind it (RunSound), and a repeat has  *)
(* the title of the row it repeats (RowsBacked), which therefore is found  *)
(* before it: no repeat is ever repeated.                                  *)
(***************************************************************************)
EXTENDS Intake, WellFoundedInduction, TLAPS

-----------------------------------------------------------------------------
(* The inductive invariant *)

InIndex(i, rs) == \E k \in DOMAIN rs : rs[k].source = i

IsRepeat(row) == row.report.of # row.source

(* The judgment a repeat stands behind.                                    *)
JudgedFor(judgment, row) ==
    /\ judgment.source = row.report.of /\ ~IsRepeat(judgment)
    /\ judgment.report = row.report
    /\ judgment.title = row.title /\ judgment.verdict = row.quotes

Backed(row, rs) ==
    /\ row.title # NoTitle
    /\ \E k \in DOMAIN rs : JudgedFor(rs[k], row)

RowsBacked ==
    \A k \in DOMAIN rows : IsRepeat(rows[k]) =>
        /\ rows[k].title # NoTitle
        /\ \E l \in 1..(k - 1) : JudgedFor(rows[l], rows[k])

CommandSound(c, rs, files) ==
    /\ c.step = "written" =>
         /\ ~IsRepeat(c.row) /\ c.row.report \in files
         /\ c.item \in Links => c.row.source \in {c.item, UrlOf[c.item]}
    /\ c.step = "indexed" => InIndex(c.item, rs) \/ InIndex(UrlOf[c.item], rs)

CommandsSound == \A w \in Workers : CommandSound(work[w], rows, reports)

RunSound == run.step = "repeated" => InIndex(UrlOf[run.item], rows)

IInv ==
    /\ TypeOK
    /\ CommandsSound
    /\ RunSound
    /\ IndexIsSound
    /\ RowsBacked
    /\ JudgedIsIndexed

-----------------------------------------------------------------------------
(* The index *)

(* A set of numbers that has a member has a least one.                     *)
LEMMA NatsHaveLeast ==
    ASSUME NEW S \in SUBSET Nat, S # {}
    PROVE  \E k \in S : \A l \in S : k <= l
  <1>1. IsWellFoundedOn(OpToRel(<, Nat), Nat)
    BY NatLessThanWellFounded
  <1>2. PICK k \in S : \A l \in S : ~(<<l, k>> \in OpToRel(<, Nat))
    BY <1>1, WFMin
  <1>3. \A l \in S : ~(l < k)
    BY <1>2 DEF OpToRel
  <1> QED
    BY <1>3

(* earlier, when it finds anything, returns a row of the index, the first  *)
(* that matches.                                                           *)
LEMMA EarlierIsARow ==
    ASSUME rows \in Seq(Rows), NEW i, NEW title, Found(i, title) # {}
    PROVE  \E k \in Found(i, title) :
              /\ k \in DOMAIN rows /\ Earlier(i, title) = rows[k]
              /\ \A l \in Found(i, title) : k <= l
  <1>1. Found(i, title) \in SUBSET DOMAIN rows /\ DOMAIN rows \in SUBSET Nat
    BY DEF Found
  <1>2. \E k \in Found(i, title) : \A l \in Found(i, title) : k <= l
    BY <1>1, NatsHaveLeast
  <1> DEFINE k == CHOOSE k \in Found(i, title) : \A l \in Found(i, title) : k <= l
  <1>3. k \in Found(i, title) /\ \A l \in Found(i, title) : k <= l
    BY <1>2
  <1>4. Earlier(i, title) = rows[k]
    BY DEF Earlier
  <1> QED
    BY <1>1, <1>3, <1>4

(* What earlier returns has its report on disk and, when it is the row of  *)
(* another source, is a judgment and no repeat: the repeat's title is that *)
(* of the row it repeats, which comes first.                               *)
LEMMA EarlierCanBeRepeated ==
    ASSUME rows \in Seq(Rows), IndexIsSound, RowsBacked,
           NEW i \in Items, NEW title, Found(i, title) # {}, NEW version \in Versions,
           NEW row, row = Earlier(i, title), row.source # i
    PROVE  /\ Repeat(i, row, version) \in Rows
           /\ Repeat(i, row, version).report \in reports
           /\ Backed(Repeat(i, row, version), rows)
  <1>1. PICK k \in Found(i, title) :
              /\ k \in DOMAIN rows /\ row = rows[k]
              /\ \A l \in Found(i, title) : k <= l
    BY EarlierIsARow
  <1>2. title # NoTitle /\ rows[k].title = title
    BY <1>1 DEF Found, Matches
  <1>3. rows[k] \in Rows /\ rows[k].report \in reports
    BY <1>1 DEF IndexIsSound, RowsHaveReports
  <1>4. ~IsRepeat(rows[k])
    <2> SUFFICES ASSUME IsRepeat(rows[k])
                 PROVE  FALSE
      OBVIOUS
    <2>1. PICK l \in 1..(k - 1) : rows[l].title = rows[k].title
      BY <1>1 DEF RowsBacked, JudgedFor
    <2>2. k \in 1..Len(rows) /\ Len(rows) \in Nat
      BY <1>1
    <2>3. l \in DOMAIN rows /\ l < k
      BY <2>1, <2>2
    <2>4. l \in Found(i, title)
      BY <1>2, <2>1, <2>3 DEF Found, Matches
    <2> QED
      BY <1>1, <2>2, <2>3, <2>4
  <1>5. Repeat(i, row, version) \in Rows
    BY <1>1, <1>3 DEF Repeat, Rows, Verdicts
  <1>6. Backed(Repeat(i, row, version), rows)
    BY <1>1, <1>2, <1>4 DEF Backed, JudgedFor, Repeat, IsRepeat
  <1> QED
    BY <1>1, <1>3, <1>5, <1>6 DEF Repeat

RowsKept == \A k \in DOMAIN rows : k \in DOMAIN rows' /\ rows'[k] = rows[k]

(* What was said of the index while it had fewer rows is still true.       *)
LEMMA KeptRows ==
    ASSUME RowsKept
    PROVE  /\ \A i : InIndex(i, rows) => InIndex(i, rows')
           /\ \A row : Backed(row, rows) => Backed(row, rows')
  BY DEF RowsKept, InIndex, Backed

(* append_row keeps the index sound, whatever was appended since its       *)
(* caller last looked: it needs the report on disk, and for a repeat the   *)
(* other source's row, which stays.                                        *)
LEMMA AppendIsSound ==
    ASSUME rows \in Seq(Rows), IndexIsSound, RowsBacked,
           NEW row \in Rows, row.report \in reports,
           IsRepeat(row) => Backed(row, rows),
           rows' = Appended(row), reports' = reports
    PROVE  /\ rows' \in Seq(Rows)
           /\ IndexIsSound' /\ RowsBacked'
           /\ InIndex(row.source, rows')
           /\ RowsKept
  <1> DEFINE Same(k) == rows[k].source = row.source /\ rows[k].rubric = row.rubric
  <1>1. CASE \E k \in DOMAIN rows : Same(k)
    <2>1. rows' = rows
      BY <1>1 DEF Appended
    <2> QED
      BY <1>1, <2>1 DEF InIndex, IndexIsSound, OneRowEach, RowsHaveReports,
                        RepeatsPointBack, RowsBacked, RowsKept
  <1>2. CASE ~\E k \in DOMAIN rows : Same(k)
    <2> DEFINE n == Len(rows)
    <2>1. rows' = Append(rows, row)
      BY <1>2 DEF Appended
    <2>2. /\ rows' \in Seq(Rows) /\ n \in Nat
          /\ DOMAIN rows = 1..n /\ DOMAIN rows' = 1..(n + 1)
          /\ rows'[n + 1] = row
          /\ \A k \in 1..n : rows'[k] = rows[k]
      BY <2>1
    <2>3. \A k \in 1..n : ~Same(k)
      BY <1>2, <2>2
    <2>4. OneRowEach'
      <3> SUFFICES ASSUME NEW k \in 1..(n + 1), NEW l \in 1..(n + 1),
                          rows'[k].source = rows'[l].source,
                          rows'[k].rubric = rows'[l].rubric
                   PROVE  k = l
        BY <2>2 DEF OneRowEach
      <3>1. CASE k = n + 1 \/ l = n + 1
        BY <2>2, <2>3, <3>1
      <3>2. CASE k \in 1..n /\ l \in 1..n
        BY <2>2, <3>2 DEF IndexIsSound, OneRowEach
      <3> QED
        BY <2>2, <3>1, <3>2
    <2>5. RowsHaveReports'
      BY <2>2 DEF IndexIsSound, RowsHaveReports
    <2>6. RowsBacked'
      <3> SUFFICES ASSUME NEW k \in 1..(n + 1), IsRepeat(rows'[k])
                   PROVE  /\ rows'[k].title # NoTitle
                          /\ \E l \in 1..(k - 1) : JudgedFor(rows'[l], rows'[k])
        BY <2>2 DEF RowsBacked
      <3>1. CASE k = n + 1
        <4>1. row.title # NoTitle /\ \E l \in 1..n : JudgedFor(rows[l], row)
          BY <2>2, <3>1 DEF Backed
        <4>2. 1..(k - 1) = 1..n
          BY <2>2, <3>1
        <4> QED
          BY <2>2, <3>1, <4>1, <4>2
      <3>2. CASE k \in 1..n
        <4>1. /\ rows[k].title # NoTitle
              /\ \E l \in 1..(k - 1) : JudgedFor(rows[l], rows[k])
          BY <2>2, <3>2 DEF RowsBacked
        <4>2. \A l \in 1..(k - 1) : rows'[l] = rows[l]
          BY <2>2, <3>2
        <4> QED
          BY <2>2, <3>2, <4>1, <4>2
      <3> QED
        BY <2>2, <3>1, <3>2
    <2>7. RepeatsPointBack'
      BY <2>6 DEF RowsBacked, JudgedFor, RepeatsPointBack, IsRepeat
    <2>8. InIndex(row.source, rows') /\ RowsKept
      BY <2>2 DEF InIndex, RowsKept
    <2> QED
      BY <2>2, <2>4, <2>5, <2>6, <2>7, <2>8 DEF IndexIsSound
  <1> QED
    BY <1>1, <1>2

(* What the commands, the run and the queue rely on survives anything that *)
(* keeps the rows and the reports there are.                               *)
LEMMA RelianceStays ==
    ASSUME RowsKept, reports \subseteq reports'
    PROVE  \A c : CommandSound(c, rows, reports) => CommandSound(c, rows', reports')
  BY KeptRows DEF CommandSound

(* While the index and the reports stay as they are, so does what is said  *)
(* of them.                                                                *)
LEMMA IndexStays ==
    ASSUME IndexIsSound, RowsBacked, UNCHANGED <<rows, reports>>
    PROVE  /\ IndexIsSound' /\ RowsBacked'
           /\ \A i : InIndex(i, rows) <=> InIndex(i, rows')
           /\ \A c : CommandSound(c, rows, reports) <=> CommandSound(c, rows', reports')
  BY DEF IndexIsSound, OneRowEach, RowsHaveReports, RepeatsPointBack, RowsBacked, InIndex,
         Backed, CommandSound

-----------------------------------------------------------------------------
(* Type correctness *)

(* What a command is in the middle of, by its step.                        *)
LEMMA CommandShape ==
    ASSUME TypeOK, NEW w \in Workers
    PROVE  /\ work[w] \in Commands
           /\ work[w].step = "adding" => work[w].item \in Links
           /\ work[w].step = "judging" =>
                work[w] \in [step : {"judging"}, item : Links, verdict : Verdicts]
           /\ work[w].step = "written" =>
                work[w] \in [step : {"written"}, item : Items, row : Rows]
           /\ work[w].step = "indexed" =>
                work[w] \in [step : {"indexed"}, item : Links]
  <1>1. work[w] \in Commands
    BY DEF TypeOK
  <1> QED
    BY <1>1 DEF Commands, Idle

(* What the queue's run of a job is.                                       *)
Running ==
    [item : Links, step : {"fetching", "gathered", "material", "repeated"}, rubric : Versions]

LEMMA RunShape ==
    ASSUME TypeOK, run.step # "none"
    PROVE  /\ run.item \in Links
           /\ run \in Running /\ run.rubric \in Versions
           /\ UrlOf[run.item] \in Items /\ TitleOf[run.item] \in Titles
  <1>1. run \in Running
    BY DEF TypeOK, NoRun, Running
  <1> QED
    BY <1>1, IntakeAssumption DEF Items, Titles, Running

(* A repeat of a row is a row, and a judgment is one.                      *)
LEMMA EarlierRepeats ==
    ASSUME rows \in Seq(Rows), NEW i \in Items, NEW title, Found(i, title) # {},
           NEW version \in Versions
    PROVE  /\ Earlier(i, title) \in Rows
           /\ Repeat(i, Earlier(i, title), version) \in Rows
  <1>1. PICK k \in DOMAIN rows : Earlier(i, title) = rows[k]
    BY EarlierIsARow
  <1>2. Earlier(i, title) \in Rows
    BY <1>1
  <1> QED
    BY <1>2 DEF Rows, Repeat, Verdicts

(* What is judged under the deployed rubric is a row with its own report.  *)
LEMMA JudgmentIsARow ==
    ASSUME NEW i \in Items, NEW title \in Titles, NEW verdict \in Verdicts,
           rubric \in Versions
    PROVE  /\ Judgment(i, title, verdict) \in Rows
           /\ Judgment(i, title, verdict).report \in OnDisk
           /\ Judgment(i, title, verdict).source = i
           /\ ~IsRepeat(Judgment(i, title, verdict))
  BY DEF Judgment, Rows, OnDisk, IsRepeat

LEMMA AppendTyped ==
    ASSUME rows \in Seq(Rows), NEW row \in Rows
    PROVE  Appended(row) \in Seq(Rows)
  BY DEF Appended

LEMMA TypeInit ==
    IntakeInit => TypeOK
  BY IntakeAssumption DEF IntakeInit, TypeOK, Commands, Versions

LEMMA TypeStep ==
    TypeOK /\ [IntakeNext]_intakeVars => TypeOK'
  <1> SUFFICES ASSUME TypeOK, [IntakeNext]_intakeVars
               PROVE  TypeOK'
    OBVIOUS
  <1> USE IntakeAssumption
  <1> DEFINE Statuses == {"none", "queued", "running", "judged", "closed"}
  <1>0. /\ job \in [Links -> Statuses]
        /\ saved \subseteq Links /\ waiting \subseteq Files /\ Files \subseteq Links
        /\ reports \subseteq OnDisk /\ rows \in Seq(Rows)
        /\ work \in [Workers -> Commands] /\ rubric \in Versions
    BY DEF TypeOK
  <1>w. ASSUME NEW w \in Workers, NEW c \in Commands
        PROVE  [work EXCEPT ![w] = c] \in [Workers -> Commands]
    BY <1>0
  <1>j. ASSUME NEW i, NEW v \in Statuses
        PROVE  [job EXCEPT ![i] = v] \in [Links -> Statuses]
    BY <1>0
  <1>r. ASSUME NEW i, NEW v \in Statuses
        PROVE  Recorded(i, v) \in [Links -> Statuses]
    BY <1>0, <1>j DEF Recorded
  <1>i. Idle \in Commands
    BY DEF Commands
  <1>1. ASSUME NEW w \in Workers, NEW i \in Links, FilesItem(w, i)
        PROVE  TypeOK'
    <2>1. [step |-> "adding", item |-> i] \in Commands
      BY DEF Commands
    <2>2. waiting' \subseteq Files /\ work' \in [Workers -> Commands]
      BY <1>0, <1>1, <1>w, <2>1 DEF FilesItem
    <2> QED
      BY <1>1, <2>2 DEF FilesItem, TypeOK
  <1>2. ASSUME NEW w \in Workers, NEW i \in Links, NEW r \in Submitted, Judges(w, i, r)
        PROVE  TypeOK'
    <2>1. [step |-> "judging", item |-> i, verdict |-> r.verdict] \in Commands
      BY <1>2 DEF Judges, Follows, VerdictHolds, Commands
    <2>2. work' \in [Workers -> Commands]
      BY <1>2, <1>w, <2>1 DEF Judges
    <2> QED
      BY <1>2, <2>2 DEF Judges, TypeOK
  <1>v. ASSUME NEW w \in Workers, NEW i \in Items, NEW row \in Rows, row.report \in OnDisk,
               Writes(w, i, row)
        PROVE  reports' \subseteq OnDisk /\ work' \in [Workers -> Commands]
    <2>1. [step |-> "written", item |-> i, row |-> row] \in Commands
      BY DEF Commands
    <2> QED
      BY <1>0, <1>v, <1>w, <2>1 DEF Writes
  <1>3. ASSUME NEW w \in Workers, NEW i \in Directs, NEW r \in Submitted, FilesDirect(w, i, r)
        PROVE  TypeOK'
    <2>1. i \in Items /\ TitleOf[i] \in Titles /\ r.verdict \in Verdicts
      BY <1>3 DEF Items, Titles, FilesDirect, Follows, VerdictHolds
    <2>2. CASE Found(i, TitleOf[i]) = {}
      <3> DEFINE row == Judgment(i, TitleOf[i], r.verdict)
      <3>1. row \in Rows /\ row.report \in OnDisk
        BY <1>0, <2>1, JudgmentIsARow
      <3>2. Writes(w, i, row) /\ rows' = rows
        BY <1>3, <2>2 DEF FilesDirect
      <3> HIDE DEF row
      <3>3. reports' \subseteq OnDisk /\ work' \in [Workers -> Commands]
        BY <1>v, <2>1, <3>1, <3>2
      <3> QED
        BY <1>3, <3>2, <3>3 DEF FilesDirect, TypeOK
    <2>3. CASE Found(i, TitleOf[i]) # {}
      <3> DEFINE row == Earlier(i, TitleOf[i])
      <3>1. Appended(Repeat(i, row, rubric)) \in Seq(Rows)
        BY <1>0, <2>1, <2>3, EarlierRepeats, AppendTyped
      <3>2. /\ rows' = IF row.source = i THEN rows ELSE Appended(Repeat(i, row, rubric))
            /\ UNCHANGED <<reports, work>>
        BY <1>3, <2>3 DEF FilesDirect
      <3>3. rows' \in Seq(Rows)
        BY <1>0, <3>1, <3>2
      <3> QED
        BY <1>3, <3>2, <3>3 DEF FilesDirect, TypeOK
    <2> QED
      BY <2>2, <2>3
  <1>4. ASSUME NEW w \in Workers, Adds(w)
        PROVE  TypeOK'
    <2>1. work' \in [Workers -> Commands]
      BY <1>4, <1>w, <1>i DEF Adds
    <2>2. job' \in [Links -> Statuses]
      BY <1>0, <1>4 DEF Adds
    <2> QED
      BY <1>4, <2>1, <2>2 DEF Adds, TypeOK
  <1>5. ASSUME NEW w \in Workers, WritesReport(w)
        PROVE  TypeOK'
    <2> DEFINE i == work[w].item
               url == IF i \in saved THEN UrlOf[i] ELSE i
               title == IF i \in saved THEN TitleOf[i] ELSE NoTitle
               row == Judgment(url, title, work[w].verdict)
    <2>1. i \in Links /\ work[w].verdict \in Verdicts
      BY <1>5, CommandShape DEF WritesReport
    <2>2. i \in Items /\ url \in Items /\ title \in Titles
      BY <2>1 DEF Items, Titles
    <2>3. row \in Rows /\ row.report \in OnDisk
      BY <1>0, <2>1, <2>2, JudgmentIsARow
    <2>4. Writes(w, i, row)
      BY <1>5 DEF WritesReport
    <2> HIDE DEF i, row
    <2>5. reports' \subseteq OnDisk /\ work' \in [Workers -> Commands]
      BY <1>v, <2>2, <2>3, <2>4
    <2> QED
      BY <1>5, <2>5 DEF WritesReport, TypeOK
  <1>6. ASSUME NEW w \in Workers, WritesRow(w)
        PROVE  TypeOK'
    <2>1. work[w] \in [step : {"written"}, item : Items, row : Rows]
      BY <1>6, CommandShape DEF WritesRow
    <2>2. work[w].item \in Links => [step |-> "indexed", item |-> work[w].item] \in Commands
      BY DEF Commands
    <2>3. work' \in [Workers -> Commands]
      BY <1>6, <1>w, <1>i, <2>2 DEF WritesRow
    <2>4. rows' \in Seq(Rows)
      BY <1>0, <1>6, <2>1, AppendTyped DEF WritesRow
    <2> QED
      BY <1>6, <2>3, <2>4 DEF WritesRow, TypeOK
  <1>7. ASSUME NEW w \in Workers, FinishesJob(w)
        PROVE  TypeOK'
    <2>1. work' \in [Workers -> Commands] /\ job' \in [Links -> Statuses]
      BY <1>7, <1>w, <1>i, <1>r DEF FinishesJob
    <2> QED
      BY <1>7, <2>1 DEF FinishesJob, TypeOK
  <1>8. ASSUME NEW i \in Links, Starts(i)
        PROVE  TypeOK'
    <2>1. job' \in [Links -> Statuses]
      BY <1>8, <1>j DEF Starts
    <2>2. run' \in Running
      BY <1>0, <1>8 DEF Starts, Running
    <2>3. saved' \subseteq Links /\ waiting' \subseteq Files
      BY <1>0, <1>8 DEF Starts
    <2> QED
      BY <1>8, <2>1, <2>2, <2>3 DEF Starts, TypeOK, Running
  <1>9. ASSUME NEW i \in Links, GivesUp(i) \/ Forgotten(i)
         PROVE  TypeOK'
    <2>1. job' \in [Links -> Statuses]
      BY <1>9, <1>j DEF GivesUp, Forgotten
    <2> QED
      BY <1>9, <2>1 DEF GivesUp, Forgotten, TypeOK
  <1>10. CASE RunStep
    <2>0. run.step # "none" => run.item \in Links
      BY RunShape
    <2>1. /\ saved' \subseteq Links
          /\ waiting' \subseteq Files
      BY <1>0, <1>10, <2>0 DEF RunStep, Gathers, Keeps, KeptAlready, Unavailable, RunFails,
                               Hands, Repeats, EndsRepeat
    <2>2. job' \in [Links -> Statuses]
      BY <1>0, <1>10, <1>r DEF RunStep, Gathers, Keeps, KeptAlready, Unavailable, RunFails,
                               Hands, Repeats, EndsRepeat
    <2>3. run' \in Running \cup {NoRun}
      BY <1>10, RunShape DEF Running, RunStep, Gathers, Keeps, KeptAlready, Unavailable, RunFails,
                               Hands, Repeats, EndsRepeat
    <2>4. rows' \in Seq(Rows)
      <3>1. CASE Repeats
        <4> DEFINE url == UrlOf[run.item]
                   row == Earlier(url, TitleOf[run.item])
        <4>1. /\ url \in Items /\ run.rubric \in Versions
              /\ Found(url, TitleOf[run.item]) # {}
          BY <3>1, RunShape DEF Repeats
        <4>2. Repeat(url, row, run.rubric) \in Rows
          BY <1>0, <4>1, EarlierRepeats
        <4>3. Appended(Repeat(url, row, run.rubric)) \in Seq(Rows)
          BY <1>0, <4>2, AppendTyped
        <4>4. rows' = IF row.source = url THEN rows
                      ELSE Appended(Repeat(url, row, run.rubric))
          BY <3>1 DEF Repeats
        <4> QED
          BY <1>0, <4>3, <4>4
      <3>2. CASE ~Repeats
        <4>1. rows' = rows
          BY <1>10, <3>2 DEF RunStep, Gathers, Keeps, KeptAlready, Unavailable, RunFails,
                               Hands, EndsRepeat
        <4> QED
          BY <1>0, <4>1
      <3> QED
        BY <3>1, <3>2
    <2>5. UNCHANGED <<reports, work, rubric>>
      BY <1>10 DEF RunStep, Gathers, Keeps, KeptAlready, Unavailable, RunFails,
                   Hands, Repeats, EndsRepeat
    <2> QED
      BY <1>0, <2>1, <2>2, <2>3, <2>4, <2>5 DEF TypeOK, Running
  <1>11. CASE Killed
    <2>1. work' \in [Workers -> Commands] /\ (run' = run \/ run' = NoRun)
      BY <1>0, <1>11, <1>w, <1>i DEF Killed
    <2> QED
      BY <1>11, <2>1 DEF Killed, TypeOK
  <1>12. CASE NewRubric
    <2>1. rubric' \in Versions
      BY <1>0, <1>12 DEF NewRubric, Versions
    <2> QED
      BY <1>12, <2>1 DEF NewRubric, TypeOK
  <1>13. CASE UNCHANGED intakeVars
    BY <1>13 DEF intakeVars, TypeOK
  <1> QED
    BY <1>1, <1>2, <1>3, <1>4, <1>5, <1>6, <1>7, <1>8, <1>9, <1>10, <1>11, <1>12, <1>13
    DEF IntakeNext, CommandStep

-----------------------------------------------------------------------------
(* Every step keeps the invariant *)

LEMMA IInvInit ==
    IntakeInit => IInv
  <1> SUFFICES ASSUME IntakeInit
               PROVE  IInv
    OBVIOUS
  <1>1. TypeOK
    BY TypeInit
  <1>2. CommandsSound /\ RunSound
    BY DEF IntakeInit, CommandsSound, CommandSound, RunSound, Idle, NoRun
  <1>3. IndexIsSound /\ RowsBacked
    BY DEF IntakeInit, IndexIsSound, OneRowEach, RowsHaveReports, RepeatsPointBack, RowsBacked
  <1>4. JudgedIsIndexed
    BY DEF IntakeInit, JudgedIsIndexed
  <1> QED
    BY <1>1, <1>2, <1>3, <1>4 DEF IInv

(* A step that writes neither the index nor a report has only its own      *)
(* command, run and job to answer for.                                     *)
LEMMA QuietStep ==
    ASSUME IInv, TypeOK', UNCHANGED <<rows, reports>>,
           \A w \in Workers : work'[w] = work[w] \/ CommandSound(work'[w], rows, reports),
           run' = run \/ run'.step # "repeated",
           \A i \in Links : job'[i] = job[i] \/ job'[i] # "judged"
                              \/ InIndex(i, rows) \/ InIndex(UrlOf[i], rows)
    PROVE  IInv'
  <1>1. /\ IndexIsSound' /\ RowsBacked'
        /\ \A i : InIndex(i, rows) <=> InIndex(i, rows')
        /\ \A c : CommandSound(c, rows, reports) <=> CommandSound(c, rows', reports')
    BY IndexStays DEF IInv
  <1>2. CommandsSound'
    BY <1>1 DEF IInv, CommandsSound
  <1>3. RunSound'
    BY <1>1 DEF IInv, RunSound
  <1>4. JudgedIsIndexed'
    BY <1>1 DEF IInv, JudgedIsIndexed, Indexed, InIndex
  <1> QED
    BY <1>1, <1>2, <1>3, <1>4 DEF IInv

(* A step that appends a row, or none, and leaves the jobs alone.          *)
LEMMA RowStep ==
    ASSUME IInv, TypeOK', IndexIsSound', RowsBacked', UNCHANGED <<job, reports>>, RowsKept,
           \A w \in Workers : work'[w] = work[w] \/ CommandSound(work'[w], rows', reports'),
           run' = run \/ RunSound'
    PROVE  IInv'
  <1>1. \A c : CommandSound(c, rows, reports) => CommandSound(c, rows', reports')
    BY RelianceStays
  <1>2. CommandsSound'
    BY <1>1 DEF IInv, CommandsSound
  <1>3. RunSound'
    BY KeptRows DEF IInv, RunSound
  <1>4. JudgedIsIndexed'
    BY KeptRows DEF IInv, JudgedIsIndexed, Indexed, InIndex
  <1> QED
    BY <1>2, <1>3, <1>4 DEF IInv

(* A report is written: nothing is said of it before its row.              *)
LEMMA WriteStep ==
    ASSUME IInv, TypeOK', NEW w \in Workers, NEW i, NEW row, Writes(w, i, row),
           UNCHANGED <<rows, job, run>>, ~IsRepeat(row),
           i \in Links => row.source \in {i, UrlOf[i]}
    PROVE  IInv'
  <1> DEFINE c == [step |-> "written", item |-> i, row |-> row]
  <1>1. /\ reports' = reports \cup {row.report}
        /\ work' = [work EXCEPT ![w] = c]
    BY DEF Writes
  <1>2. \A d : CommandSound(d, rows, reports) => CommandSound(d, rows', reports')
    BY <1>1, RelianceStays DEF RowsKept
  <1>3. CommandSound(c, rows', reports')
    BY <1>1 DEF CommandSound
  <1>4. \A v \in Workers : work'[v] = work[v] \/ work'[v] = c
    BY <1>1 DEF IInv, TypeOK
  <1>5. CommandsSound'
    BY <1>2, <1>3, <1>4 DEF IInv, CommandsSound
  <1>6. RunSound' /\ JudgedIsIndexed'
    BY DEF IInv, RunSound, JudgedIsIndexed, Indexed, InIndex
  <1>7. IndexIsSound' /\ RowsBacked'
    BY <1>1 DEF IInv, IndexIsSound, OneRowEach, RowsHaveReports, RepeatsPointBack, RowsBacked
  <1> QED
    BY <1>5, <1>6, <1>7 DEF IInv

LEMMA IdleIsSound == CommandSound(Idle, rows, reports)
  BY DEF CommandSound, Idle

LEMMA IInvStep ==
    IInv /\ [IntakeNext]_intakeVars => IInv'
  <1> SUFFICES ASSUME IInv, [IntakeNext]_intakeVars
               PROVE  IInv'
    OBVIOUS
  <1>0. /\ TypeOK /\ TypeOK' /\ IndexIsSound /\ RowsBacked
        /\ rows \in Seq(Rows) /\ work \in [Workers -> Commands] /\ job \in [Links -> {"none",
             "queued", "running", "judged", "closed"}]
        /\ work' \in [Workers -> Commands] /\ rubric \in Versions
    BY TypeStep DEF IInv, TypeOK
  <1>1. ASSUME NEW w \in Workers, NEW i \in Links, FilesItem(w, i)
        PROVE  IInv'
    <2>1. CommandSound([step |-> "adding", item |-> i], rows, reports)
      BY DEF CommandSound
    <2>2. \A v \in Workers : work'[v] = work[v] \/ CommandSound(work'[v], rows, reports)
      BY <1>0, <1>1, <2>1 DEF FilesItem
    <2>3. UNCHANGED <<rows, reports, run, job>>
      BY <1>1 DEF FilesItem
    <2> QED
      BY <1>0, <2>2, <2>3, QuietStep
  <1>2. ASSUME NEW w \in Workers, NEW i \in Links, NEW r \in Submitted, Judges(w, i, r)
        PROVE  IInv'
    <2>1. CommandSound([step |-> "judging", item |-> i, verdict |-> r.verdict], rows, reports)
      BY DEF CommandSound
    <2>2. \A v \in Workers : work'[v] = work[v] \/ CommandSound(work'[v], rows, reports)
      BY <1>0, <1>2, <2>1 DEF Judges
    <2>3. UNCHANGED <<rows, reports, run, job>>
      BY <1>2 DEF Judges
    <2> QED
      BY <1>0, <2>2, <2>3, QuietStep
  <1>3. ASSUME NEW w \in Workers, NEW i \in Directs, NEW r \in Submitted, FilesDirect(w, i, r)
        PROVE  IInv'
    <2> DEFINE title == TitleOf[i]
    <2>1. i \in Items /\ i \notin Links /\ title \in Titles /\ r.verdict \in Verdicts
      BY <1>3, IntakeAssumption DEF Items, Titles, FilesDirect, Follows, VerdictHolds
    <2>2. CASE Found(i, title) = {}
      <3> DEFINE row == Judgment(i, title, r.verdict)
      <3>1. ~IsRepeat(row)
        BY <1>0, <2>1, JudgmentIsARow
      <3>2. Writes(w, i, row) /\ UNCHANGED <<rows, job, run>>
        BY <1>3, <2>2 DEF FilesDirect
      <3> HIDE DEF row
      <3> QED
        BY <1>0, <2>1, <3>1, <3>2, WriteStep
    <2>3. CASE Found(i, title) # {}
      <3> DEFINE row == Earlier(i, title)
                 repeat == Repeat(i, row, rubric)
      <3>1. UNCHANGED <<job, run, reports, work>>
        BY <1>3, <2>3 DEF FilesDirect
      <3>2. CASE row.source = i
        <4>1. UNCHANGED rows
          BY <1>3, <2>3, <3>2 DEF FilesDirect
        <4> QED
          BY <1>0, <3>1, <4>1, QuietStep
      <3>3. CASE row.source # i
        <4>1. repeat \in Rows /\ repeat.report \in reports /\ Backed(repeat, rows)
          BY <1>0, <2>1, <2>3, <3>3, EarlierCanBeRepeated
        <4>2. rows' = Appended(repeat)
          BY <1>3, <2>3, <3>3 DEF FilesDirect
        <4> HIDE DEF repeat
        <4>3. IndexIsSound' /\ RowsBacked' /\ RowsKept
          BY <1>0, <3>1, <4>1, <4>2, AppendIsSound
        <4> QED
          BY <1>0, <3>1, <4>3, RowStep
      <3> QED
        BY <3>2, <3>3
    <2> QED
      BY <2>2, <2>3
  <1>4. ASSUME NEW w \in Workers, Adds(w)
        PROVE  IInv'
    <2>1. \A v \in Workers : work'[v] = work[v] \/ CommandSound(work'[v], rows, reports)
      BY <1>0, <1>4, IdleIsSound DEF Adds
    <2>2. \A i \in Links : job'[i] = job[i] \/ job'[i] # "judged"
      BY <1>0, <1>4 DEF Adds
    <2>3. UNCHANGED <<rows, reports, run>>
      BY <1>4 DEF Adds
    <2> QED
      BY <1>0, <2>1, <2>2, <2>3, QuietStep
  <1>5. ASSUME NEW w \in Workers, WritesReport(w)
        PROVE  IInv'
    <2> DEFINE i == work[w].item
               url == IF i \in saved THEN UrlOf[i] ELSE i
               title == IF i \in saved THEN TitleOf[i] ELSE NoTitle
               row == Judgment(url, title, work[w].verdict)
    <2>1. i \in Links /\ work[w].verdict \in Verdicts
      BY <1>0, <1>5, CommandShape DEF WritesReport
    <2>2. i \in Items /\ url \in Items /\ title \in Titles /\ url \in {i, UrlOf[i]}
      BY <2>1, IntakeAssumption DEF Items, Titles
    <2>3. ~IsRepeat(row) /\ row.source = url
      BY <1>0, <2>1, <2>2, JudgmentIsARow
    <2>4. Writes(w, i, row) /\ UNCHANGED <<rows, job, run>>
      BY <1>5 DEF WritesReport
    <2> HIDE DEF i, row
    <2> QED
      BY <1>0, <2>2, <2>3, <2>4, WriteStep
  <1>6. ASSUME NEW w \in Workers, WritesRow(w)
        PROVE  IInv'
    <2> DEFINE row == work[w].row
               i == work[w].item
               c == [step |-> "indexed", item |-> i]
    <2>1. /\ work[w] \in [step : {"written"}, item : Items, row : Rows]
          /\ CommandSound(work[w], rows, reports) /\ work[w].step = "written"
      BY <1>0, <1>6, CommandShape DEF WritesRow, IInv, CommandsSound
    <2>2. /\ row \in Rows /\ row.report \in reports /\ ~IsRepeat(row)
          /\ i \in Links => row.source \in {i, UrlOf[i]}
      BY <2>1 DEF CommandSound
    <2>3. /\ rows' = Appended(row) /\ UNCHANGED <<job, run, reports>>
          /\ work' = [work EXCEPT ![w] = IF i \in Links THEN c ELSE Idle]
      BY <1>6 DEF WritesRow
    <2>4. IndexIsSound' /\ RowsBacked' /\ InIndex(row.source, rows') /\ RowsKept
      BY <1>0, <2>2, <2>3, AppendIsSound
    <2>5. i \in Links => CommandSound(c, rows', reports')
      BY <2>2, <2>4 DEF CommandSound
    <2>6. CommandSound(Idle, rows', reports')
      BY DEF CommandSound, Idle
    <2>7. \A v \in Workers : work'[v] = work[v] \/ CommandSound(work'[v], rows', reports')
      BY <1>0, <2>3, <2>5, <2>6
    <2> QED
      BY <1>0, <2>3, <2>4, <2>7, RowStep
  <1>7. ASSUME NEW w \in Workers, FinishesJob(w)
        PROVE  IInv'
    <2> DEFINE i == work[w].item
    <2>1. CommandSound(work[w], rows, reports) /\ work[w].step = "indexed" /\ i \in Links
      BY <1>0, <1>7, CommandShape DEF FinishesJob, IInv, CommandsSound
    <2>2. InIndex(i, rows) \/ InIndex(UrlOf[i], rows)
      BY <2>1 DEF CommandSound
    <2>3. \A j \in Links : job'[j] = job[j] \/ job'[j] # "judged"
                             \/ InIndex(j, rows) \/ InIndex(UrlOf[j], rows)
      BY <1>0, <1>7, <2>2 DEF FinishesJob, Recorded
    <2>4. \A v \in Workers : work'[v] = work[v] \/ CommandSound(work'[v], rows, reports)
      BY <1>0, <1>7, IdleIsSound DEF FinishesJob
    <2>5. UNCHANGED <<rows, reports, run>>
      BY <1>7 DEF FinishesJob
    <2> QED
      BY <1>0, <2>3, <2>4, <2>5, QuietStep
  <1>8. ASSUME NEW i \in Links, Starts(i) \/ GivesUp(i) \/ Forgotten(i)
        PROVE  IInv'
    <2>1. \A j \in Links : job'[j] = job[j] \/ job'[j] # "judged"
      BY <1>0, <1>8 DEF Starts, GivesUp, Forgotten
    <2>2. UNCHANGED <<rows, reports, work>> /\ (run' = run \/ run'.step # "repeated")
      BY <1>8 DEF Starts, GivesUp, Forgotten
    <2> QED
      BY <1>0, <2>1, <2>2, QuietStep
  <1>9. CASE Gathers \/ Keeps \/ KeptAlready \/ Unavailable \/ RunFails \/ Hands
    <2>0. run.step # "none" => run \in Running
      BY <1>0, RunShape
    <2>1. \A j \in Links : job'[j] = job[j] \/ job'[j] # "judged"
      BY <1>0, <1>9 DEF Gathers, Keeps, KeptAlready, Unavailable, RunFails, Hands, Recorded
    <2>2. run' = run \/ run'.step # "repeated"
      BY <1>9, <2>0 DEF Running, Gathers, Keeps, KeptAlready, Unavailable, RunFails, Hands, NoRun
    <2>3. UNCHANGED <<rows, reports, work>>
      BY <1>9 DEF Gathers, Keeps, KeptAlready, Unavailable, RunFails, Hands
    <2> QED
      BY <1>0, <2>1, <2>2, <2>3, QuietStep
  <1>10. CASE Repeats
    <2> DEFINE url == UrlOf[run.item]
               title == TitleOf[run.item]
               row == Earlier(url, title)
    <2>1. /\ url \in Items /\ Found(url, title) # {}
          /\ run \in Running /\ run.rubric \in Versions
      BY <1>0, <1>10, RunShape DEF Repeats
    <2>2. PICK k \in DOMAIN rows : row = rows[k]
      BY <1>0, <2>1, EarlierIsARow
    <2>4. /\ rows' = IF row.source = url THEN rows
                     ELSE Appended(Repeat(url, row, run.rubric))
          /\ run' = [run EXCEPT !.step = "repeated"]
          /\ UNCHANGED <<job, reports, work>>
      BY <1>10 DEF Repeats
    <2>5. IndexIsSound' /\ RowsBacked' /\ InIndex(url, rows') /\ RowsKept
      <3>1. CASE row.source = url
        <4>1. rows' = rows /\ InIndex(url, rows)
          BY <2>2, <2>4, <3>1 DEF InIndex
        <4> QED
          BY <1>0, <2>4, <4>1, IndexStays DEF RowsKept
      <3>2. CASE row.source # url
        <4> DEFINE repeat == Repeat(url, row, run.rubric)
        <4>1. /\ repeat \in Rows /\ repeat.source = url
              /\ repeat.report \in reports /\ Backed(repeat, rows)
          BY <1>0, <2>1, <3>2, EarlierCanBeRepeated DEF Repeat
        <4>2. rows' = Appended(repeat) /\ reports' = reports
          BY <2>4, <3>2
        <4> HIDE DEF repeat
        <4>3. IndexIsSound' /\ RowsBacked' /\ InIndex(repeat.source, rows') /\ RowsKept
          BY <1>0, <4>1, <4>2, AppendIsSound
        <4> QED
          BY <4>1, <4>3
      <3> QED
        BY <3>1, <3>2
    <2>6. RunSound'
      <3>1. run'.item = run.item
        BY <2>1, <2>4 DEF Running
      <3> QED
        BY <2>5, <3>1 DEF RunSound
    <2> QED
      BY <1>0, <2>4, <2>5, <2>6, RowStep
  <1>11. CASE EndsRepeat
    <2>1. run.item \in Links /\ InIndex(UrlOf[run.item], rows)
      BY <1>0, <1>11, RunShape DEF EndsRepeat, IInv, RunSound
    <2>2. \A j \in Links : job'[j] = job[j] \/ InIndex(UrlOf[j], rows)
      BY <1>0, <1>11, <2>1 DEF EndsRepeat, Recorded
    <2>3. UNCHANGED <<rows, reports, work>> /\ run'.step # "repeated"
      BY <1>11 DEF EndsRepeat, NoRun
    <2> QED
      BY <1>0, <2>2, <2>3, QuietStep
  <1>12. CASE Killed
    <2>1. \A v \in Workers : work'[v] = work[v] \/ CommandSound(work'[v], rows, reports)
      BY <1>0, <1>12, IdleIsSound DEF Killed
    <2>2. UNCHANGED <<rows, reports, job>> /\ (run' = run \/ run'.step # "repeated")
      BY <1>12 DEF Killed, NoRun
    <2> QED
      BY <1>0, <2>1, <2>2, QuietStep
  <1>13. CASE NewRubric
    <2>1. UNCHANGED <<rows, reports, job, run, work>>
      BY <1>13 DEF NewRubric
    <2> QED
      BY <1>0, <2>1, QuietStep
  <1>14. CASE UNCHANGED intakeVars
    <2>1. UNCHANGED <<rows, reports, job, run, work>>
      BY <1>14 DEF intakeVars
    <2> QED
      BY <1>0, <2>1, QuietStep
  <1> QED
    BY <1>1, <1>2, <1>3, <1>4, <1>5, <1>6, <1>7, <1>8, <1>9, <1>10, <1>11, <1>12, <1>13, <1>14
    DEF IntakeNext, CommandStep, RunStep

LEMMA IInvAlways ==
    IntakeSpec => []IInv
  BY IInvInit, IInvStep, PTL DEF IntakeSpec

-----------------------------------------------------------------------------
(* The results *)

(* Every record, row and command in progress stays one the program can     *)
(* write (video.py: append_row, _file_job, file_report).                   *)
THEOREM Typing == IntakeSpec => []TypeOK
  BY IInvAlways, PTL DEF IInv

(* However commands overlap between the look at the index and the append,  *)
(* and whichever of them die: one row of a source under a version of the   *)
(* rubric, every row's report on disk, and every repeat behind the row it  *)
(* repeats (append_row, earlier).                                          *)
THEOREM TheIndexIsSound == IntakeSpec => []IndexIsSound
  BY IInvAlways, PTL DEF IInv

(* A job the queue calls judged is in the index, under its link or under   *)
(* what the link resolved to (file_report, run_job).                       *)
THEOREM JudgedJobsAreIndexed == IntakeSpec => []JudgedIsIndexed
  BY IInvAlways, PTL DEF IInv

-----------------------------------------------------------------------------
(* The fetch *)

(* The answers a fetch of an item hears before it ends.                    *)
Listened(a) == {a.audio} \cup IF a.audio = "audio" THEN {a.transcript} ELSE {}

Played(a) == {a.download} \cup IF a.download = "media" THEN Listened(a) ELSE {}

Asked(s, a) ==
    CASE s = "file" -> Listened(a)
      [] s = "reel" -> Played(a)
      [] s = "share" -> {a.share} \cup IF a.share = "reel" THEN Played(a) ELSE {}
      [] s = "youtube" ->
            {a.info} \cup IF a.info # "info" THEN {}
                          ELSE {a.captions} \cup IF a.captions = "no text" /\ ~a.long
                                                 THEN Played(a) ELSE {}

(* The answer that decides about a share link is one of its hops.          *)
LEMMA ResolveIsAHop ==
    ASSUME NEW h \in [1..MaxHops -> Hops]
    PROVE  Resolve(h) \in Hops \ {"onward"}
  <1> DEFINE decide == {k \in 1..MaxHops : h[k] # "onward"}
  <1>1. CASE decide = {}
    BY <1>1 DEF Resolve, Hops
  <1>2. CASE decide # {}
    <2>1. decide \in SUBSET Nat
      BY DEF MaxHops
    <2>2. \E k \in decide : \A l \in decide : k <= l
      BY <1>2, <2>1, NatsHaveLeast
    <2>3. (CHOOSE k \in decide : \A l \in decide : k <= l) \in decide
      BY <2>2
    <2> QED
      BY <1>2, <2>3 DEF Resolve
  <1> QED
    BY <1>1, <1>2

(* A fetch is an error, for the queue to try again, exactly when the link, *)
(* the egress or a program failed to answer it.  An ffmpeg that is cut     *)
(* short, by its time limit or a fault of its own, is the one failure that *)
(* is not: then the item is told to have no speech, and its job ends       *)
(* (gather, speech, extract_audio).                                        *)
THEOREM FailuresAreRetried ==
    ASSUME NEW s \in Sources, NEW a \in Answers
    PROVE  /\ Gather(s, a) \in {"material", "unavailable", "error"}
           /\ Gather(s, a) = "error" <=> Asked(s, a) \cap {"failed", "unreachable"} # {}
           /\ "cut short" \in Asked(s, a) => Gather(s, a) = "unavailable"
  <1>1. /\ a.info \in {"info", "answer", "failed"} /\ a.download \in Downloads
        /\ a.audio \in Audio /\ a.transcript \in Transcripts
    BY DEF Answers
  <1>2. a.share \in Hops \ {"onward"} /\ a.captions \in {"text", "unreachable", "blocked", "no text"}
    <2>1. a.share \in Hops \ {"onward"}
      BY ResolveIsAHop DEF Answers
    <2> QED
      BY <2>1 DEF Answers, Captions
  <1>3. /\ Heard(a) \in {"material", "unavailable", "error"}
        /\ Heard(a) = "error" <=> Listened(a) \cap {"failed", "unreachable"} # {}
        /\ "cut short" \in Listened(a) => Heard(a) = "unavailable"
    BY <1>1 DEF Heard, Speech, Told, Listened, Audio, Transcripts
  <1>4. /\ Downloaded(a) \in {"material", "unavailable", "error"}
        /\ Downloaded(a) = "error" <=> Played(a) \cap {"failed", "unreachable"} # {}
        /\ "cut short" \in Played(a) => Downloaded(a) = "unavailable"
    BY <1>1, <1>3 DEF Downloaded, Told, Played, Downloads
  <1>5. CASE s = "file"
    BY <1>3, <1>5 DEF Gather, Asked
  <1>6. CASE s = "reel"
    BY <1>4, <1>6 DEF Gather, Asked
  <1>7. CASE s = "share"
    BY <1>2, <1>4, <1>7 DEF Gather, Told, Asked, Hops
  <1>8. CASE s = "youtube"
    <2>1. Gather(s, a) = Watched(a)
      BY <1>8 DEF Gather
    <2>2. Asked(s, a) = {a.info} \cup IF a.info # "info" THEN {}
                          ELSE {a.captions} \cup IF a.captions = "no text" /\ ~a.long
                                                 THEN Played(a) ELSE {}
      BY <1>8 DEF Asked
    <2> QED
      BY <1>1, <1>2, <1>4, <2>1, <2>2 DEF Watched, Told
  <1> QED
    BY <1>5, <1>6, <1>7, <1>8 DEF Sources

=============================================================================
