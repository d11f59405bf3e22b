----------------------------- MODULE AlertInbox -----------------------------
(***************************************************************************)
(* The alert inbox (scripts/alert-inbox): every five minutes a oneshot     *)
(* reads the provisioned alert rules from their backends, advances one     *)
(* small state machine per series, writes a note to an agent's inbox for   *)
(* each transition as it meets it, and saves the states at the end.        *)
(*                                                                         *)
(* A condition is whatever has such a state machine: a backend that cannot *)
(* be reached, a series of a rule, or a rule's want of data.               *)
(***************************************************************************)
EXTENDS Integers

CONSTANTS
    Rules,          \* the alert rules, by their place in the rules files
    Series,         \* label sets
    Backends,       \* prometheus, loki
    NoData,         \* "__no_data__"
    Source,         \* datasource: each rule's backend
    Hold,           \* each rule's `for`, in polls
    MaxHold,        \* the longest
    NoDataAlerts,   \* the rules with noDataState: Alerting
    Warnings,       \* the rules of severity warning
    Faults          \* which occur: "note", "crash", "lost", "deploy"

Conditions ==
    Backends \cup (Rules \X Series) \cup (NoDataAlerts \X {NoData})

ASSUME InboxAssumption ==
    /\ Rules \subseteq Nat \ {0}
    /\ NoData \notin Series
    /\ Backends \cap (Rules \X (Series \cup {NoData})) = {}
    /\ Source \in [Rules -> Backends]
    /\ MaxHold \in Nat
    /\ Hold \in [Rules -> 0..MaxHold]
    /\ NoDataAlerts \subseteq Rules
    /\ Warnings \subseteq Rules

VARIABLES
    rule,       \* each rule: on, off (paused, or not understood), or gone
    saved,      \* the state file; an entry's age counts the polls begun since
    on,         \* a poll is running
    reading,    \* its conditions still to be advanced, and what they read
    work,       \* its states, in memory
    said,       \* the conditions it has written a note about
    inbox,      \* the last note about each condition
    cut         \* history: whose last note no save followed, or state was lost

vars == <<rule, saved, on, reading, work, said, inbox, cut>>

Normal == [state |-> "normal", age |-> 0]
Alerting == [state |-> "alerting", age |-> 0]
Pending(n) == [state |-> "pending", age |-> n]

Entry == [state: {"normal", "pending", "alerting"}, age: 0..MaxHold]

AllNormal == [c \in Conditions |-> Normal]
NothingToRead == [c \in Conditions |-> "keep"]

Init ==
    /\ rule = [r \in Rules |-> "on"]
    /\ saved = AllNormal
    /\ on = FALSE /\ reading = NothingToRead /\ work = AllNormal /\ said = {}
    /\ inbox = [c \in Conditions |-> "nothing"]
    /\ cut = {}

-----------------------------------------------------------------------------
(***************************************************************************)
(* Reading the rules and the backends.                                     *)
(***************************************************************************)
OfRule(c, R) == \E r \in R : c \in {r} \X (Series \cup {NoData})

Aged == [c \in Conditions |->
            IF saved[c].state = "pending" /\ saved[c].age < MaxHold
            THEN Pending(saved[c].age + 1) ELSE saved[c]]

Provisioned == {r \in Rules : rule[r] # "gone"}

(* No rules at all is a broken read of the files, and retires nothing.     *)
Retired == IF Provisioned = {} THEN {} ELSE Rules \ Provisioned

Active == {r \in Rules : rule[r] = "on"}

Evaluated(failed) == {r \in Active : Source[r] \notin failed}

(* A sample that is no number reads as one under its threshold: either way *)
(* there is data, and the series' condition is not true.                   *)
Samples == {"over", "under", "none"}

Empty(result, r) == \A s \in Series : result[r][s] = "none"

TrueUnder(failed, result) ==
    failed \cup {c \in Evaluated(failed) \X Series : result[c[1]][c[2]] = "over"}
           \cup {c \in (NoDataAlerts \cap Evaluated(failed)) \X {NoData} :
                    Empty(result, c[1])}

KeptIfPaused(failed, result) == \* mutant: an outage reads as no data
    {c \in Conditions : OfRule(c, Rules \ Active)}

(* The rules of a backend that cannot be reached keep their states, and so *)
(* do the series of a rule that alerts on no data while it has none.       *)
KeptUnder(failed, result) ==
    {c \in Conditions :
        \/ OfRule(c, Rules \ Evaluated(failed))
        \/ \E r \in NoDataAlerts, s \in Series : c = <<r, s>> /\ Empty(result, r)}

Read(failed, result) ==
    [c \in Conditions |->
        CASE c \in TrueUnder(failed, result) -> "true"
          [] c \in KeptUnder(failed, result) -> "keep"
          [] OTHER -> "false"]

(* A poll loads the states, reads the rules, drops the states of retired   *)
(* ones and queries the backends of the others.                            *)
Evaluate ==
    /\ ~on
    /\ on' = TRUE
    /\ \E failed \in SUBSET {Source[r] : r \in Active},
          result \in [Rules -> [Series -> Samples]] :
              reading' = Read(failed, result)
    /\ saved' = Aged
    /\ work' = [c \in Conditions |-> IF OfRule(c, Retired) THEN Normal ELSE Aged[c]]
    /\ said' = {}
    /\ cut' = cut \cup {c \in Conditions : OfRule(c, Retired) /\ saved[c] = Alerting}
    /\ UNCHANGED <<rule, inbox>>

-----------------------------------------------------------------------------
(***************************************************************************)
(* Advancing a condition's state machine.                                  *)
(***************************************************************************)
Todo == {c \in Conditions : reading[c] # "keep"}

(* Backends first, then the rules in the order of the files.               *)
Place(c) == IF c \in Backends THEN 0 ELSE c[1]

Turn(c) == on /\ c \in Todo /\ \A d \in Todo : Place(c) <= Place(d)

HoldOf(c) == IF c \in Backends THEN 0 ELSE Hold[c[1]]

FiresWhileTrue(c) == \* mutant: a note on every poll
    reading[c] = "true" /\ work[c].age >= HoldOf(c)

Fires(c) ==
    /\ reading[c] = "true"
    /\ work[c].state # "alerting"
    /\ work[c].age >= HoldOf(c)

Resolves(c) == reading[c] = "false" /\ work[c].state = "alerting"

EnteredAnew(c) == \* mutant: `since` starts again on every poll
    IF reading[c] = "false" THEN Normal
    ELSE IF Fires(c) \/ work[c].state = "alerting" THEN Alerting
    ELSE Pending(0)

Entered(c) ==
    IF reading[c] = "false" THEN Normal
    ELSE IF Fires(c) THEN Alerting
    ELSE IF work[c].state = "normal" THEN Pending(0)
    ELSE work[c]

(* The end of a warning is not noted.                                      *)
Quiet(c) == OfRule(c, Warnings)

NoteOfRules(c) == \* mutant: the end of an outage is not noted
    CASE Fires(c) -> "firing"
      [] Resolves(c) /\ ~Quiet(c) /\ c \notin Backends -> "resolved"
      [] OTHER -> "none"

Note(c) ==
    CASE Fires(c) -> "firing"
      [] Resolves(c) /\ ~Quiet(c) -> "resolved"
      [] OTHER -> "none"

Advance(c) ==
    /\ Turn(c)
    /\ work' = [work EXCEPT ![c] = Entered(c)]
    /\ reading' = [reading EXCEPT ![c] = "keep"]
    /\ IF Note(c) = "none" THEN UNCHANGED <<inbox, said>>
       ELSE /\ inbox' = [inbox EXCEPT ![c] = Note(c)]
            /\ said' = said \cup {c}
    /\ UNCHANGED <<rule, saved, on, cut>>

Ended == on' = FALSE /\ reading' = NothingToRead /\ work' = AllNormal /\ said' = {}

SaveIfReached == \* mutant: a poll that failed to reach a backend saves nothing
    /\ on /\ Todo = {}
    /\ saved' = IF \E b \in Backends : work[b] = Alerting THEN saved ELSE work
    /\ cut' = cut \ said
    /\ Ended
    /\ UNCHANGED <<rule, inbox>>

(* The states are saved once every condition has been advanced.            *)
Save ==
    /\ on /\ Todo = {}
    /\ saved' = work
    /\ cut' = cut \ said
    /\ Ended
    /\ UNCHANGED <<rule, inbox>>

-----------------------------------------------------------------------------
(***************************************************************************)
(* What goes wrong: a poll that ends early has saved nothing.              *)
(***************************************************************************)
Abandoned == Ended /\ cut' = cut \cup said /\ UNCHANGED <<rule, saved, inbox>>

(* fm-inbox.sh refuses the note, and the poll ends with its exception.     *)
NoteFails(c) ==
    /\ "note" \in Faults
    /\ Turn(c) /\ Note(c) # "none"
    /\ Abandoned

Crash == "crash" \in Faults /\ on /\ Abandoned

(* A state file that is missing or not JSON reads as no state at all.      *)
StateLost ==
    /\ "lost" \in Faults
    /\ ~on
    /\ saved' = AllNormal
    /\ cut' = cut \cup {c \in Conditions : saved[c] = Alerting}
    /\ UNCHANGED <<rule, on, reading, work, said, inbox>>

(* A deploy adds, pauses or retires a rule.  A poll has read the rules at  *)
(* its start: a deploy during it is one after it.                          *)
Deploy ==
    /\ "deploy" \in Faults
    /\ ~on
    /\ \E r \in Rules, s \in {"on", "off", "gone"} :
          rule[r] # s /\ rule' = [rule EXCEPT ![r] = s]
    /\ UNCHANGED <<saved, on, reading, work, said, inbox, cut>>

Fault == (\E c \in Conditions : NoteFails(c)) \/ Crash \/ StateLost \/ Deploy

Next == Evaluate \/ (\E c \in Conditions : Advance(c)) \/ Save \/ Fault

Spec == Init /\ [][Next]_vars

(* The timer starts the next poll, and a poll that nothing stops ends.     *)
FairSpec ==
    /\ Spec
    /\ WF_vars(Evaluate)
    /\ WF_vars(\E c \in Conditions : Advance(c))
    /\ WF_vars(Save)

-----------------------------------------------------------------------------
(***************************************************************************)
(* Properties.                                                             *)
(***************************************************************************)

(* The shape of the state; only a pending entry has an age, and what is in *)
(* memory between polls is nothing.                                        *)
States == {f \in [Conditions -> Entry] :
              \A c \in Conditions : f[c].state # "pending" => f[c].age = 0}

TypeOK ==
    /\ rule \in [Rules -> {"on", "off", "gone"}]
    /\ saved \in States /\ work \in States
    /\ on \in BOOLEAN
    /\ reading \in [Conditions -> {"true", "false", "keep"}]
    /\ said \in SUBSET Conditions /\ cut \in SUBSET Conditions
    /\ inbox \in [Conditions -> {"nothing", "firing", "resolved"}]
    /\ ~on => reading = NothingToRead /\ work = AllNormal /\ said = {}

(* A state machine and the inbox tell the same story; of a warning the     *)
(* inbox hears only the beginning.                                         *)
Agree(c, states) ==
    /\ states[c].state = "alerting" => inbox[c] = "firing"
    /\ inbox[c] = "firing" /\ ~Quiet(c) => states[c].state = "alerting"

(* Between polls the state file says "alerting" of exactly the conditions  *)
(* the inbox last heard are firing, except where a poll was cut off after  *)
(* its note, or the state was lost or retired (poll, advance_state).       *)
InboxAgrees == ~on => \A c \in Conditions \ cut : Agree(c, saved)

(* "no repeat notifications" (README.md:51): a poll that notes a condition *)
(* firing never follows a note that it is firing, unless the poll of that  *)
(* note was cut off or its state lost; a warning ends without a note.      *)
SilentWhileFiring ==
    [][\A c \in Conditions : c \in said' \ said /\ inbox[c] = inbox'[c]
                               => c \in cut \/ Quiet(c)]_vars

(* "an outage never reads as a resolve" (README.md:55): a poll that cannot *)
(* reach a backend writes no note about its rules, and saves what it       *)
(* loaded alerting as alerting (unless it has just retired the rule).      *)
Unreachable(b) ==
    on /\ (reading[b] = "true" \/ (reading[b] = "keep" /\ work[b] = Alerting))

OutageIsNotResolve ==
    [][\A r \in Rules, c \in Conditions :
          Unreachable(Source[r]) /\ OfRule(c, {r}) =>
             /\ inbox'[c] = inbox[c]
             /\ saved[c] = Alerting /\ c \notin cut => saved'[c] = Alerting]_vars

(* A condition that polls read true, and never false, is one the inbox has *)
(* heard is firing, once nothing goes wrong any more (its `for` elapses    *)
(* over the polls, through outages of its backend).                        *)
Calm == <>[][~Fault]_vars

EveryAlertTold ==
    \A c \in Conditions :
        (/\ Calm
         /\ []<>(reading[c] = "true") /\ <>[](reading[c] # "false")
         /\ <>[](c \notin cut)) => <>[](inbox[c] = "firing")

(* And a condition that polls read false, and never true, is one whose end *)
(* the inbox has heard if it had heard of it at all, unless it is a        *)
(* warning.                                                                *)
EveryEndTold ==
    \A c \in Conditions :
        (/\ Calm
         /\ []<>(reading[c] = "false") /\ <>[](reading[c] # "true")
         /\ <>[](c \notin cut)) => <>[](inbox[c] # "firing" \/ Quiet(c))

=============================================================================
