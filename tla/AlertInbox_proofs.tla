-------------------------- MODULE AlertInbox_proofs --------------------------
(***************************************************************************)
(* Proofs about AlertInbox, for any rules, series, backends and holds.     *)
(***************************************************************************)
EXTENDS AlertInbox, TLAPS

(***************************************************************************)
(* What the operators return.                                              *)
(***************************************************************************)

(* The three states of a state machine are entries of the state file.      *)
LEMMA Entries ==
    /\ Normal \in Entry /\ Alerting \in Entry
    /\ \A n \in 0..MaxHold : Pending(n) \in Entry
    /\ AllNormal \in States
  BY InboxAssumption DEF Normal, Alerting, Pending, Entry, AllNormal, States

(* Loading the state file a poll later changes ages only.                  *)
LEMMA AgedStates ==
  ASSUME saved \in States
  PROVE  /\ Aged \in States
         /\ \A c \in Conditions : (Aged[c].state = "alerting") <=> (saved[c].state = "alerting")
         /\ \A c \in Conditions : saved[c] = Alerting => Aged[c] = Alerting
<1>1. ASSUME NEW c \in Conditions
      PROVE  /\ Aged[c] \in Entry
             /\ Aged[c].state # "pending" => Aged[c].age = 0
             /\ (Aged[c].state = "alerting") <=> (saved[c].state = "alerting")
             /\ saved[c] = Alerting => Aged[c] = Alerting
  <2>0. saved[c] \in Entry /\ (saved[c].state # "pending" => saved[c].age = 0)
    BY DEF States
  <2>1. CASE saved[c].state = "pending" /\ saved[c].age < MaxHold
    <3>1. Aged[c] = Pending(saved[c].age + 1)
      BY <2>1 DEF Aged
    <3>2. saved[c].age + 1 \in 0..MaxHold
      BY <2>0, <2>1, InboxAssumption DEF Entry
    <3>. QED BY <3>1, <3>2, <2>1, Entries DEF Pending, Alerting
  <2>2. CASE ~(saved[c].state = "pending" /\ saved[c].age < MaxHold)
    <3>1. Aged[c] = saved[c]
      BY <2>2 DEF Aged
    <3>. QED BY <3>1, <2>0
  <2>. QED BY <2>1, <2>2
<1>2. Aged \in [Conditions -> Entry]
  <2>1. Aged = [c \in Conditions |-> Aged[c]]
    BY DEF Aged
  <2>. QED BY <1>1, <2>1
<1>. QED BY <1>1, <1>2 DEF States

(* A state machine enters one of its own states.                           *)
LEMMA EnteredEntry ==
  ASSUME work \in States, NEW c \in Conditions
  PROVE  Entered(c) \in Entry /\ (Entered(c).state # "pending" => Entered(c).age = 0)
<1>1. work[c] \in Entry /\ (work[c].state # "pending" => work[c].age = 0)
  BY DEF States
<1>2. 0 \in 0..MaxHold
  BY InboxAssumption
<1>3. /\ Normal.age = 0 /\ Alerting.age = 0
      /\ Pending(0) \in Entry /\ Pending(0).state = "pending"
  BY <1>2, Entries DEF Normal, Alerting, Pending
<1>. QED BY <1>1, <1>3, Entries DEF Entered

(* A backend reads as down when it is, and a rule of one that is down      *)
(* reads as nothing.                                                       *)
LEMMA ReadKinds ==
  ASSUME NEW failed \in SUBSET Backends,
         NEW result \in [Rules -> [Series -> Samples]]
  PROVE  /\ Read(failed, result) \in [Conditions -> {"true", "false", "keep"}]
         /\ \A b \in Backends :
               Read(failed, result)[b] = IF b \in failed THEN "true" ELSE "false"
         /\ \A r \in Rules, c \in Conditions :
               Source[r] \in failed /\ OfRule(c, {r}) => Read(failed, result)[c] = "keep"
<1>1. Read(failed, result) \in [Conditions -> {"true", "false", "keep"}]
  BY DEF Read
<1>2. ASSUME NEW b \in Backends
      PROVE  Read(failed, result)[b] = IF b \in failed THEN "true" ELSE "false"
  <2>1. b \in Conditions
    BY DEF Conditions
  <2>2. \A r \in Rules : b \notin {r} \X (Series \cup {NoData})
    BY InboxAssumption
  <2>3. b \notin Rules \X Series /\ b \notin NoDataAlerts \X {NoData}
    <3>1. b \notin Rules \X (Series \cup {NoData})
      BY InboxAssumption
    <3>2. Rules \X Series \subseteq Rules \X (Series \cup {NoData})
      OBVIOUS
    <3>3. NoDataAlerts \X {NoData} \subseteq Rules \X (Series \cup {NoData})
      BY InboxAssumption
    <3>. QED BY <3>1, <3>2, <3>3
  <2>4. b \notin KeptUnder(failed, result)
    <3>1. ~OfRule(b, Rules \ Evaluated(failed))
      BY <2>2 DEF OfRule
    <3>2. \A r \in NoDataAlerts, s \in Series : b # <<r, s>>
      BY <2>3, InboxAssumption
    <3>. QED BY <3>1, <3>2 DEF KeptUnder
  <2>5. b \in TrueUnder(failed, result) <=> b \in failed
    BY <2>3, InboxAssumption DEF TrueUnder, Evaluated, Active
  <2>. QED BY <2>1, <2>4, <2>5 DEF Read
<1>3. ASSUME NEW r \in Rules, NEW c \in Conditions, Source[r] \in failed, OfRule(c, {r})
      PROVE  Read(failed, result)[c] = "keep"
  <2>1. c \in {r} \X (Series \cup {NoData})
    BY <1>3 DEF OfRule
  <2>2. c[1] = r /\ c \notin Backends
    BY <2>1, InboxAssumption
  <2>3. r \notin Evaluated(failed)
    BY <1>3 DEF Evaluated
  <2>4. c \notin TrueUnder(failed, result)
    BY <2>2, <2>3, <1>3 DEF TrueUnder
  <2>5. c \in KeptUnder(failed, result)
    BY <2>1, <2>3 DEF KeptUnder, OfRule
  <2>. QED BY <2>4, <2>5 DEF Read
<1>. QED BY <1>1, <1>2, <1>3

-----------------------------------------------------------------------------
(***************************************************************************)
(* Type correctness.                                                       *)
(***************************************************************************)

(* Between polls nothing of one is in memory.                              *)
LEMMA NothingInMemory ==
  NothingToRead \in [Conditions -> {"true", "false", "keep"}] /\ AllNormal \in States
  BY Entries DEF NothingToRead

LEMMA InitTypeOK == Init => TypeOK
  BY NothingInMemory DEF Init, TypeOK

LEMMA NoteKinds == \A c : Note(c) # "none" => Note(c) \in {"firing", "resolved"}
  BY DEF Note

LEMMA EvaluateTypeOK == TypeOK /\ Evaluate => TypeOK'
<1>. SUFFICES ASSUME TypeOK, Evaluate PROVE TypeOK'
  OBVIOUS
<1>1. PICK failed \in SUBSET {Source[r] : r \in Active},
           result \in [Rules -> [Series -> Samples]] :
              reading' = Read(failed, result)
  BY DEF Evaluate
<1>2. failed \in SUBSET Backends
  BY InboxAssumption DEF Active
<1>3. reading' \in [Conditions -> {"true", "false", "keep"}]
  BY <1>1, <1>2, ReadKinds
<1>4. saved' \in States
  BY AgedStates DEF TypeOK, Evaluate
<1>5. work' \in States
  <2>1. work' = [c \in Conditions |-> IF OfRule(c, Retired) THEN Normal ELSE Aged[c]]
    BY DEF Evaluate
  <2>2. Normal \in Entry /\ Normal.age = 0
    BY Entries DEF Normal
  <2>. QED BY <2>1, <2>2, AgedStates DEF TypeOK, States
<1>. QED BY <1>3, <1>4, <1>5 DEF TypeOK, Evaluate

LEMMA AdvanceTypeOK ==
  ASSUME NEW c \in Conditions, TypeOK, Advance(c)
  PROVE  TypeOK'
<1>1. on /\ UNCHANGED <<rule, saved, on, cut>>
  BY DEF Advance, Turn
<1>2. reading' \in [Conditions -> {"true", "false", "keep"}]
  BY DEF Advance, TypeOK
<1>3. work' \in States
  BY EnteredEntry DEF Advance, TypeOK, States
<1>4. /\ inbox' \in [Conditions -> {"nothing", "firing", "resolved"}]
      /\ said' \in SUBSET Conditions
  <2>1. CASE Note(c) = "none"
    BY <2>1 DEF Advance, TypeOK
  <2>2. CASE Note(c) # "none"
    BY <2>2, NoteKinds DEF Advance, TypeOK
  <2>. QED BY <2>1, <2>2
<1>. QED BY <1>1, <1>2, <1>3, <1>4 DEF TypeOK

LEMMA AbandonedTypeOK == TypeOK /\ Abandoned => TypeOK'
  BY NothingInMemory DEF TypeOK, Abandoned, Ended

LEMMA NextTypeOK == TypeOK /\ [Next]_vars => TypeOK'
<1>. SUFFICES ASSUME TypeOK, [Next]_vars PROVE TypeOK'
  OBVIOUS
<1>1. CASE Evaluate
  BY <1>1, EvaluateTypeOK
<1>2. ASSUME NEW c \in Conditions, Advance(c) PROVE TypeOK'
  BY <1>2, AdvanceTypeOK
<1>3. CASE Save
  BY <1>3, NothingInMemory DEF TypeOK, Save, Ended
<1>4. ASSUME NEW c \in Conditions, NoteFails(c) PROVE TypeOK'
  BY <1>4, AbandonedTypeOK DEF NoteFails
<1>5. CASE Crash
  BY <1>5, AbandonedTypeOK DEF Crash
<1>6. CASE StateLost
  BY <1>6, NothingInMemory DEF TypeOK, StateLost
<1>7. CASE Deploy
  BY <1>7 DEF TypeOK, Deploy
<1>8. CASE UNCHANGED vars
  BY <1>8 DEF TypeOK, vars
<1>. QED BY <1>1, <1>2, <1>3, <1>4, <1>5, <1>6, <1>7, <1>8 DEF Next, Fault

(* Every state of the poller and the inbox is well formed.                 *)
THEOREM Typing == Spec => []TypeOK
  BY InitTypeOK, NextTypeOK, PTL DEF Spec

-----------------------------------------------------------------------------
(***************************************************************************)
(* The inbox and the state file agree.  While a poll runs, its states in   *)
(* memory agree with the inbox, and the state file still does of whatever  *)
(* the poll has not noted: if it is cut off, those are the ones it leaves  *)
(* in agreement, and the others are in `cut` from then on.                 *)
(***************************************************************************)
AgreeInv ==
    /\ InboxAgrees
    /\ on => /\ \A c \in (Conditions \ cut) \cup said : Agree(c, work)
             /\ \A c \in Conditions \ (cut \cup said) : Agree(c, saved)

LEMMA InitAgree == Init => AgreeInv
  BY DEF Init, AgreeInv, InboxAgrees, Agree, AllNormal, Normal

LEMMA EvaluateAgree == TypeOK /\ AgreeInv /\ Evaluate => AgreeInv'
<1>. SUFFICES ASSUME TypeOK, AgreeInv, Evaluate PROVE AgreeInv'
  OBVIOUS
<1>1. on' /\ said' = {} /\ inbox' = inbox
  BY DEF Evaluate
<1>2. ASSUME NEW c \in Conditions \ cut'
      PROVE  Agree(c, saved)' /\ Agree(c, work)'
  <2>1. c \in Conditions \ cut /\ ~(OfRule(c, Retired) /\ saved[c] = Alerting)
    BY DEF Evaluate
  <2>2. Agree(c, saved)
    BY <2>1 DEF AgreeInv, InboxAgrees, Evaluate
  <2>3. /\ (saved'[c].state = "alerting") <=> (saved[c].state = "alerting")
        /\ saved' = Aged
    BY AgedStates DEF TypeOK, Evaluate
  <2>4. Agree(c, saved)'
    BY <1>1, <2>2, <2>3 DEF Agree
  <2>5. CASE OfRule(c, Retired)
    <3>1. saved[c] \in Entry /\ (saved[c].state # "pending" => saved[c].age = 0)
      BY DEF TypeOK, States
    <3>2. saved[c].state # "alerting"
      BY <2>1, <2>5, <3>1 DEF Entry, Alerting
    <3>3. work'[c] = Normal
      BY <2>5 DEF Evaluate
    <3>. QED BY <1>1, <2>2, <2>4, <3>2, <3>3 DEF Agree, Normal
  <2>6. CASE ~OfRule(c, Retired)
    <3>1. work'[c] = saved'[c]
      BY <2>3, <2>6 DEF Evaluate
    <3>. QED BY <2>4, <3>1 DEF Agree
  <2>. QED BY <2>5, <2>6
<1>. QED BY <1>1, <1>2 DEF AgreeInv, InboxAgrees

(* A condition advanced is one whose state machine and inbox agree: by a   *)
(* note, or because they agreed and nothing was to be said.                *)
LEMMA AdvancedAgrees ==
  ASSUME TypeOK, NEW c \in Conditions, Advance(c),
         Note(c) # "none" \/ Agree(c, work)
  PROVE  Agree(c, work)'
<1>1. work'[c] = Entered(c)
  BY DEF Advance, TypeOK, States
<1>2. work[c] \in Entry
  BY DEF TypeOK, States
<1>3. Normal.state = "normal" /\ Alerting.state = "alerting" /\ Pending(0).state = "pending"
  BY DEF Normal, Alerting, Pending
<1>4. reading[c] \in {"true", "false"}
  BY DEF TypeOK, Advance, Turn, Todo
<1>5. CASE Fires(c)
  <2>1. Note(c) = "firing" /\ Entered(c) = Alerting
    BY <1>5 DEF Note, Entered, Fires, Resolves
  <2>2. inbox'[c] = "firing"
    BY <2>1 DEF Advance, TypeOK
  <2>. QED BY <1>1, <1>3, <2>1, <2>2 DEF Agree
<1>6. CASE Resolves(c) /\ ~Quiet(c)
  <2>1. Note(c) = "resolved" /\ Entered(c) = Normal
    BY <1>6 DEF Note, Entered, Fires, Resolves
  <2>2. inbox'[c] = "resolved"
    BY <2>1 DEF Advance, TypeOK
  <2>. QED BY <1>1, <1>3, <2>1, <2>2 DEF Agree
<1>7. CASE Resolves(c) /\ Quiet(c)
  <2>1. Entered(c) = Normal
    BY <1>7 DEF Entered, Resolves
  <2>. QED BY <1>1, <1>3, <1>7, <2>1 DEF Agree, Quiet
<1>8. CASE ~Fires(c) /\ ~Resolves(c)
  <2>1. Note(c) = "none" /\ inbox' = inbox /\ Agree(c, work)
    BY <1>8 DEF Note, Advance
  <2>2. (Entered(c).state = "alerting") <=> (work[c].state = "alerting")
    BY <1>3, <1>4, <1>8 DEF Entered, Resolves
  <2>. QED BY <1>1, <2>1, <2>2 DEF Agree, Quiet
<1>. QED BY <1>5, <1>6, <1>7, <1>8

LEMMA AdvanceAgree ==
  ASSUME TypeOK, AgreeInv, NEW c \in Conditions, Advance(c)
  PROVE  AgreeInv'
<1>1. on /\ on' /\ cut' = cut /\ saved' = saved
  BY DEF Advance, Turn
<1>2. said' = said \/ (said' = said \cup {c} /\ Note(c) # "none")
  BY DEF Advance
<1>3. \A d \in Conditions \ {c} : work'[d] = work[d] /\ inbox'[d] = inbox[d]
  BY DEF Advance, TypeOK, States
<1>4. ASSUME NEW d \in ((Conditions \ cut) \cup said)' PROVE Agree(d, work)'
  <2>1. CASE d = c
    <3>1. Note(c) # "none" \/ Agree(c, work)
      BY <1>1, <1>2, <2>1 DEF AgreeInv
    <3>. QED BY <3>1, <2>1, AdvancedAgrees
  <2>2. CASE d # c
    <3>1. d \in Conditions /\ d \in (Conditions \ cut) \cup said
      BY <1>1, <1>2, <2>2 DEF TypeOK
    <3>2. Agree(d, work)
      BY <1>1, <3>1 DEF AgreeInv
    <3>. QED BY <1>3, <2>2, <3>1, <3>2 DEF Agree, Quiet
  <2>. QED BY <2>1, <2>2
<1>5. ASSUME NEW d \in Conditions \ (cut' \cup said') PROVE Agree(d, saved)'
  <2>1. d \in Conditions \ (cut \cup said) /\ inbox'[d] = inbox[d]
    <3>1. CASE d = c
      <4>1. Note(c) = "none"
        BY <3>1 DEF Advance
      <4>. QED BY <4>1, <1>1 DEF Advance
    <3>2. CASE d # c
      BY <1>1, <1>2, <1>3, <3>2
    <3>. QED BY <3>1, <3>2
  <2>2. Agree(d, saved)
    BY <1>1, <2>1 DEF AgreeInv
  <2>. QED BY <1>1, <2>1, <2>2 DEF Agree, Quiet
<1>. QED BY <1>1, <1>4, <1>5 DEF AgreeInv, InboxAgrees

LEMMA AbandonedAgree ==
  ASSUME AgreeInv, on, Abandoned
  PROVE  AgreeInv'
<1>1. on' = FALSE /\ cut' = cut \cup said /\ saved' = saved /\ inbox' = inbox
  BY DEF Abandoned, Ended
<1>. QED BY <1>1 DEF AgreeInv, InboxAgrees, Agree, Quiet

LEMMA SaveAgree == AgreeInv /\ Save => AgreeInv'
<1>. SUFFICES ASSUME AgreeInv, Save PROVE AgreeInv'
  OBVIOUS
<1>1. on /\ on' = FALSE /\ cut' = cut \ said /\ saved' = work /\ inbox' = inbox
  BY DEF Save, Ended
<1>. QED BY <1>1 DEF AgreeInv, InboxAgrees, Agree, Quiet

LEMMA StateLostAgree == TypeOK /\ AgreeInv /\ StateLost => AgreeInv'
<1>. SUFFICES ASSUME TypeOK, AgreeInv, StateLost PROVE AgreeInv'
  OBVIOUS
<1>1. on = FALSE /\ on' = FALSE /\ inbox' = inbox
  BY DEF StateLost, TypeOK
<1>2. ASSUME NEW c \in Conditions \ cut' PROVE Agree(c, saved)'
  <2>1. c \in Conditions \ cut /\ saved[c] # Alerting /\ saved'[c] = Normal
    BY DEF StateLost, AllNormal
  <2>2. saved[c] \in Entry /\ (saved[c].state # "pending" => saved[c].age = 0)
    BY <2>1 DEF TypeOK, States
  <2>3. saved[c].state # "alerting"
    BY <2>1, <2>2 DEF Entry, Alerting
  <2>4. Agree(c, saved)
    BY <1>1, <2>1 DEF AgreeInv, InboxAgrees
  <2>. QED BY <1>1, <2>1, <2>3, <2>4 DEF Agree, Quiet, Normal
<1>. QED BY <1>1, <1>2 DEF AgreeInv, InboxAgrees

LEMMA NextAgree == TypeOK /\ AgreeInv /\ [Next]_vars => AgreeInv'
<1>. SUFFICES ASSUME TypeOK, AgreeInv, [Next]_vars PROVE AgreeInv'
  OBVIOUS
<1>1. CASE Evaluate
  BY <1>1, EvaluateAgree
<1>2. ASSUME NEW c \in Conditions, Advance(c) PROVE AgreeInv'
  BY <1>2, AdvanceAgree
<1>3. CASE Save
  BY <1>3, SaveAgree
<1>4. ASSUME NEW c \in Conditions, NoteFails(c) PROVE AgreeInv'
  BY <1>4, AbandonedAgree DEF NoteFails, Turn
<1>5. CASE Crash
  BY <1>5, AbandonedAgree DEF Crash
<1>6. CASE StateLost
  BY <1>6, StateLostAgree
<1>7. CASE Deploy
  BY <1>7 DEF Deploy, AgreeInv, InboxAgrees, Agree, Quiet
<1>8. CASE UNCHANGED vars
  BY <1>8 DEF vars, AgreeInv, InboxAgrees, Agree, Quiet
<1>. QED BY <1>1, <1>2, <1>3, <1>4, <1>5, <1>6, <1>7, <1>8 DEF Next, Fault

(* The state file and the inbox tell the same story between polls, of all  *)
(* conditions but those a cut-off poll has noted or whose state was lost.  *)
THEOREM Agreement == Spec => []InboxAgrees
<1>1. Init => TypeOK /\ AgreeInv
  BY InitTypeOK, InitAgree
<1>2. (TypeOK /\ AgreeInv) /\ [Next]_vars => (TypeOK /\ AgreeInv)'
  BY NextTypeOK, NextAgree
<1>3. TypeOK /\ AgreeInv => InboxAgrees
  BY DEF AgreeInv
<1>. QED BY <1>1, <1>2, <1>3, PTL DEF Spec

-----------------------------------------------------------------------------
(***************************************************************************)
(* What a step of a poll may not do.                                       *)
(***************************************************************************)

(* Only an advance writes a note.                                          *)
LEMMA NotesAreAdvances ==
  ASSUME TypeOK, [Next]_vars, NEW c \in Conditions,
         c \in said' \ said \/ inbox'[c] # inbox[c]
  PROVE  Advance(c) /\ Note(c) # "none" /\ inbox'[c] = Note(c)
<1>1. ASSUME NEW d \in Conditions, Advance(d)
      PROVE  Advance(c) /\ Note(c) # "none" /\ inbox'[c] = Note(c)
  <2>1. d = c
    BY <1>1 DEF Advance, TypeOK
  <2>. QED BY <1>1, <2>1 DEF Advance, TypeOK
<1>2. \/ Evaluate \/ Save \/ Crash \/ StateLost \/ Deploy \/ UNCHANGED vars
      \/ \E d \in Conditions : NoteFails(d)
      => said' \subseteq said /\ inbox' = inbox
  BY DEF Evaluate, Save, Crash, StateLost, Deploy, NoteFails, Abandoned, Ended, vars
<1>. QED BY <1>1, <1>2 DEF Next, Fault

(* A poll never says again that a condition is firing, but of one that a   *)
(* cut-off poll noted, whose state was lost, or that is a warning.         *)
THEOREM Silence == Spec => SilentWhileFiring
<1>1. ASSUME TypeOK, AgreeInv, [Next]_vars, NEW c \in Conditions,
             c \in said' \ said, inbox[c] = inbox'[c], c \notin cut
      PROVE  Quiet(c)
  <2>1. Advance(c) /\ Note(c) # "none" /\ inbox[c] = Note(c)
    BY <1>1, NotesAreAdvances
  <2>2. Agree(c, work)
    BY <1>1, <2>1 DEF AgreeInv, Advance, Turn
  <2>3. CASE Fires(c)
    <3>1. inbox[c] = "firing" /\ work[c].state # "alerting"
      BY <2>1, <2>3 DEF Note, Fires, Resolves
    <3>. QED BY <2>2, <3>1 DEF Agree
  <2>4. CASE ~Fires(c)
    <3>1. inbox[c] = "resolved" /\ work[c].state = "alerting"
      BY <2>1, <2>4 DEF Note, Resolves
    <3>. QED BY <2>2, <3>1 DEF Agree
  <2>. QED BY <2>3, <2>4
<1>2. TypeOK /\ AgreeInv /\ [Next]_vars =>
         [\A c \in Conditions : c \in said' \ said /\ inbox[c] = inbox'[c]
                                  => c \in cut \/ Quiet(c)]_vars
  BY <1>1
<1>3. Init => TypeOK /\ AgreeInv
  BY InitTypeOK, InitAgree
<1>4. (TypeOK /\ AgreeInv) /\ [Next]_vars => (TypeOK /\ AgreeInv)'
  BY NextTypeOK, NextAgree
<1>. QED BY <1>2, <1>3, <1>4, PTL DEF Spec, SilentWhileFiring

(* Once a poll has found a backend unreachable, its rules are not to be    *)
(* advanced, and what was alerting is so still in memory.                  *)
OutageInv ==
    \A r \in Rules, c \in Conditions :
        Unreachable(Source[r]) /\ OfRule(c, {r}) =>
           /\ reading[c] = "keep"
           /\ saved[c] = Alerting /\ c \notin cut => work[c] = Alerting

LEMMA EvaluateOutage == TypeOK /\ Evaluate => OutageInv'
<1>. SUFFICES ASSUME TypeOK, Evaluate,
                     NEW r \in Rules, NEW c \in Conditions,
                     Unreachable(Source[r])', OfRule(c, {r})
              PROVE  /\ reading'[c] = "keep"
                     /\ saved'[c] = Alerting /\ c \notin cut' => work'[c] = Alerting
  BY DEF OutageInv, OfRule
<1>1. PICK failed \in SUBSET {Source[q] : q \in Active},
           result \in [Rules -> [Series -> Samples]] :
              reading' = Read(failed, result)
  BY DEF Evaluate
<1>2. failed \in SUBSET Backends /\ Source[r] \in Backends
  BY InboxAssumption DEF Active
<1>3. /\ \A b \in Backends :
            Read(failed, result)[b] = IF b \in failed THEN "true" ELSE "false"
      /\ \A q \in Rules, d \in Conditions :
            Source[q] \in failed /\ OfRule(d, {q}) => Read(failed, result)[d] = "keep"
  BY <1>2, ReadKinds
<1>4. Source[r] \in failed
  <2>1. reading'[Source[r]] # "false"
    BY DEF Unreachable
  <2>. QED BY <1>1, <1>2, <1>3, <2>1
<1>5. reading'[c] = "keep"
  BY <1>1, <1>3, <1>4
<1>6. ASSUME saved'[c] = Alerting, c \notin cut' PROVE work'[c] = Alerting
  <2>1. saved' = Aged /\ ~(OfRule(c, Retired) /\ saved[c] = Alerting)
    BY <1>6 DEF Evaluate
  <2>2. saved[c].state = "alerting" /\ saved[c] \in Entry /\ saved[c].age = 0
    BY <1>6, <2>1, AgedStates DEF TypeOK, States, Alerting
  <2>3. saved[c] = Alerting
    BY <2>2 DEF Entry, Alerting
  <2>4. work'[c] = Aged[c]
    BY <2>1, <2>3 DEF Evaluate
  <2>. QED BY <1>6, <2>1, <2>4
<1>. QED BY <1>5, <1>6

LEMMA AdvanceOutage ==
  ASSUME TypeOK, OutageInv, NEW d \in Conditions, Advance(d)
  PROVE  OutageInv'
<1>. SUFFICES ASSUME NEW r \in Rules, NEW c \in Conditions,
                     Unreachable(Source[r])', OfRule(c, {r})
              PROVE  /\ reading'[c] = "keep"
                     /\ saved'[c] = Alerting /\ c \notin cut' => work'[c] = Alerting
  BY DEF OutageInv, OfRule
<1>. DEFINE b == Source[r]
<1>1. b \in Conditions /\ on
  BY InboxAssumption DEF Conditions, Advance, Turn
<1>2. /\ saved' = saved /\ cut' = cut
      /\ \A e \in Conditions \ {d} : reading'[e] = reading[e] /\ work'[e] = work[e]
      /\ reading'[d] = "keep" /\ work'[d] = Entered(d) /\ reading[d] # "keep"
  BY DEF Advance, Turn, Todo, TypeOK, States
<1>3. Unreachable(b)
  <2>1. CASE d = b
    <3>1. Entered(b) = Alerting
      BY <1>2, <2>1 DEF Unreachable
    <3>2. reading[b] # "false"
      BY <3>1 DEF Entered, Normal, Alerting
    <3>. QED BY <1>1, <1>2, <2>1, <3>2 DEF Unreachable, TypeOK
  <2>2. CASE d # b
    BY <1>1, <1>2, <2>2 DEF Unreachable
  <2>. QED BY <2>1, <2>2
<1>4. reading[c] = "keep"
  BY <1>3 DEF OutageInv
<1>5. c # d
  BY <1>2, <1>4
<1>. QED BY <1>2, <1>3, <1>4, <1>5 DEF OutageInv

LEMMA NextOutage == TypeOK /\ OutageInv /\ [Next]_vars => OutageInv'
<1>. SUFFICES ASSUME TypeOK, OutageInv, [Next]_vars PROVE OutageInv'
  OBVIOUS
<1>1. CASE Evaluate
  BY <1>1, EvaluateOutage
<1>2. ASSUME NEW c \in Conditions, Advance(c) PROVE OutageInv'
  BY <1>2, AdvanceOutage
<1>3. CASE on' = FALSE
  BY <1>3 DEF OutageInv, Unreachable
<1>4. CASE UNCHANGED <<saved, on, reading, work, cut>>
  BY <1>4 DEF OutageInv, Unreachable, OfRule
<1>5. Save \/ (\E c \in Conditions : NoteFails(c)) \/ Crash \/ StateLost => on' = FALSE
  BY DEF Save, NoteFails, Crash, StateLost, Abandoned, Ended, TypeOK
<1>6. Deploy \/ UNCHANGED vars => UNCHANGED <<saved, on, reading, work, cut>>
  BY DEF Deploy, vars
<1>. QED BY <1>1, <1>2, <1>3, <1>4, <1>5, <1>6 DEF Next, Fault

(* An outage never reads as a resolve: no note, and what was alerting is   *)
(* saved as alerting.                                                      *)
THEOREM Outage == Spec => OutageIsNotResolve
<1>1. ASSUME TypeOK, OutageInv, [Next]_vars, NEW r \in Rules, NEW c \in Conditions,
             Unreachable(Source[r]), OfRule(c, {r})
      PROVE  /\ inbox'[c] = inbox[c]
             /\ saved[c] = Alerting /\ c \notin cut => saved'[c] = Alerting
  <2>1. on /\ reading[c] = "keep"
    BY <1>1 DEF OutageInv, Unreachable
  <2>2. ~Advance(c)
    BY <2>1 DEF Advance, Turn, Todo
  <2>3. inbox'[c] = inbox[c]
    BY <1>1, <2>2, NotesAreAdvances
  <2>4. Save \/ saved' = saved
    BY <1>1, <2>1 DEF Next, Fault, Evaluate, Advance, NoteFails, Crash, StateLost,
                      Deploy, Abandoned, vars
  <2>5. saved[c] = Alerting /\ c \notin cut => saved'[c] = Alerting
    BY <1>1, <2>4 DEF Save, OutageInv
  <2>. QED BY <2>3, <2>5
<1>2. TypeOK /\ OutageInv /\ [Next]_vars =>
         [\A r \in Rules, c \in Conditions :
             Unreachable(Source[r]) /\ OfRule(c, {r}) =>
                /\ inbox'[c] = inbox[c]
                /\ saved[c] = Alerting /\ c \notin cut => saved'[c] = Alerting]_vars
  BY <1>1
<1>3. Init => TypeOK /\ OutageInv
  BY InitTypeOK DEF Init, OutageInv, Unreachable
<1>4. (TypeOK /\ OutageInv) /\ [Next]_vars => (TypeOK /\ OutageInv)'
  BY NextTypeOK, NextOutage
<1>. QED BY <1>2, <1>3, <1>4, PTL DEF Spec, OutageIsNotResolve
=============================================================================
