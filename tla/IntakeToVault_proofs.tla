------------------------ MODULE IntakeToVault_proofs ------------------------
(***************************************************************************)
(* What the vault holds of the intake stays sound, for any keys, however   *)
(* their names clash, wherever runs are cut short and however memory-sync  *)
(* moves the branch under them.  The properties are not inductive alone:   *)
(* the page a run is writing must be one nothing links yet (Fresh), since  *)
(* the lint may still have it removed; what it is about to log must be     *)
(* there (RoutedThere); the log a side worktree would bring back must be   *)
(* one the pages bear out (SideSound); and a key takes its second name     *)
(* only beside a first one that it will never take (FirstNameHeld).        *)
(* The document door, which writes to the same vault, follows at the end.  *)
(***************************************************************************)
EXTENDS IntakeToVault, DocDoor, FiniteSetTheorems, TLAPS

-----------------------------------------------------------------------------
(* The inductive invariant *)

InHand == step \in {"writing", "linting"}

Page == [key : Keys, text : {"torn", "cut", "whole"}]

There(s) == Exists(s) /\ pages[s].text # "torn"

FirstName(k, d)  == [day |-> d, slug |-> SlugOf[k], hash |-> None]
SecondName(k, d) == [day |-> d, slug |-> SlugOf[k], hash |-> k]

LinksAreThere == \A s \in Stems : Linked(s) => There(s)

ListedAreThere == \A s \in listed : Exists(s)

OwnNames ==
    \A s \in Stems : Exists(s) => /\ s.slug = SlugOf[pages[s].key]
                                  /\ s.hash \in {pages[s].key, None}

RoutedThere == \A s \in routed : There(s)

SideSound ==
    side # None => \A s \in Stems : side[s] <= 1 /\ (side[s] > 0 => There(s))

Fresh ==
    InHand =>
        /\ at \in Stems /\ pages[at] \in Page
        /\ logged[at] = 0
        /\ side # None => side[at] = 0
        /\ at \notin listed /\ at \notin routed
        /\ step = "linting" => pages[at].text # "torn"

FirstNameHeld ==
    \A k \in Keys, d \in Days :
        Exists(SecondName(k, d)) =>
            /\ Exists(FirstName(k, d))
            /\ ~NamesSource(FirstName(k, d), k)
            /\ InHand => at # FirstName(k, d)

Sound == LinksAreThere /\ ListedAreThere /\ OwnNames

IInv ==
    /\ TypeOK
    /\ LoggedOnce
    /\ Sound
    /\ RoutedThere
    /\ SideSound
    /\ Fresh
    /\ FirstNameHeld

-----------------------------------------------------------------------------
(* Names *)

LEMMA NamesAreStems ==
    ASSUME NEW k \in Keys, NEW d \in Days
    PROVE  /\ FirstName(k, d) \in Stems /\ SecondName(k, d) \in Stems
           /\ FirstName(k, d) # SecondName(k, d)
           /\ Candidates(k, d)[1] = FirstName(k, d)
           /\ Candidates(k, d)[2] = SecondName(k, d)
  <1>1. k # None
    BY VaultAssumption
  <1>2. FirstName(k, d).hash = None /\ SecondName(k, d).hash = k
    BY DEF FirstName, SecondName
  <1>3. FirstName(k, d) # SecondName(k, d)
    BY <1>1, <1>2
  <1> QED
    BY <1>3 DEF FirstName, SecondName, Stems, Candidates

(* The name a report's page gets is one of the key's two, the second only  *)
(* when the first is held and does not name the key; a page that is there  *)
(* under it names the key.                                                 *)
LEMMA NameForIsFree ==
    ASSUME NEW k \in Keys, NEW d \in Days, Free(k, d) # {}
    PROVE  /\ NameFor(k, d) \in Stems
           /\ \/ NameFor(k, d) = FirstName(k, d)
              \/ /\ NameFor(k, d) = SecondName(k, d)
                 /\ Exists(FirstName(k, d))
                 /\ ~NamesSource(FirstName(k, d), k)
           /\ Exists(NameFor(k, d)) => There(NameFor(k, d))
  <1>0. /\ FirstName(k, d) \in Stems /\ SecondName(k, d) \in Stems
        /\ Candidates(k, d)[1] = FirstName(k, d)
        /\ Candidates(k, d)[2] = SecondName(k, d)
    BY NamesAreStems
  <1>1. CASE 1 \in Free(k, d)
    <2>1. NameFor(k, d) = FirstName(k, d)
      BY <1>0, <1>1 DEF NameFor
    <2>2. ~Exists(FirstName(k, d)) \/ NamesSource(FirstName(k, d), k)
      BY <1>0, <1>1 DEF Free
    <2> QED
      BY <1>0, <2>1, <2>2 DEF There, NamesSource
  <1>2. CASE 1 \notin Free(k, d)
    <2>1. NameFor(k, d) = SecondName(k, d)
      BY <1>0, <1>2 DEF NameFor
    <2>2. Exists(FirstName(k, d)) /\ ~NamesSource(FirstName(k, d), k)
      BY <1>0, <1>2 DEF Free
    <2>3. 2 \in Free(k, d)
      BY <1>2 DEF Free
    <2>4. ~Exists(SecondName(k, d)) \/ NamesSource(SecondName(k, d), k)
      BY <1>0, <2>3 DEF Free
    <2> QED
      BY <1>0, <2>1, <2>2, <2>4 DEF There, NamesSource
  <1> QED
    BY <1>1, <1>2

(* Of two names that share a stem, what they are of is the same.           *)
LEMMA NamesTellApart ==
    ASSUME NEW k \in Keys, NEW l \in Keys, NEW d, NEW e
    PROVE  /\ SecondName(k, d) = SecondName(l, e) => k = l /\ d = e
           /\ SecondName(k, d) # FirstName(l, e)
           /\ FirstName(k, d) = FirstName(l, e) => d = e
  <1>1. k # None
    BY VaultAssumption
  <1>2. /\ SecondName(k, d).hash = k /\ SecondName(l, e).hash = l
        /\ SecondName(k, d).day = d /\ SecondName(l, e).day = e
        /\ FirstName(l, e).hash = None
        /\ FirstName(k, d).day = d /\ FirstName(l, e).day = e
    BY DEF FirstName, SecondName
  <1> QED
    BY <1>1, <1>2

(* The names clash as the property says, when the first is held.           *)
LEMMA SoundPages ==
    ASSUME Sound, FirstNameHeld
    PROVE  PagesAreSound
  <1>1. ASSUME NEW k \in Keys, NEW d \in Days
        PROVE  Cardinality({n \in 1..2 : NamesSource(Candidates(k, d)[n], k)}) <= 1
    <2> DEFINE N == {n \in 1..2 : NamesSource(Candidates(k, d)[n], k)}
    <2>1. ~(1 \in N /\ 2 \in N)
      BY NamesAreStems DEF FirstNameHeld, NamesSource
    <2>2. N \subseteq {1} \/ N \subseteq {2}
      BY <2>1
    <2>3. IsFiniteSet({1}) /\ Cardinality({1}) = 1 /\ IsFiniteSet({2}) /\ Cardinality({2}) = 1
      BY FS_Singleton
    <2>4. Cardinality(N) <= 1
      BY <2>2, <2>3, FS_Subset
    <2> QED
      BY <2>4
  <1> QED
    BY <1>1 DEF Sound, PagesAreSound, LinksAreThere, ListedAreThere, OwnNames, There

(* The mark of no page is not a page.                                      *)
LEMMA NoneIsNoPage == None \notin Page
  BY VaultAssumption DEF Page

-----------------------------------------------------------------------------
(* Type correctness *)

LEMMA TypeInit == Init => TypeOK
  <1> SUFFICES ASSUME Init
               PROVE  TypeOK
    OBVIOUS
  <1>1. day \in Days /\ troubles \in 0..MaxTroubles
    BY VaultAssumption DEF Init, Days
  <1>2. /\ reports \in [Keys -> [verdict : Verdicts, day : Days] \cup {None}]
        /\ pages \in [Stems -> Page \cup {None}]
        /\ logged \in [Stems -> Nat]
    BY DEF Init
  <1>3. /\ listed \subseteq Stems /\ loose \in BOOLEAN /\ pass \in BOOLEAN
        /\ step = "idle" /\ todo \subseteq Keys /\ routed \subseteq Stems
        /\ at \in Stems \cup {None} /\ side \in [Stems -> Nat] \cup {None}
    BY DEF Init
  <1> QED
    BY <1>1, <1>2, <1>3 DEF TypeOK, Page

(* The steps of everybody but the run, and those of the run that touch     *)
(* nothing in the vault.                                                   *)
LEMMA TypeStep ==
    ASSUME TypeOK, Fresh, [Next]_vars
    PROVE  TypeOK'
  <1> USE VaultAssumption
  <1>0. /\ day \in Days /\ reports \in [Keys -> [verdict : Verdicts, day : Days] \cup {None}]
        /\ pages \in [Stems -> Page \cup {None}]
        /\ listed \subseteq Stems /\ logged \in [Stems -> Nat]
        /\ loose \in BOOLEAN /\ pass \in BOOLEAN
        /\ step \in {"idle", "reading", "writing", "linting", "logging"}
        /\ todo \subseteq Keys /\ routed \subseteq Stems
        /\ at \in Stems \cup {None}
        /\ side \in [Stems -> Nat] \cup {None}
        /\ troubles \in 0..MaxTroubles
    BY DEF TypeOK, Page
  <1>t. Trouble => troubles' \in 0..MaxTroubles
    BY <1>0 DEF Trouble
  <1>1. ASSUME NEW k \in Keys, NEW v \in Verdicts, Judged(k, v)
        PROVE  TypeOK'
    <2>1. [verdict |-> v, day |-> day] \in [verdict : Verdicts, day : Days]
      BY <1>0
    <2>2. reports' \in [Keys -> [verdict : Verdicts, day : Days] \cup {None}]
      BY <1>0, <1>1, <2>1 DEF Judged
    <2>3. troubles' \in 0..MaxTroubles
      BY <1>0, <1>1, <1>t DEF Judged
    <2> QED
      BY <1>1, <2>2, <2>3 DEF Judged, TypeOK, files, filer
  <1>2. CASE NextDay
    <2>1. day' \in Days
      BY <1>0, <1>2 DEF NextDay, Days
    <2> QED
      BY <1>2, <2>1 DEF NextDay, TypeOK, files, filer
  <1>3. CASE PassBegins \/ PassEnds \/ SyncBegins \/ SyncMoves \/ SyncEnds
    <2>1. pass' \in BOOLEAN /\ loose' \in BOOLEAN
      BY <1>0, <1>3 DEF PassBegins, PassEnds, SyncBegins, SyncMoves, SyncEnds, files
    <2>2. logged' \in [Stems -> Nat] /\ side' \in [Stems -> Nat] \cup {None}
      BY <1>0, <1>3 DEF PassBegins, PassEnds, SyncBegins, SyncMoves, SyncEnds, files
    <2>3. UNCHANGED <<day, reports, pages, listed, filer, troubles>>
      BY <1>3 DEF PassBegins, PassEnds, SyncBegins, SyncMoves, SyncEnds, files
    <2> QED
      BY <2>1, <2>2, <2>3 DEF TypeOK, filer
  <1>4. CASE Begins
    BY <1>0, <1>4 DEF Begins, TypeOK, files
  <1>5. ASSUME NEW k \in Keys, Passes(k)
        PROVE  TypeOK'
    BY <1>0, <1>5 DEF Passes, TypeOK, files
  <1>6. ASSUME NEW k \in Keys, OnFile(k)
        PROVE  TypeOK'
    <2>1. reports[k].day \in Days
      BY <1>0, <1>6 DEF OnFile, Accepted
    <2>2. NameFor(k, reports[k].day) \in Stems
      BY <1>6, <2>1, NameForIsFree DEF OnFile
    <2>3. routed' \subseteq Stems
      BY <1>0, <1>6, <2>2 DEF OnFile
    <2> QED
      BY <1>0, <1>6, <2>3 DEF OnFile, TypeOK, files
  <1>7. ASSUME NEW k \in Keys, Creates(k)
        PROVE  TypeOK'
    <2> DEFINE s == NameFor(k, reports[k].day)
    <2>1. reports[k].day \in Days
      BY <1>0, <1>7 DEF Creates, Accepted
    <2>2. s \in Stems
      BY <1>7, <2>1, NameForIsFree DEF Creates
    <2>3. [key |-> k, text |-> "torn"] \in Page
      BY DEF Page
    <2>4. pages' = [pages EXCEPT ![s] = [key |-> k, text |-> "torn"]] /\ at' = s
      BY <1>7 DEF Creates
    <2>5. pages' \in [Stems -> Page \cup {None}] /\ at' \in Stems
      BY <1>0, <2>2, <2>3, <2>4
    <2> QED
      BY <1>0, <1>7, <2>5 DEF Creates, TypeOK, Page
  <1>8. CASE Writes
    <2> DEFINE p == [pages[at] EXCEPT !.text = IF pages[at].text = "torn" THEN "cut" ELSE "whole"]
    <2>1. at \in Stems /\ pages[at] \in Page
      BY <1>8 DEF Writes, Fresh, InHand
    <2>2. p \in Page
      BY <2>1 DEF Page
    <2>3. pages' = [pages EXCEPT ![at] = p]
      BY <1>8 DEF Writes
    <2>4. pages' \in [Stems -> Page \cup {None}]
      BY <1>0, <2>1, <2>2, <2>3
    <2>5. step' \in {"writing", "linting"}
      BY <1>8 DEF Writes
    <2> QED
      BY <1>0, <1>8, <2>4, <2>5 DEF Writes, TypeOK, Page
  <1>9. CASE LeavesPage
    BY <1>0, <1>9, <1>t DEF LeavesPage, TypeOK, files
  <1>10. CASE LintsClean
    <2>1. at \in Stems
      BY <1>10 DEF LintsClean, Fresh, InHand
    <2> QED
      BY <1>0, <1>10, <2>1 DEF LintsClean, TypeOK, files
  <1>11. CASE LintRefuses
    <2>1. pages' \in [Stems -> Page \cup {None}]
      BY <1>0, <1>11 DEF LintRefuses
    <2>2. troubles' \in 0..MaxTroubles
      BY <1>0, <1>11, <1>t DEF LintRefuses
    <2> QED
      BY <1>0, <1>11, <2>1, <2>2 DEF LintRefuses, TypeOK, Page
  <1>12. CASE Indexes
    <2>1. listed' \subseteq Stems
      BY <1>0, <1>12 DEF Indexes
    <2> QED
      BY <1>0, <1>12, <2>1 DEF Indexes, TypeOK
  <1>13. CASE IndexFails
    BY <1>0, <1>13, <1>t DEF IndexFails, TypeOK, files
  <1>14. ASSUME NEW s \in Stems, Skips(s)
         PROVE  TypeOK'
    BY <1>0, <1>14 DEF Skips, TypeOK, files
  <1>15. ASSUME NEW s \in Stems, Logs(s)
         PROVE  TypeOK'
    <2>1. logged' \in [Stems -> Nat]
      BY <1>0, <1>15 DEF Logs
    <2>2. loose' \in BOOLEAN
      <3>1. loose' \in {loose, TRUE}
        BY <1>15 DEF Logs
      <3> QED
        BY <1>0, <3>1
    <2> QED
      BY <1>0, <1>15, <2>1, <2>2 DEF Logs, TypeOK
  <1>16. ASSUME NEW s \in Stems, LogRefuses(s)
         PROVE  TypeOK'
    BY <1>0, <1>16, <1>t DEF LogRefuses, TypeOK, files
  <1>17. CASE Ends
    BY <1>0, <1>17 DEF Ends, TypeOK, files
  <1>18. CASE Killed
    <2>1. logged' = logged \/ \E s \in routed : logged' = [logged EXCEPT ![s] = @ + 1]
      BY <1>18 DEF Killed
    <2>2. logged' \in [Stems -> Nat]
      BY <1>0, <2>1
    <2>3. loose' \in BOOLEAN
      <3>1. loose' = loose \/ loose' = TRUE
        BY <1>18 DEF Killed
      <3> QED
        BY <1>0, <3>1
    <2>4. troubles' \in 0..MaxTroubles
      BY <1>0, <1>18, <1>t DEF Killed
    <2> QED
      BY <1>0, <1>18, <2>2, <2>3, <2>4 DEF Killed, TypeOK
  <1>19. CASE UNCHANGED vars
    BY <1>19 DEF vars, files, filer, TypeOK
  <1> QED
    BY <1>1, <1>2, <1>3, <1>4, <1>5, <1>6, <1>7, <1>8, <1>9, <1>10, <1>11, <1>12, <1>13,
       <1>14, <1>15, <1>16, <1>17, <1>18, <1>19 DEF Next, RunStep

-----------------------------------------------------------------------------
(* Every step keeps the invariant *)

LEMMA IInvInit == Init => IInv
  <1> SUFFICES ASSUME Init
               PROVE  IInv
    OBVIOUS
  <1>1. TypeOK
    BY TypeInit
  <1>2. \A s \in Stems : ~Exists(s) /\ ~Linked(s)
    BY DEF Init, Exists, Linked
  <1>3. LoggedOnce /\ Sound
    BY <1>2 DEF Init, LoggedOnce, Sound, LinksAreThere, ListedAreThere, OwnNames
  <1>4. RoutedThere /\ SideSound /\ Fresh
    BY DEF Init, RoutedThere, SideSound, Fresh, InHand
  <1>5. FirstNameHeld
    BY <1>2, NamesAreStems DEF FirstNameHeld
  <1> QED
    BY <1>1, <1>3, <1>4, <1>5 DEF IInv

(* A step that writes no page, no index and no log.                        *)
LEMMA QuietStep ==
    ASSUME IInv, TypeOK', UNCHANGED <<pages, listed, logged>>,
           side' = side \/ side' = None \/ side' = logged,
           \A s \in routed' : s \in routed \/ There(s),
           InHand' => UNCHANGED <<step, at, routed>>
    PROVE  IInv'
  <1>1. /\ \A s : Exists(s) <=> Exists(s)'
        /\ \A s : There(s) <=> There(s)'
        /\ \A s : Linked(s) <=> Linked(s)'
        /\ \A s, k : NamesSource(s, k) <=> NamesSource(s, k)'
    BY DEF Exists, There, Linked, NamesSource
  <1>2. LoggedOnce' /\ Sound'
    BY <1>1 DEF IInv, LoggedOnce, Sound, LinksAreThere, ListedAreThere, OwnNames
  <1>3. RoutedThere'
    BY <1>1 DEF IInv, RoutedThere
  <1>4. SideSound'
    <2>1. CASE side' = side \/ side' = None
      BY <1>1, <2>1 DEF IInv, SideSound
    <2>2. CASE side' = logged
      BY <1>1, <2>2 DEF IInv, SideSound, LoggedOnce, Sound, LinksAreThere, Linked
    <2> QED
      BY <2>1, <2>2
  <1>5. Fresh'
    <2> SUFFICES ASSUME InHand'
                 PROVE  /\ at' \in Stems /\ pages'[at'] \in Page
                        /\ logged'[at'] = 0
                        /\ side' # None => side'[at'] = 0
                        /\ at' \notin listed' /\ at' \notin routed'
                        /\ step' = "linting" => pages'[at'].text # "torn"
      BY DEF Fresh
    <2>1. InHand /\ UNCHANGED <<step, at, routed>>
      BY DEF InHand
    <2> QED
      BY <2>1 DEF IInv, Fresh
  <1>6. FirstNameHeld'
    <2> SUFFICES ASSUME NEW k \in Keys, NEW d \in Days, Exists(SecondName(k, d))'
                 PROVE  /\ Exists(FirstName(k, d))'
                        /\ ~NamesSource(FirstName(k, d), k)'
                        /\ InHand' => at' # FirstName(k, d)
      BY DEF FirstNameHeld, FirstName, SecondName
    <2>1. /\ Exists(FirstName(k, d))
          /\ ~NamesSource(FirstName(k, d), k)
          /\ InHand => at # FirstName(k, d)
      BY <1>1 DEF IInv, FirstNameHeld, SecondName, Exists
    <2>2. InHand' => InHand /\ at' = at
      BY DEF InHand
    <2> QED
      BY <1>1, <2>1, <2>2 DEF Exists, NamesSource
  <1> QED
    BY <1>2, <1>3, <1>4, <1>5, <1>6 DEF IInv

(* A line for a page on file that no log links, while no page is in hand.  *)
LEMMA LogStep ==
    ASSUME IInv, TypeOK', UNCHANGED <<pages, listed, side>>, ~InHand', routed' \subseteq routed,
           NEW s \in routed, ~Linked(s), logged' = [logged EXCEPT ![s] = @ + 1]
    PROVE  IInv'
  <1>1. s \in Stems /\ logged \in [Stems -> Nat] /\ There(s)
    BY DEF IInv, TypeOK, RoutedThere
  <1>2. logged[s] = 0 /\ logged'[s] = 1 /\ \A r \in Stems \ {s} : logged'[r] = logged[r]
    BY <1>1 DEF Linked
  <1>3. LoggedOnce'
    BY <1>2 DEF IInv, LoggedOnce
  <1>4. LinksAreThere'
    BY <1>1, <1>2 DEF IInv, Sound, LinksAreThere, Linked, There, Exists
  <1>5. ListedAreThere' /\ OwnNames' /\ RoutedThere'
    BY DEF IInv, Sound, ListedAreThere, OwnNames, RoutedThere, There, Exists
  <1>6. SideSound' /\ Fresh'
    BY DEF IInv, SideSound, Fresh, There, Exists
  <1>7. FirstNameHeld'
    BY DEF IInv, FirstNameHeld, FirstName, SecondName, Exists, NamesSource
  <1> QED
    BY <1>3, <1>4, <1>5, <1>6, <1>7 DEF IInv, Sound

(* memory-sync moves the branch to the log its side worktree has.          *)
LEMMA SyncMovesStep ==
    ASSUME IInv, TypeOK', SyncMoves
    PROVE  IInv'
  <1>1. /\ logged' = side /\ side # None /\ side' = None
        /\ UNCHANGED <<pages, listed, step, at, routed>>
    BY DEF SyncMoves, filer
  <1>2. LoggedOnce'
    BY <1>1 DEF IInv, SideSound, LoggedOnce
  <1>3. LinksAreThere'
    BY <1>1 DEF IInv, SideSound, LinksAreThere, Linked, There, Exists
  <1>4. ListedAreThere' /\ OwnNames' /\ RoutedThere' /\ SideSound'
    BY <1>1 DEF IInv, Sound, ListedAreThere, OwnNames, RoutedThere, SideSound, There, Exists
  <1>5. Fresh'
    BY <1>1 DEF IInv, Fresh, InHand
  <1>6. FirstNameHeld'
    BY <1>1 DEF IInv, FirstNameHeld, FirstName, SecondName, Exists, NamesSource, InHand
  <1> QED
    BY <1>2, <1>3, <1>4, <1>5, <1>6 DEF IInv, Sound

(* The page in hand is written, or removed: nothing refers to it yet.      *)
LEMMA InHandStep ==
    ASSUME IInv, TypeOK', InHand, UNCHANGED <<listed, logged, side, routed>>,
           \A s \in Stems : s # at => pages'[s] = pages[s],
           \/ /\ pages'[at] \in Page /\ pages'[at].key = pages[at].key
              /\ Exists(at) /\ at' = at
              /\ step' = "linting" => pages'[at].text # "torn"
           \/ pages'[at] = None /\ ~InHand'
    PROVE  IInv'
  <1>0. /\ at \in Stems /\ pages[at] \in Page /\ logged[at] = 0
        /\ side # None => side[at] = 0
        /\ at \notin listed /\ at \notin routed
        /\ listed \subseteq Stems /\ routed \subseteq Stems
    BY DEF IInv, Fresh, TypeOK
  <1>1. \A s \in Stems \ {at} : /\ Exists(s) <=> Exists(s)'
                                /\ There(s) <=> There(s)'
                                /\ \A k : NamesSource(s, k) <=> NamesSource(s, k)'
    BY DEF Exists, There, NamesSource
  <1>2. LoggedOnce'
    BY DEF IInv, LoggedOnce
  <1>3. LinksAreThere'
    BY <1>0, <1>1 DEF IInv, Sound, LinksAreThere, Linked
  <1>4. ListedAreThere' /\ RoutedThere'
    BY <1>0, <1>1 DEF IInv, Sound, ListedAreThere, RoutedThere
  <1>5. OwnNames'
    <2> SUFFICES ASSUME NEW s \in Stems, Exists(s)'
                 PROVE  s.slug = SlugOf[pages'[s].key] /\ s.hash \in {pages'[s].key, None}
      BY DEF OwnNames
    <2>1. CASE s = at
      BY <2>1 DEF IInv, Sound, OwnNames, Exists
    <2>2. CASE s # at
      BY <1>1, <2>2 DEF IInv, Sound, OwnNames
    <2> QED
      BY <2>1, <2>2
  <1>6. SideSound'
    BY <1>0, <1>1 DEF IInv, SideSound
  <1>7. Fresh'
    BY <1>0 DEF Fresh
  <1>8. FirstNameHeld'
    <2> SUFFICES ASSUME NEW k \in Keys, NEW d \in Days, Exists(SecondName(k, d))'
                 PROVE  /\ Exists(FirstName(k, d))'
                        /\ ~NamesSource(FirstName(k, d), k)'
                        /\ InHand' => at' # FirstName(k, d)
      BY DEF FirstNameHeld, FirstName, SecondName
    <2>1. FirstName(k, d) \in Stems /\ SecondName(k, d) \in Stems
      BY NamesAreStems
    <2>2. Exists(SecondName(k, d))
      <3>1. CASE SecondName(k, d) = at
        <4>1. pages'[at] # None
          BY <3>1 DEF Exists, SecondName
        <4> QED
          BY <3>1, <4>1
      <3>2. CASE SecondName(k, d) # at
        BY <2>1, <3>2 DEF Exists, SecondName
      <3> QED
        BY <3>1, <3>2
    <2>3. /\ Exists(FirstName(k, d)) /\ ~NamesSource(FirstName(k, d), k)
          /\ at # FirstName(k, d)
      BY <2>2 DEF IInv, FirstNameHeld
    <2>4. Exists(FirstName(k, d))' /\ ~NamesSource(FirstName(k, d), k)'
      BY <2>1, <2>3 DEF Exists, NamesSource, FirstName
    <2> QED
      BY <2>3, <2>4
  <1> QED
    BY <1>2, <1>3, <1>4, <1>5, <1>6, <1>7, <1>8 DEF IInv, Sound

(* A page is created under a name that nothing has, and nothing links.     *)
LEMMA CreateStep ==
    ASSUME IInv, TypeOK', NEW k \in Keys, Creates(k)
    PROVE  IInv'
  <1> DEFINE d == reports[k].day
             s == NameFor(k, d)
             page == [key |-> k, text |-> "torn"]
  <1>1. d \in Days /\ pages \in [Stems -> Page \cup {None}] /\ logged \in [Stems -> Nat]
        /\ listed \subseteq Stems
    BY DEF IInv, TypeOK, Creates, Accepted, Page
  <1>2. /\ Free(k, d) # {} /\ ~Exists(s) /\ at' = s /\ step' = "writing"
        /\ pages' = [pages EXCEPT ![s] = page]
        /\ UNCHANGED <<listed, logged, routed, side>>
    BY DEF Creates
  <1>3. /\ s \in Stems
        /\ \/ s = FirstName(k, d)
           \/ /\ s = SecondName(k, d)
              /\ Exists(FirstName(k, d)) /\ ~NamesSource(FirstName(k, d), k)
    BY <1>1, <1>2, NameForIsFree
  <1> HIDE DEF s
  <1>4. page \in Page /\ page.key = k /\ page.text = "torn"
    BY DEF Page
  <1>5. pages'[s] = page /\ \A r \in Stems : r # s => pages'[r] = pages[r]
    BY <1>1, <1>2, <1>3
  <1>6. \A r \in Stems \ {s} : /\ Exists(r) <=> Exists(r)'
                               /\ There(r) <=> There(r)'
                               /\ \A l : NamesSource(r, l) <=> NamesSource(r, l)'
    BY <1>5 DEF Exists, There, NamesSource
  <1>7. logged[s] = 0 /\ s \notin listed /\ s \notin routed
    BY <1>1, <1>2, <1>3 DEF IInv, Sound, LinksAreThere, ListedAreThere, RoutedThere, There, Linked
  <1>8. side # None => side[s] = 0
    <2> SUFFICES ASSUME side # None
                 PROVE  side[s] = 0
      OBVIOUS
    <2>1. side[s] \in Nat
      BY <1>3 DEF IInv, TypeOK
    <2>2. ~(side[s] > 0)
      BY <1>2, <1>3 DEF IInv, SideSound, There
    <2> QED
      BY <2>1, <2>2
  <1>9. LoggedOnce'
    BY <1>2 DEF IInv, LoggedOnce
  <1>10. LinksAreThere'
    BY <1>2, <1>6, <1>7 DEF IInv, Sound, LinksAreThere, Linked
  <1>11. ListedAreThere' /\ RoutedThere'
    BY <1>1, <1>2, <1>6, <1>7 DEF IInv, TypeOK, Sound, ListedAreThere, RoutedThere
  <1>12. OwnNames'
    <2> SUFFICES ASSUME NEW r \in Stems, Exists(r)'
                 PROVE  r.slug = SlugOf[pages'[r].key] /\ r.hash \in {pages'[r].key, None}
      BY DEF OwnNames
    <2>1. CASE r = s
      <3>1. s.slug = SlugOf[k] /\ s.hash \in {k, None}
        BY <1>3 DEF FirstName, SecondName
      <3> QED
        BY <1>4, <1>5, <2>1, <3>1
    <2>2. CASE r # s
      BY <1>5, <1>6, <2>2 DEF IInv, Sound, OwnNames
    <2> QED
      BY <2>1, <2>2
  <1>13. SideSound'
    BY <1>2, <1>6, <1>8 DEF IInv, SideSound
  <1>14. Fresh'
    BY <1>2, <1>3, <1>4, <1>5, <1>7, <1>8 DEF Fresh
  <1>15. FirstNameHeld'
    <2> SUFFICES ASSUME NEW l \in Keys, NEW e \in Days, Exists(SecondName(l, e))'
                 PROVE  /\ Exists(FirstName(l, e))'
                        /\ ~NamesSource(FirstName(l, e), l)'
                        /\ at' # FirstName(l, e)
      BY DEF FirstNameHeld, FirstName, SecondName
    <2>1. /\ FirstName(l, e) \in Stems /\ SecondName(l, e) \in Stems
          /\ FirstName(l, e) # SecondName(l, e)
          /\ SecondName(l, e) # FirstName(k, d)
          /\ SecondName(l, e) = SecondName(k, d) => l = k /\ e = d
      BY <1>1, NamesAreStems, NamesTellApart
    <2>2. Exists(FirstName(l, e)) /\ ~NamesSource(FirstName(l, e), l)
      <3>1. CASE SecondName(l, e) = s
        <4>1. l = k /\ e = d
          BY <1>3, <2>1, <3>1
        <4> QED
          BY <1>3, <2>1, <3>1, <4>1
      <3>2. CASE SecondName(l, e) # s
        <4>1. Exists(SecondName(l, e))
          BY <1>5, <2>1, <3>2 DEF Exists, SecondName
        <4> QED
          BY <4>1 DEF IInv, FirstNameHeld
      <3> QED
        BY <3>1, <3>2
    <2>3. FirstName(l, e) # s
      BY <1>2, <2>2
    <2>4. pages'[FirstName(l, e)] = pages[FirstName(l, e)]
      BY <1>5, <2>1, <2>3
    <2> QED
      BY <1>2, <2>2, <2>3, <2>4 DEF Exists, NamesSource, FirstName
  <1> QED
    BY <1>9, <1>10, <1>11, <1>12, <1>13, <1>14, <1>15 DEF IInv, Sound

(* bin/index.sh lists what there is.                                       *)
LEMMA IndexStep ==
    ASSUME IInv, TypeOK', Indexes
    PROVE  IInv'
  <1>1. /\ UNCHANGED <<pages, logged, side, routed>> /\ ~InHand'
        /\ listed' = listed \/ listed' = {s \in Stems : Exists(s)}
    BY DEF Indexes, InHand
  <1>2. ListedAreThere'
    BY <1>1 DEF IInv, Sound, ListedAreThere, Exists
  <1>3. LoggedOnce' /\ LinksAreThere' /\ OwnNames' /\ RoutedThere' /\ SideSound'
    BY <1>1 DEF IInv, Sound, LoggedOnce, LinksAreThere, OwnNames, RoutedThere, SideSound,
                Linked, There, Exists
  <1>4. Fresh' /\ FirstNameHeld'
    BY <1>1 DEF IInv, Fresh, FirstNameHeld, FirstName, SecondName, Exists, NamesSource
  <1> QED
    BY <1>2, <1>3, <1>4 DEF IInv, Sound

LEMMA IInvStep == IInv /\ [Next]_vars => IInv'
  <1> SUFFICES ASSUME IInv, [Next]_vars
               PROVE  IInv'
    OBVIOUS
  <1>0. TypeOK'
    BY TypeStep DEF IInv
  <1>1. CASE \/ \E k \in Keys, v \in Verdicts : Judged(k, v)
             \/ NextDay \/ PassBegins \/ PassEnds \/ SyncBegins \/ SyncEnds
    <2>1. /\ UNCHANGED <<pages, listed, logged, step, at, routed>>
          /\ side' = side \/ side' = None \/ side' = logged
      BY <1>1 DEF Judged, NextDay, PassBegins, PassEnds, SyncBegins, SyncEnds, files, filer
    <2> QED
      BY <1>0, <2>1, QuietStep
  <1>2. CASE SyncMoves
    BY <1>0, <1>2, SyncMovesStep
  <1>3. CASE Begins \/ LeavesPage \/ IndexFails \/ Ends
    <2>1. /\ UNCHANGED <<pages, listed, logged, side>> /\ routed' \subseteq routed
          /\ ~InHand'
      BY <1>3 DEF Begins, LeavesPage, IndexFails, Ends, files, InHand
    <2> QED
      BY <1>0, <2>1, QuietStep
  <1>4. ASSUME NEW k \in Keys, Passes(k)
        PROVE  IInv'
    <2>1. /\ UNCHANGED <<pages, listed, logged, side, routed>> /\ ~InHand'
      BY <1>4 DEF Passes, files, InHand
    <2> QED
      BY <1>0, <2>1, QuietStep
  <1>5. ASSUME NEW k \in Keys, OnFile(k)
        PROVE  IInv'
    <2> DEFINE s == NameFor(k, reports[k].day)
    <2>1. reports[k].day \in Days
      BY <1>5 DEF IInv, TypeOK, OnFile, Accepted
    <2>2. There(s)
      BY <1>5, <2>1, NameForIsFree DEF OnFile
    <2>3. /\ UNCHANGED <<pages, listed, logged, side>> /\ ~InHand'
          /\ routed' = routed \cup {s}
      BY <1>5 DEF OnFile, files, InHand
    <2> QED
      BY <1>0, <2>2, <2>3, QuietStep
  <1>6. ASSUME NEW k \in Keys, Creates(k)
        PROVE  IInv'
    BY <1>0, <1>6, CreateStep
  <1>7. CASE Writes
    <2> DEFINE p == [pages[at] EXCEPT !.text = IF pages[at].text = "torn" THEN "cut" ELSE "whole"]
    <2>1. InHand /\ at \in Stems /\ pages[at] \in Page /\ pages \in [Stems -> Page \cup {None}]
      BY <1>7 DEF Writes, IInv, Fresh, InHand, TypeOK, Page
    <2>2. p \in Page /\ p.key = pages[at].key /\ p.text # "torn"
      BY <2>1 DEF Page
    <2>3. pages' = [pages EXCEPT ![at] = p] /\ UNCHANGED <<listed, logged, side, routed, at>>
      BY <1>7 DEF Writes
    <2>4. pages'[at] = p /\ \A s \in Stems : s # at => pages'[s] = pages[s]
      BY <2>1, <2>3
    <2>5. CASE Exists(at)
      BY <1>0, <2>1, <2>2, <2>3, <2>4, <2>5, InHandStep
    <2>6. CASE ~Exists(at)
      BY <2>1, <2>6, NoneIsNoPage DEF Exists
    <2> QED
      BY <2>5, <2>6
  <1>8. CASE LintsClean
    <2>1. There(at)
      BY <1>8, NoneIsNoPage DEF LintsClean, IInv, Fresh, InHand, There, Exists
    <2>2. /\ UNCHANGED <<pages, listed, logged, side>> /\ ~InHand'
          /\ routed' = routed \cup {at}
      BY <1>8 DEF LintsClean, files, InHand
    <2> QED
      BY <1>0, <2>1, <2>2, QuietStep
  <1>9. CASE LintRefuses
    <2>1. InHand /\ at \in Stems /\ pages \in [Stems -> Page \cup {None}]
      BY <1>9 DEF LintRefuses, IInv, Fresh, InHand, TypeOK, Page
    <2>2. /\ pages' = [pages EXCEPT ![at] = None] /\ ~InHand'
          /\ UNCHANGED <<listed, logged, side, routed>>
      BY <1>9 DEF LintRefuses, InHand
    <2>3. pages'[at] = None /\ \A s \in Stems : s # at => pages'[s] = pages[s]
      BY <2>1, <2>2
    <2> QED
      BY <1>0, <2>1, <2>2, <2>3, InHandStep
  <1>10. CASE Indexes
    BY <1>0, <1>10, IndexStep
  <1>11. ASSUME NEW s \in Stems, Skips(s) \/ LogRefuses(s)
         PROVE  IInv'
    <2>1. /\ UNCHANGED <<pages, listed, logged, side>> /\ ~InHand'
          /\ routed' \subseteq routed
      BY <1>11 DEF Skips, LogRefuses, files, InHand
    <2> QED
      BY <1>0, <2>1, QuietStep
  <1>12. ASSUME NEW s \in Stems, Logs(s)
         PROVE  IInv'
    <2>1. /\ s \in routed /\ ~Linked(s) /\ logged' = [logged EXCEPT ![s] = @ + 1]
          /\ UNCHANGED <<pages, listed, side>> /\ ~InHand' /\ routed' \subseteq routed
      BY <1>12 DEF Logs, InHand
    <2> QED
      BY <1>0, <2>1, LogStep
  <1>13. CASE Killed
    <2>1. UNCHANGED <<pages, listed, side>> /\ ~InHand' /\ routed' = {}
      BY <1>13 DEF Killed, InHand
    <2>2. CASE logged' = logged
      BY <1>0, <2>1, <2>2, QuietStep
    <2>3. CASE logged' # logged
      <3>1. PICK s \in routed : ~Linked(s) /\ logged' = [logged EXCEPT ![s] = @ + 1]
        BY <1>13, <2>3 DEF Killed
      <3> QED
        BY <1>0, <2>1, <3>1, LogStep
    <2> QED
      BY <2>2, <2>3
  <1>14. CASE UNCHANGED vars
    <2>1. UNCHANGED <<pages, listed, logged, side, step, at, routed>>
      BY <1>14 DEF vars, files, filer
    <2> QED
      BY <1>0, <2>1, QuietStep
  <1> QED
    BY <1>1, <1>2, <1>3, <1>4, <1>5, <1>6, <1>7, <1>8, <1>9, <1>10, <1>11, <1>12, <1>13, <1>14
    DEF Next, RunStep

LEMMA IInvAlways == Spec => []IInv
  BY IInvInit, IInvStep, PTL DEF Spec

-----------------------------------------------------------------------------
(* The results *)

(* The files, the run and the side worktree stay what the scripts can      *)
(* write (intake_to_vault.py, memory-sync.sh).                             *)
THEOREM Typing == Spec => []TypeOK
  BY IInvAlways, PTL DEF IInv

(* Whatever a log or the index links is there, under its key's own name,   *)
(* and a key never has two pages for one report, wherever runs are cut     *)
(* short (page_candidates, write_new, file_page).*)
THEOREM ThePagesAreSound == Spec => []PagesAreSound
  <1>1. IInv => PagesAreSound
    BY SoundPages DEF IInv
  <1> QED
    BY <1>1, IInvAlways, PTL

(* A page has at most one line in the logs, although a line can be on disk *)
(* uncommitted, or taken back by memory-sync (linked_from_a_log).          *)
THEOREM OneLogLine == Spec => []LoggedOnce
  BY IInvAlways, PTL DEF IInv

-----------------------------------------------------------------------------
(* The document door, which writes the same vault through the same log.sh  *)
(* and files originals on Drive (DocDoor.tla)                              *)

(* What a copy of state.json calls filed is on Drive, there and under that *)
(* name; what it calls reported has a folder to be filed in.               *)
BorneOut(s) == \A d \in Docs : s.filed[d] # Null => copies[d][s.filed[d]] > 0

Placed(s) == \A d \in Docs : s.status[d] = "reported" => s.folder[d] \in Folders

NoneTwice == \A d \in Docs, f \in Files : copies[d][f] <= 1

(* What a command has in hand at each of its steps.                        *)
DoorTyped ==
    /\ DoorTypeOK
    /\ doorStep = "logging" => doorTodo \subseteq Docs
    /\ doorStep = "filing" => doorTodo \subseteq Docs /\ \A d \in doorTodo : mem.status[d] = "reported"
    /\ doorStep = "reading" => doorTodo \subseteq Messages
    /\ doorStep = "opening" => doorTodo \subseteq Messages /\ current \in [message : Messages, left : SUBSET Docs]

DoorIInv ==
    /\ DoorTyped
    /\ BorneOut(saved) /\ BorneOut(mem) /\ NoneTwice
    /\ Placed(saved) /\ Placed(mem)

LEMMA DoorBegins == DoorInit => DoorIInv
  <1> SUFFICES ASSUME DoorInit PROVE DoorIInv
    OBVIOUS
  <1> USE DocDoorAssumption DEF DoorInit, EmptyState
  <1>1. EmptyState \in States
    BY DEF States
  <1>2. DoorTyped
    BY <1>1 DEF DoorTyped, DoorTypeOK
  <1>3. BorneOut(saved) /\ BorneOut(mem) /\ NoneTwice /\ Placed(saved) /\ Placed(mem)
    BY DEF BorneOut, NoneTwice, Placed
  <1> QED BY <1>2, <1>3 DEF DoorIInv

(* A record of which only what was shown, logged or skipped changes.       *)
LEMMA SameFiling ==
    ASSUME DoorIInv, mem' \in States, mem'.filed = mem.filed \/ mem'.filed = saved.filed,
           Placed(mem)', saved' \in {saved, mem, mem'}, UNCHANGED copies
    PROVE  BorneOut(saved)' /\ BorneOut(mem)' /\ NoneTwice' /\ Placed(saved)'
  BY DEF DoorIInv, BorneOut, NoneTwice, Placed

(* A document to be filed has a place to be filed at.                      *)
LEMMA TargetIsAFile ==
    ASSUME DoorIInv, doorStep = "filing", NEW d \in doorTodo
    PROVE  d \in Docs /\ Target(d) \in Files
  <1>1. d \in Docs /\ mem.folder[d] \in Folders
    BY DEF DoorIInv, DoorTyped, Placed
  <1> QED BY <1>1 DEF Target, InFolder, Files

(* One more copy where Target says: there was none there.                  *)
LEMMA OneMoreCopy ==
    ASSUME DoorIInv, doorStep = "filing", NEW d \in doorTodo, ~ThereAlready(d), Uploaded(d)
    PROVE  /\ copies' \in [Docs -> [Files -> Nat]]
           /\ NoneTwice'
           /\ copies'[d][Target(d)] > 0
           /\ \A e \in Docs, f \in Files : copies'[e][f] >= copies[e][f]
  <1> DEFINE t == Target(d)
             had == copies[d]
             has == [had EXCEPT ![t] = @ + 1]
  <1>1. copies \in [Docs -> [Files -> Nat]] /\ NoneTwice
    BY DEF DoorIInv, DoorTyped, DoorTypeOK
  <1>2. d \in Docs /\ t \in Files
    BY TargetIsAFile
  <1>3. had \in [Files -> Nat] /\ \A f \in Files : had[f] <= 1
    BY <1>1, <1>2 DEF NoneTwice
  <1>4. had[t] = 0
    <2>1. copies[d][t] \in Nat
      BY <1>2, <1>3
    <2>2. CASE Taken(d)
      BY <2>1, <2>2 DEF Target, ThereAlready, HashTaken
    <2>3. CASE ~Taken(d)
      BY <1>2, <2>1, <2>3 DEF Target, Taken
    <2> QED BY <2>2, <2>3
  <1>5. copies' = [copies EXCEPT ![d] = has]
    BY DEF Uploaded
  <1> HIDE DEF t, had
  <1>6. /\ has \in [Files -> Nat] /\ has[t] = 1
        /\ \A f \in Files : has[f] <= 1 /\ has[f] >= had[f]
    BY <1>2, <1>3, <1>4
  <1> HIDE DEF has
  <1>7. /\ copies' \in [Docs -> [Files -> Nat]] /\ copies'[d] = has
        /\ \A e \in Docs \ {d} : copies'[e] = copies[e]
    BY <1>1, <1>2, <1>5, <1>6
  <1>8. ASSUME NEW e \in Docs, NEW f \in Files PROVE copies'[e][f] <= 1 /\ copies'[e][f] >= copies[e][f]
    <2>1. CASE e = d
      BY <1>6, <1>7, <2>1 DEF had
    <2>2. CASE e # d
      <3>1. copies[e][f] \in Nat /\ copies[e][f] <= 1
        BY <1>1 DEF NoneTwice
      <3> QED BY <1>7, <2>2, <3>1
    <2> QED BY <2>1, <2>2
  <1>9. NoneTwice'
    BY <1>8 DEF NoneTwice
  <1>10. copies'[d][Target(d)] > 0
    BY <1>6, <1>7 DEF t
  <1> QED BY <1>7, <1>8, <1>9, <1>10

(* What was borne out still is when copies are only added.                 *)
LEMMA StillBorneOut ==
    ASSUME DoorIInv, copies' \in [Docs -> [Files -> Nat]],
           \A e \in Docs, f \in Files : copies'[e][f] >= copies[e][f],
           NEW s \in States, BorneOut(s)
    PROVE  \A d \in Docs : s.filed[d] # Null => copies'[d][s.filed[d]] > 0
  <1> SUFFICES ASSUME NEW d \in Docs, s.filed[d] # Null PROVE copies'[d][s.filed[d]] > 0
    OBVIOUS
  <1> DEFINE f == s.filed[d]
  <1>1. f \in Files
    BY DEF States
  <1>2. copies[d][f] > 0
    BY DEF BorneOut
  <1>3. copies[d][f] \in Nat /\ copies'[d][f] \in Nat
    BY <1>1 DEF DoorIInv, DoorTyped, DoorTypeOK
  <1> QED BY <1>1, <1>2, <1>3

(* The state's records; a command changes one field at a time.             *)
LEMMA Recorded ==
    ASSUME NEW s \in States, NEW d \in Docs, Placed(s)
    PROVE  /\ [s EXCEPT !.logged = @ \cup {d}] \in States
           /\ [s EXCEPT !.logged = @ \cup {d}].filed = s.filed
           /\ Placed([s EXCEPT !.logged = @ \cup {d}])
  BY DocDoorAssumption DEF States, Placed

LEMMA RecordedReport ==
    ASSUME NEW s \in States, NEW d \in Docs, NEW f \in Folders, Placed(s)
    PROVE  /\ [s EXCEPT !.status[d] = "reported", !.folder[d] = f] \in States
           /\ [s EXCEPT !.status[d] = "reported", !.folder[d] = f].filed = s.filed
           /\ Placed([s EXCEPT !.status[d] = "reported", !.folder[d] = f])
  <1>1. /\ [s EXCEPT !.status[d] = "reported", !.folder[d] = f] \in States
        /\ [s EXCEPT !.status[d] = "reported", !.folder[d] = f].filed = s.filed
    BY DocDoorAssumption DEF States
  <1>2. /\ [s EXCEPT !.status[d] = "reported", !.folder[d] = f].status = [s.status EXCEPT ![d] = "reported"]
        /\ [s EXCEPT !.status[d] = "reported", !.folder[d] = f].folder = [s.folder EXCEPT ![d] = f]
    BY DEF States
  <1>3. s.status \in [Docs -> {Null, "converted", "reported"}] /\ s.folder \in [Docs -> Folders \cup {Null}]
    BY DEF States
  <1>4. Placed([s EXCEPT !.status[d] = "reported", !.folder[d] = f])
    BY <1>2, <1>3 DEF Placed
  <1> QED BY <1>1, <1>4

LEMMA RecordedConverted ==
    ASSUME NEW s \in States, NEW d \in Docs, NEW m \in Messages, Placed(s)
    PROVE  /\ [s EXCEPT !.status[d] = "converted", !.of[d] = m] \in States
           /\ [s EXCEPT !.status[d] = "converted", !.of[d] = m].filed = s.filed
           /\ Placed([s EXCEPT !.status[d] = "converted", !.of[d] = m])
  BY DocDoorAssumption DEF States, Placed

LEMMA RecordedSkip ==
    ASSUME NEW s \in States, NEW m \in Messages
    PROVE  /\ [s EXCEPT !.skipped = @ \cup {m}] \in States
           /\ [s EXCEPT !.skipped = @ \cup {m}].filed = s.filed
           /\ [s EXCEPT !.skipped = @ \cup {m}].status = s.status
           /\ [s EXCEPT !.skipped = @ \cup {m}].folder = s.folder
  <1>1. s.skipped \cup {m} \in SUBSET Messages
    BY DEF States
  <1> QED BY <1>1 DEF States

LEMMA PickedAreDocs == \A n, S : \A some \in UpTo(n, S) : some \subseteq S
  BY DEF UpTo

LEMMA TroubleTyped ==
    DoorIInv /\ DoorTrouble => doorTroubles' \in 0 .. MaxDoorTroubles
  BY DocDoorAssumption DEF DoorIInv, DoorTyped, DoorTypeOK, DoorTrouble

(* Every step of a command but the filing, and what the agent reports.     *)
LEMMA OtherStep ==
    ASSUME DoorIInv,
           \/ \E m \in Messages : Arrives(m) \/ Lapses(m) \/ Opens(m)
           \/ ScanBegins
           \/ \E d \in Docs, f \in Folders : Reports(d, f)
           \/ \E d \in Docs : LogsLine(d) \/ LogFails(d) \/ PassesOver(d) \/ Converts(d)
           \/ LogsSaved \/ MailFails \/ Searches \/ FilingEnds
           \/ OpenFails \/ Closes \/ ScanEnds
    PROVE  DoorIInv'
  <1> USE DEF Save
  <1>0. /\ saved \in States /\ mem \in States /\ mail \subseteq Messages /\ shown \subseteq Docs
        /\ copies \in [Docs -> [Files -> Nat]] /\ lines \in [Docs -> Nat]
        /\ doorTroubles \in 0 .. MaxDoorTroubles
        /\ doorStep = "logging" => doorTodo \subseteq Docs
        /\ doorStep = "filing" => doorTodo \subseteq Docs /\ \A d \in doorTodo : mem.status[d] = "reported"
        /\ Placed(saved) /\ Placed(mem)
        /\ doorStep = "reading" => doorTodo \subseteq Messages
        /\ doorStep = "opening" => doorTodo \subseteq Messages /\ current \in [message : Messages, left : SUBSET Docs]
    BY DEF DoorIInv, DoorTyped, DoorTypeOK
  <1> DEFINE Goal == DoorTyped' /\ mem' \in States
                        /\ (mem'.filed = mem.filed \/ mem'.filed = saved.filed)
                        /\ Placed(mem)' /\ saved' \in {saved, mem, mem'} /\ UNCHANGED copies
  <1>1. ASSUME NEW m \in Messages, Arrives(m) \/ Lapses(m) PROVE Goal
    BY <1>0, <1>1, TroubleTyped DEF Arrives, Lapses, command, DoorTyped, DoorTypeOK
  <1>2. ASSUME ScanBegins PROVE Goal
    <2>1. Unlogged(saved) \subseteq Docs
      BY DEF Unlogged
    <2> QED BY <1>0, <1>2, <2>1 DEF ScanBegins, DoorTyped, DoorTypeOK
  <1>3. ASSUME NEW d \in Docs, NEW f \in Folders, Reports(d, f) PROVE Goal
    <2>1. Unlogged(mem') \subseteq Docs
      BY DEF Unlogged
    <2>2. mem' \in States /\ mem'.filed = saved.filed /\ Placed(mem)' /\ saved' = mem'
      BY <1>0, <1>3, RecordedReport DEF Reports
    <2> QED BY <1>0, <1>3, <2>1, <2>2 DEF Reports, DoorTyped, DoorTypeOK
  <1>4. ASSUME NEW d \in Docs, LogsLine(d) PROVE Goal
    <2>1. mem' \in States /\ mem'.filed = mem.filed /\ Placed(mem)'
      BY <1>0, <1>4, Recorded DEF LogsLine
    <2>2. lines' \in [Docs -> Nat]
      BY <1>0, <1>4 DEF LogsLine
    <2> QED BY <1>0, <1>4, <2>1, <2>2 DEF LogsLine, DoorTyped, DoorTypeOK
  <1>5. ASSUME NEW d \in Docs, LogFails(d) PROVE Goal
    <2>1. lines' \in [Docs -> Nat]
      BY <1>0, <1>5 DEF LogFails
    <2> QED BY <1>0, <1>5, <2>1, TroubleTyped DEF LogFails, DoorTyped, DoorTypeOK
  <1>6. ASSUME NEW d \in Docs, PassesOver(d) PROVE Goal
    <2>1. doorStep = "opening" /\ current' \in [message : Messages, left : SUBSET Docs]
      BY <1>0, <1>6 DEF PassesOver, Advanced
    <2> QED BY <1>0, <1>6, <2>1 DEF PassesOver, DoorTyped, DoorTypeOK
  <1>7. ASSUME NEW d \in Docs, Converts(d) PROVE Goal
    <2>1. doorStep = "opening" /\ current' \in [message : Messages, left : SUBSET Docs]
      BY <1>0, <1>7 DEF Converts, Advanced
    <2>2. current.message \in Messages
      BY <1>0, <2>1
    <2>3. mem' \in States /\ mem'.filed = mem.filed /\ Placed(mem)' /\ saved' = mem'
      <3>1. mem' = [mem EXCEPT !.status[d] = "converted", !.of[d] = current.message] /\ saved' = mem'
        BY <1>7 DEF Converts
      <3> DEFINE m == current.message
      <3>2. m \in Messages /\ mem \in States
        BY <1>0, <2>2
      <3>3. mem' = [mem EXCEPT !.status[d] = "converted", !.of[d] = m]
        BY <3>1
      <3> HIDE DEF m
      <3>4. /\ [mem EXCEPT !.status[d] = "converted", !.of[d] = m] \in States
            /\ [mem EXCEPT !.status[d] = "converted", !.of[d] = m].filed = mem.filed
            /\ Placed([mem EXCEPT !.status[d] = "converted", !.of[d] = m])
        BY <1>0, <3>2, RecordedConverted
      <3> QED BY <3>1, <3>3, <3>4
    <2> QED BY <1>0, <1>7, <2>1, <2>3 DEF Converts, DoorTyped, DoorTypeOK
  <1>8. ASSUME LogsSaved PROVE Goal
    <2>1. /\ Converted(mem) \subseteq Docs /\ Unfiled(mem) \subseteq Docs
          /\ \A d \in Unfiled(mem) : mem.status[d] = "reported"
      BY DEF Converted, Unfiled
    <2>2. /\ shown' \subseteq Docs
          /\ \/ doorStep' = "searching"
             \/ doorStep' = "filing" /\ doorTodo' \subseteq Unfiled(mem)
      <3>1. CASE current = "scan"
        BY <1>0, <1>8, <2>1, <3>1, PickedAreDocs DEF LogsSaved
      <3>2. CASE current # "scan"
        BY <1>0, <1>8, <2>1, <3>2, PickedAreDocs DEF LogsSaved
      <3> QED BY <3>1, <3>2
    <2>3. saved' = mem /\ UNCHANGED <<mem, mail, current, copies, lines, doorTroubles>>
      BY <1>8 DEF LogsSaved
    <2> QED BY <1>0, <2>1, <2>2, <2>3 DEF DoorTyped, DoorTypeOK
  <1>9. ASSUME MailFails PROVE Goal
    BY <1>0, <1>9, TroubleTyped DEF MailFails, DoorTyped, DoorTypeOK
  <1>10. ASSUME Searches PROVE Goal
    <2>1. Unfiled(mem) \subseteq Docs /\ \A d \in Unfiled(mem) : mem.status[d] = "reported"
      BY DEF Unfiled
    <2>2. doorStep' = "filing" /\ doorTodo' \subseteq Unfiled(mem)
      BY <1>10, <2>1, PickedAreDocs DEF Searches
    <2> QED BY <1>0, <1>10, <2>1, <2>2 DEF Searches, DoorTyped, DoorTypeOK
  <1>11. ASSUME FilingEnds PROVE Goal
    <2>1. doorStep' = "idle" \/ (doorStep' = "reading" /\ doorTodo' \subseteq Messages)
      BY <1>0, <1>11 DEF FilingEnds
    <2> QED BY <1>0, <1>11, <2>1 DEF FilingEnds, DoorTyped, DoorTypeOK
  <1>12. ASSUME NEW m \in Messages, Opens(m) PROVE Goal
    <2>1. mem' \in States /\ mem'.filed = mem.filed /\ Placed(mem)'
      <3>1. /\ [mem EXCEPT !.skipped = @ \cup {m}] \in States
            /\ [mem EXCEPT !.skipped = @ \cup {m}].filed = mem.filed
            /\ [mem EXCEPT !.skipped = @ \cup {m}].status = mem.status
            /\ [mem EXCEPT !.skipped = @ \cup {m}].folder = mem.folder
        BY <1>0, RecordedSkip
      <3>2. mem' = mem \/ mem' = [mem EXCEPT !.skipped = @ \cup {m}]
        BY <1>12 DEF Opens
      <3> QED BY <1>0, <3>1, <3>2 DEF Placed
    <2>2. /\ doorTodo' \subseteq Messages
          /\ \/ doorStep' = "reading"
             \/ doorStep' = "opening" /\ current' \in [message : Messages, left : SUBSET Docs]
      <3>1. Attached[m] \subseteq Docs
        BY DocDoorAssumption
      <3> QED BY <1>0, <1>12, <3>1 DEF Opens
    <2> QED BY <1>0, <1>12, <2>1, <2>2 DEF Opens, DoorTyped, DoorTypeOK
  <1>13. ASSUME OpenFails PROVE Goal
    BY <1>0, <1>13, TroubleTyped DEF OpenFails, DoorTyped, DoorTypeOK
  <1>14. ASSUME Closes PROVE Goal
    BY <1>0, <1>14 DEF Closes, DoorTyped, DoorTypeOK
  <1>15. ASSUME ScanEnds PROVE Goal
    BY <1>0, <1>15 DEF ScanEnds, DoorTyped, DoorTypeOK
  <1>16. Goal
    <2> HIDE DEF Goal
    <2> QED BY <1>1, <1>2, <1>3, <1>4, <1>5, <1>6, <1>7, <1>8, <1>9, <1>10, <1>11, <1>12, <1>13, <1>14, <1>15
  <1> QED BY <1>16, SameFiling DEF DoorIInv

(* The filing: a copy is found or made before the record says so, and what *)
(* is made unrecorded is the one copy of its name.                         *)
LEMMA FilingStep ==
    ASSUME DoorIInv, NEW d \in Docs,
           FindsFile(d) \/ Uploads(d) \/ UploadFails(d)
    PROVE  DoorIInv'
  <1>0. /\ saved \in States /\ mem \in States /\ mail \subseteq Messages /\ shown \subseteq Docs
        /\ copies \in [Docs -> [Files -> Nat]] /\ lines \in [Docs -> Nat]
        /\ doorTroubles \in 0 .. MaxDoorTroubles
        /\ doorTodo \subseteq Docs /\ \A e \in doorTodo : mem.status[e] = "reported"
        /\ BorneOut(saved) /\ BorneOut(mem) /\ NoneTwice /\ Placed(saved) /\ Placed(mem)
    BY DEF DoorIInv, DoorTyped, DoorTypeOK, FindsFile, Uploads, UploadFails
  <1>a. doorStep = "filing" /\ d \in doorTodo /\ UNCHANGED doorStep
    BY DEF FindsFile, Uploads, UploadFails
  <1> DEFINE t == Target(d)
  <1>b. t \in Files
    BY <1>a, TargetIsAFile
  <1>c. t # Null
    BY <1>b, DocDoorAssumption
  <1>1. ASSUME Filed(d)
        PROVE  /\ saved' = mem' /\ mem' \in States /\ mem'.filed[d] = t /\ mem'.status = mem.status
               /\ \A e \in Docs \ {d} : mem'.filed[e] = mem.filed[e]
               /\ doorTodo' = doorTodo \ {d}
               /\ Placed(mem)' /\ Placed(saved)'
    <2>1. /\ mem' = [mem EXCEPT !.filed[d] = t] /\ saved' = mem' /\ doorTodo' = doorTodo \ {d}
      BY <1>1 DEF Filed
    <2> HIDE DEF t
    <2>2. /\ mem' \in States /\ mem'.filed[d] = t /\ mem'.status = mem.status
          /\ mem'.folder = mem.folder /\ \A e \in Docs \ {d} : mem'.filed[e] = mem.filed[e]
      BY <1>0, <1>b, <2>1 DEF States
    <2> QED BY <1>0, <2>1, <2>2 DEF Placed
  <1>2. CASE FindsFile(d)
    <2>1. Filed(d) /\ UNCHANGED copies
      BY <1>2 DEF FindsFile
    <2>2. copies[d][t] > 0
      BY <1>2 DEF FindsFile, ThereAlready, HashTaken, Target
    <2> HIDE DEF t
    <2>3. BorneOut(mem)'
      <3> SUFFICES ASSUME NEW e \in Docs, mem'.filed[e] # Null PROVE copies'[e][mem'.filed[e]] > 0
        BY DEF BorneOut
      <3>1. CASE e = d
        BY <1>1, <2>1, <2>2, <3>1
      <3>2. CASE e # d
        BY <1>0, <1>1, <2>1, <3>2 DEF BorneOut
      <3> QED BY <3>1, <3>2
    <2>4. BorneOut(saved)' /\ NoneTwice'
      BY <1>0, <1>1, <2>1, <2>3 DEF BorneOut, NoneTwice
    <2>5. DoorTyped'
      BY <1>0, <1>1, <1>2, <1>a, <2>1 DEF FindsFile, DoorTyped, DoorTypeOK
    <2> QED BY <1>1, <2>1, <2>3, <2>4, <2>5 DEF DoorIInv
  <1>3. CASE Uploads(d)
    <2>1. Filed(d)
      BY <1>3 DEF Uploads
    <2>2. /\ copies' \in [Docs -> [Files -> Nat]] /\ NoneTwice' /\ copies'[d][t] > 0
          /\ \A e \in Docs, f \in Files : copies'[e][f] >= copies[e][f]
      BY <1>3, <1>a, OneMoreCopy DEF Uploads
    <2> HIDE DEF t
    <2>3. \A e \in Docs : mem.filed[e] # Null => copies'[e][mem.filed[e]] > 0
      BY <1>0, <2>2, StillBorneOut
    <2>4. BorneOut(mem)'
      <3> SUFFICES ASSUME NEW e \in Docs, mem'.filed[e] # Null PROVE copies'[e][mem'.filed[e]] > 0
        BY DEF BorneOut
      <3>1. CASE e = d
        BY <1>1, <2>1, <2>2, <3>1
      <3>2. CASE e # d
        BY <1>1, <2>1, <2>3, <3>2
      <3> QED BY <3>1, <3>2
    <2>5. BorneOut(saved)'
      BY <1>1, <2>1, <2>4 DEF BorneOut
    <2>6. DoorTyped'
      BY <1>0, <1>1, <1>3, <1>a, <2>1, <2>2 DEF Uploads, DoorTyped, DoorTypeOK
    <2> QED BY <1>1, <2>1, <2>2, <2>4, <2>5, <2>6 DEF DoorIInv
  <1>4. CASE UploadFails(d)
    <2>1. /\ copies' \in [Docs -> [Files -> Nat]] /\ NoneTwice'
          /\ \A e \in Docs, f \in Files : copies'[e][f] >= copies[e][f]
      <3>1. CASE UNCHANGED copies
        BY <1>0, <3>1 DEF NoneTwice
      <3>2. CASE ~ThereAlready(d) /\ Uploaded(d)
        BY <1>a, <3>2, OneMoreCopy
      <3> QED BY <1>4, <3>1, <3>2 DEF UploadFails
    <2>2. mem' = mem /\ saved' = mem
      BY <1>4 DEF UploadFails, Save
    <2>3. \A e \in Docs : mem.filed[e] # Null => copies'[e][mem.filed[e]] > 0
      BY <1>0, <2>1, StillBorneOut
    <2>4. BorneOut(mem)' /\ BorneOut(saved)' /\ Placed(mem)' /\ Placed(saved)'
      BY <1>0, <2>2, <2>3 DEF BorneOut, Placed
    <2>5. DoorTyped'
      BY <1>0, <1>4, <1>a, <2>1, <2>2, TroubleTyped DEF UploadFails, DoorTyped, DoorTypeOK
    <2> QED BY <2>1, <2>4, <2>5 DEF DoorIInv
  <1> QED BY <1>2, <1>3, <1>4

(* A kill leaves the records as they were, and perhaps a copy unrecorded.  *)
LEMMA KilledStep == ASSUME DoorIInv, DoorKilled PROVE DoorIInv'
  <1>0. /\ saved \in States /\ mem \in States /\ mail \subseteq Messages /\ shown \subseteq Docs
        /\ copies \in [Docs -> [Files -> Nat]] /\ lines \in [Docs -> Nat]
        /\ BorneOut(saved) /\ BorneOut(mem) /\ NoneTwice /\ Placed(saved) /\ Placed(mem)
    BY DEF DoorIInv, DoorTyped, DoorTypeOK
  <1>1. UNCHANGED <<saved, mem, mail, shown>> /\ doorStep' = "idle" /\ DoorTrouble
    BY DEF DoorKilled
  <1>2. /\ copies' \in [Docs -> [Files -> Nat]] /\ NoneTwice' /\ lines' \in [Docs -> Nat]
        /\ \A e \in Docs, f \in Files : copies'[e][f] >= copies[e][f]
    <2>1. CASE UNCHANGED copies /\ (UNCHANGED lines \/ \E d \in Docs : lines' = [lines EXCEPT ![d] = @ + 1])
      BY <1>0, <2>1 DEF NoneTwice
    <2>2. ASSUME NEW d \in Docs, doorStep = "filing", d \in doorTodo, ~ThereAlready(d),
                 Uploaded(d), UNCHANGED lines
          PROVE  /\ copies' \in [Docs -> [Files -> Nat]] /\ NoneTwice' /\ lines' \in [Docs -> Nat]
                 /\ \A e \in Docs, f \in Files : copies'[e][f] >= copies[e][f]
      BY <1>0, <2>2, OneMoreCopy
    <2> QED BY <2>1, <2>2 DEF DoorKilled
  <1>3. BorneOut(mem)' /\ BorneOut(saved)' /\ Placed(mem)' /\ Placed(saved)'
    <2>1. \A d \in Docs : mem.filed[d] # Null => copies'[d][mem.filed[d]] > 0
      BY <1>0, <1>2, StillBorneOut
    <2>2. \A d \in Docs : saved.filed[d] # Null => copies'[d][saved.filed[d]] > 0
      BY <1>0, <1>2, StillBorneOut
    <2> QED BY <1>0, <1>1, <2>1, <2>2 DEF BorneOut, Placed
  <1>4. DoorTyped'
    BY <1>0, <1>1, <1>2, TroubleTyped DEF DoorTyped, DoorTypeOK
  <1> QED BY <1>2, <1>3, <1>4 DEF DoorIInv

LEMMA DoorStutters == DoorIInv /\ UNCHANGED doorVars => DoorIInv'
  BY DEF doorVars, command, DoorIInv, DoorTyped, DoorTypeOK, BorneOut, NoneTwice, Placed

(* state.json says the truth of Drive, and neither lost answers nor kills  *)
(* fill a folder (file_pending, file_original).                          *)
THEOREM TheRecordOfDriveIsTrue == DoorSpec => []DriveIsTrue
  <1>1. DoorInit => DoorIInv
    BY DoorBegins
  <1>2. DoorIInv /\ [DoorNext]_doorVars => DoorIInv'
    BY OtherStep, FilingStep, KilledStep, DoorStutters DEF DoorNext, CommandStep
  <1>3. DoorIInv => DriveIsTrue
    BY DEF DoorIInv, BorneOut, NoneTwice, DriveIsTrue
  <1> QED BY <1>1, <1>2, <1>3, PTL DEF DoorSpec
=============================================================================
