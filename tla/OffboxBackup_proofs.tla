------------------------- MODULE OffboxBackup_proofs -------------------------
(***************************************************************************)
(* Proofs about OffboxBackup, for any stores, retention and faults: what   *)
(* counts as complete is whole until as many newer sets as are kept are    *)
(* there; a run that ends with exit 0 has left what it promises; no step   *)
(* purges below the sets that are kept; and a good verdict is true.        *)
(***************************************************************************)
EXTENDS OffboxBackup, FiniteSetTheorems, WellFoundedInduction, TLAPS

(***************************************************************************)
(* The newer complete sets of a set's kind, by the manifests alone.        *)
(***************************************************************************)

After(mf, n) == {m \in Nights : mf[m] # Unwritten /\ KindOf(m) = KindOf(n) /\ m > n}

LEMMA NewerIs ==
    \A n \in Nights : /\ Newer(n) = After(manifest, n)
                      /\ Newer(n)' = After(manifest', n)
  BY DEF Newer, CompleteSets, Sets, Present, Complete, After

LEMMA Kinded == \A n \in Nights : KindOf(n) \in Kinds /\ Keep[KindOf(n)] \in Nat \ {0}
  BY BackupAssumption DEF KindOf, Kinds

LEMMA Counts ==
  ASSUME NEW S, NEW T, S \subseteq T, T \subseteq Nights
  PROVE  Cardinality(S) \in Nat /\ Cardinality(T) \in Nat /\ Cardinality(S) <= Cardinality(T)
<1>1. IsFiniteSet(Nights)
  BY BackupAssumption, FS_Interval DEF Nights
<1>2. IsFiniteSet(T)
  BY <1>1, FS_Subset
<1>. QED BY <1>2, FS_Subset, FS_CardinalityType

(***************************************************************************)
(* Typing.                                                                 *)
(***************************************************************************)

LEMMA TypeInit == Init => TypeOK
  BY BackupAssumption DEF Init, TypeOK, Unwritten, NoObjects, Nights, Silent

(* One object of one set is written.                                       *)
LEMMA TypeOfObject ==
  ASSUME TypeOK, NEW n \in Nights, NEW s \in Stores,
         NEW part \in {"good", "unsound", "torn"}
  PROVE  [obj EXCEPT ![n][s] = part] \in [Nights -> [Stores -> {"none", "good", "unsound", "torn"}]]
<1>1. obj \in [Nights -> [Stores -> {"none", "good", "unsound", "torn"}]]
  BY DEF TypeOK
<1>2. [obj[n] EXCEPT ![s] = part] \in [Stores -> {"none", "good", "unsound", "torn"}]
  BY <1>1
<1>. QED BY <1>1, <1>2

LEMMA TypeOfPurge ==
  ASSUME TypeOK, NEW n \in Nights, NEW left \in SUBSET Stores,
         NEW m \in SUBSET Stores, PurgedTo(n, left, m)
  PROVE  /\ obj' \in [Nights -> [Stores -> {"none", "good", "unsound", "torn"}]]
         /\ manifest' \in [Nights -> SUBSET Stores]
  BY DEF TypeOK, PurgedTo

LEMMA TypeOfPurges ==
  ASSUME TypeOK, NEW n \in Nights, Purges(n) \/ PurgesPart(n)
  PROVE  /\ obj' \in [Nights -> [Stores -> {"none", "good", "unsound", "torn"}]]
         /\ manifest' \in [Nights -> SUBSET Stores]
         /\ manifest' \in {manifest, [manifest EXCEPT ![n] = Unwritten]}
<1>1. PICK left \in SUBSET Stores, m \in {manifest[n], Unwritten} : PurgedTo(n, left, m)
  BY DEF Purges, PurgesPart
<1>2. m \in SUBSET Stores /\ manifest[n] \in SUBSET Stores
  BY DEF TypeOK, Unwritten
<1>3. manifest' = [manifest EXCEPT ![n] = m]
  BY <1>1 DEF PurgedTo
<1>4. manifest' \in {manifest, [manifest EXCEPT ![n] = Unwritten]}
  BY <1>3 DEF TypeOK
<1>. QED BY <1>1, <1>2, <1>4, TypeOfPurge

(* A fault is counted up to its bound.                                     *)
LEMMA TypeOfFault == TypeOK /\ Fault => faults' \in 0 .. MaxFaults
<1>1. TypeOK => faults \in 0 .. MaxFaults
  BY DEF TypeOK
<1>. QED BY <1>1, BackupAssumption DEF Fault

LEMMA NatsHaveLeast ==
  ASSUME NEW T, T \subseteq Nat, T # {}
  PROVE  \E x \in T : \A y \in T : x <= y
<1>1. PICK x \in T : \A y \in T : <<y, x>> \notin OpToRel(<, Nat)
  BY NatLessThanWellFounded, WFMin
<1>2. \A y \in T : y < x => <<y, x>> \in OpToRel(<, Nat)
  BY DEF OpToRel
<1>3. \A y \in T : y \in Nat /\ x \in Nat /\ ~(y < x)
  BY <1>1, <1>2
<1>. QED BY <1>3

LEMMA NightsHaveLast ==
  ASSUME NEW T, T \subseteq Nights, T # {}
  PROVE  \E x \in T : \A y \in T : y <= x
<1>. DEFINE D == {MaxNights - x : x \in T}
<1>0. MaxNights \in Nat /\ \A x \in T : x \in Nat /\ MaxNights - x \in Nat
  BY BackupAssumption DEF Nights
<1>1. D \subseteq Nat /\ D # {}
  BY <1>0
<1>2. PICK d \in D : \A e \in D : d <= e
  BY <1>1, NatsHaveLeast
<1>3. PICK x \in T : d = MaxNights - x
  OBVIOUS
<1>4. ASSUME NEW y \in T
      PROVE  y <= x
  <2>1. d <= MaxNights - y
    BY <1>2
  <2>. QED BY <1>0, <1>3, <2>1
<1>. QED BY <1>4

LEMMA LatestIsLast ==
  ASSUME Fresh
  PROVE  /\ Latest \in Nights /\ Complete(Latest)
         /\ \A m \in Nights : Complete(m) => ~(m > Latest)
<1>1. AllComplete # {} /\ AllComplete \subseteq Nights
  BY DEF Fresh, AllComplete
<1>2. Latest \in AllComplete /\ \A m \in AllComplete : m <= Latest
  BY <1>1, NightsHaveLast DEF Latest
<1>. QED BY <1>1, <1>2 DEF AllComplete, Nights

LEMMA TypeBacks == TypeOK /\ Backs => TypeOK'
<1>. SUFFICES ASSUME TypeOK, Backs PROVE TypeOK'
  OBVIOUS
<1>0. MaxNights \in Nat \ {0} /\ night \in Nights
  BY BackupAssumption DEF TypeOK, Nights
<1>1. CASE NotConfigured \/ NothingToDump \/ Begin
  BY <1>1 DEF TypeOK, NotConfigured, NothingToDump, Begin, Deployed, bucket, verify
<1>2. CASE WritesManifest \/ ManifestFails
  <2>1. faults' \in 0 .. MaxFaults
    BY <1>2, TypeOfFault DEF WritesManifest, ManifestFails, TypeOK
  <2>2. manifest' \in [Nights -> SUBSET Stores] /\ mislaid' \subseteq Nights
    BY <1>0, <1>2 DEF WritesManifest, ManifestFails, TypeOK, Deployed
  <2>. QED BY <1>2, <2>1, <2>2 DEF TypeOK, WritesManifest, ManifestFails, verify
<1>3. CASE CleansUp
  <2>1. faults' \in 0 .. MaxFaults
    BY <1>3, TypeOfFault DEF CleansUp, TypeOK
  <2>. QED BY <1>0, <1>3, <2>1, TypeOfPurges DEF TypeOK, CleansUp, verify
<1>4. CASE RetentionFails
  <2>1. faults' \in 0 .. MaxFaults
    BY <1>4, TypeOfFault DEF RetentionFails
  <2>2. drop \subseteq Nights
    BY DEF TypeOK
  <2>3. /\ obj' \in [Nights -> [Stores -> {"none", "good", "unsound", "torn"}]]
        /\ manifest' \in [Nights -> SUBSET Stores]
    BY <1>4, <2>2, TypeOfPurges DEF RetentionFails, bucket, TypeOK
  <2>. QED BY <1>4, <2>1, <2>3 DEF TypeOK, RetentionFails, verify
<1>5. CASE Succeeds
  BY <1>5 DEF TypeOK, Succeeds, bucket, verify
<1>6. CASE Killed
  <2>1. faults' \in 0 .. MaxFaults
    BY <1>6, TypeOfFault DEF Killed
  <2>2. drop \subseteq Nights /\ todo \subseteq Stores
    BY DEF TypeOK
  <2>3. /\ obj' \in [Nights -> [Stores -> {"none", "good", "unsound", "torn"}]]
        /\ manifest' \in [Nights -> SUBSET Stores]
    <3>1. CASE UNCHANGED bucket \/ (UNCHANGED manifest /\ \E s \in todo, part \in {"good", "torn"} :
                                      obj' = [obj EXCEPT ![night][s] = part])
      <4>1. CASE UNCHANGED bucket
        BY <4>1 DEF TypeOK, bucket
      <4>2. CASE ~UNCHANGED bucket
        <5>1. PICK s \in todo, part \in {"good", "torn"} : obj' = [obj EXCEPT ![night][s] = part]
          BY <3>1, <4>2
        <5>2. manifest' = manifest
          BY <3>1, <4>2
        <5>3. s \in Stores
          BY <2>2
        <5>. QED BY <1>0, <5>1, <5>2, <5>3, TypeOfObject DEF TypeOK
      <4>. QED BY <4>1, <4>2
    <3>. QED BY <1>0, <1>6, <2>2, <3>1, TypeOfPurges DEF Killed
  <2>. QED BY <1>6, <2>1, <2>3 DEF TypeOK, Killed, verify
<1>7. ASSUME NEW s \in Stores, Uploads(s) \/ UploadFails(s)
      PROVE  TypeOK'
  <2>1. faults' \in 0 .. MaxFaults
    BY <1>7, TypeOfFault DEF Uploads, UploadFails, TypeOK
  <2>2. obj' \in [Nights -> [Stores -> {"none", "good", "unsound", "torn"}]]
    <3>1. obj \in [Nights -> [Stores -> {"none", "good", "unsound", "torn"}]]
      BY DEF TypeOK
    <3>2. PICK part \in {"good", "unsound", "torn"} : obj' \in {obj, [obj EXCEPT ![night][s] = part]}
      BY <1>7 DEF Uploads, UploadFails
    <3>. QED BY <1>0, <3>1, <3>2, TypeOfObject
  <2>. QED BY <1>7, <2>1, <2>2 DEF TypeOK, Uploads, UploadFails, verify
<1>8. ASSUME NEW k \in Kinds, Lists(k)
      PROVE  TypeOK'
  <2>1. Dropped(k) \subseteq Nights
    BY DEF Dropped, Sets
  <2>. QED BY <1>8, <2>1 DEF TypeOK, Lists, bucket, verify
<1>9. ASSUME NEW n \in Nights, Retires(n)
      PROVE  TypeOK'
  BY <1>9, TypeOfPurges DEF TypeOK, Retires, verify
<1>. QED BY <1>1, <1>2, <1>3, <1>4, <1>5, <1>6, <1>7, <1>8, <1>9 DEF Backs

LEMMA TypeVerifies == TypeOK /\ Verifies => TypeOK'
<1>. SUFFICES ASSUME TypeOK, Verifies PROVE TypeOK'
  OBVIOUS
<1>0. /\ MaxNights \in Nat \ {0}
      /\ 0 \in 0 .. MaxNights /\ \A n \in Nights : n \in 0 .. MaxNights
  BY BackupAssumption DEF Nights
<1>1. CASE VerifyBegins
  <2>1. Latest \in Nights
    BY <1>1, LatestIsLast DEF VerifyBegins
  <2>2. manifest[Latest] \in SUBSET Stores
    BY <2>1 DEF TypeOK
  <2>. QED BY <1>0, <1>1, <2>1, <2>2 DEF TypeOK, VerifyBegins, bucket, backup
<1>2. ASSUME NEW level \in {"good", "act"}, NEW n \in 0 .. MaxNights, Tells(level, n)
      PROVE  TypeOK'
  <2>1. faults' \in 0 .. MaxFaults
    BY <1>2, TypeOfFault DEF Tells, TypeOK
  <2>2. verdict' \in [level : {"none", "good", "act"}, set : 0 .. MaxNights]
    <3>1. [level |-> level, set |-> n] \in [level : {"none", "good", "act"}, set : 0 .. MaxNights]
      OBVIOUS
    <3>. QED BY <1>2, <3>1 DEF Tells, TypeOK
  <2>. QED BY <1>0, <1>2, <2>1, <2>2 DEF TypeOK, Tells, bucket, backup
<1>3. picked \in 0 .. MaxNights
  BY DEF TypeOK
<1>4. CASE CheckFails
  <2>1. faults' \in 0 .. MaxFaults
    BY <1>4, TypeOfFault DEF CheckFails
  <2>. QED BY <1>0, <1>4, <2>1 DEF TypeOK, CheckFails, bucket, backup
<1>5. ASSUME NEW s \in Stores, ChecksOut(s)
      PROVE  TypeOK'
  BY <1>5 DEF TypeOK, ChecksOut, bucket, backup
<1>. QED BY <1>0, <1>1, <1>2, <1>3, <1>4, <1>5 DEF Verifies, NothingFresh, Passes, DoesNotCheckOut

LEMMA TypeDawn == TypeOK /\ Dawn => TypeOK'
<1>. SUFFICES ASSUME TypeOK, Dawn PROVE TypeOK'
  OBVIOUS
<1>0. night \in 1 .. MaxNights
  BY DEF TypeOK
<1>1. night' \in 1 .. MaxNights
  BY <1>0, BackupAssumption DEF Dawn
<1>2. verdict' \in [level : {"none", "good", "act"}, set : 0 .. MaxNights]
  BY BackupAssumption DEF Dawn, Silent
<1>. QED BY <1>1, <1>2 DEF TypeOK, Dawn, bucket

(* The bucket, the two processes and the clock stay well formed.           *)
THEOREM Typing == Spec => []TypeOK
<1>1. TypeOK /\ UNCHANGED vars => TypeOK'
  BY DEF TypeOK, vars, bucket, backup, verify
<1>2. TypeOK /\ [Next]_vars => TypeOK'
  BY <1>1, TypeBacks, TypeVerifies, TypeDawn DEF Next
<1>. QED BY TypeInit, <1>2, PTL DEF Spec

(***************************************************************************)
(* What counts as complete.                                                *)
(*                                                                         *)
(* A set that is being cleaned up may still have a manifest the run does   *)
(* not know of; it will be gone, and covers for no other.  So a set is     *)
(* only behind those that are settled.                                     *)
(***************************************************************************)

Unsettled == IF step = "cleaning" THEN {night} ELSE {}
Behind(n) == Cardinality(After(manifest, n) \ Unsettled) >= Keep[KindOf(n)]

(* Nothing is in the bucket of nights to come, and what tonight's run has  *)
(* uploaded is as it was hashed; a manifest it does not know of is mislaid.*)
Tonight ==
    /\ \A n \in Nights : n > night => manifest[n] = Unwritten
    /\ step \in {"due", "uploading"} => manifest[night] = Unwritten
    /\ step = "cleaning" => manifest[night] = Unwritten \/ night \in mislaid
    /\ step = "uploading" => \A s \in Deployed \ todo : obj[night][s] \in {"good", "unsound"}

(* What retention has listed may go.                                       *)
Listed ==
    /\ drop # {} => step = "pruning"
    /\ \A n \in drop : Complete(n) => Behind(n)

Sound == \A n \in Nights \ mislaid : Complete(n) => Whole(n) \/ Behind(n)

IInv == TypeOK /\ Tonight /\ Listed /\ Sound

LEMMA SoundSuffices == TypeOK /\ Sound => CompleteIsWhole
<1>. SUFFICES ASSUME TypeOK, Sound, NEW n \in Nights \ mislaid, Complete(n), ~Whole(n)
              PROVE  Cardinality(Newer(n)) >= Keep[KindOf(n)]
  BY DEF CompleteIsWhole
<1>1. Cardinality(After(manifest, n) \ Unsettled) >= Keep[KindOf(n)]
  BY DEF Sound, Behind
<1>2. /\ Cardinality(After(manifest, n) \ Unsettled) \in Nat /\ Cardinality(After(manifest, n)) \in Nat
      /\ Cardinality(After(manifest, n) \ Unsettled) <= Cardinality(After(manifest, n))
  BY Counts DEF After
<1>. QED BY <1>1, <1>2, NewerIs, Kinded

(* A set stays behind when no settled newer set goes.                      *)
LEMMA StaysBehind ==
  ASSUME NEW n \in Nights, Behind(n),
         After(manifest, n) \ Unsettled \subseteq After(manifest', n) \ Unsettled'
  PROVE  Behind(n)'
<1>1. After(manifest', n) \ Unsettled' \subseteq Nights
  BY DEF After
<1>2. Cardinality(After(manifest, n) \ Unsettled) <= Cardinality(After(manifest', n) \ Unsettled')
      /\ Cardinality(After(manifest, n) \ Unsettled) \in Nat
      /\ Cardinality(After(manifest', n) \ Unsettled') \in Nat
  BY <1>1, Counts
<1>. QED BY <1>2, Kinded DEF Behind

(* Nor when a set goes that is itself behind as many as are kept.          *)
LEMMA StaysBehindRetired ==
  ASSUME NEW n \in Nights, Behind(n), NEW m \in Nights, m # n,
         manifest \in [Nights -> SUBSET Stores],
         manifest' \in {manifest, [manifest EXCEPT ![m] = Unwritten]},
         Complete(m) => Behind(m), Unsettled = {}, Unsettled' = {}
  PROVE  Behind(n)'
<1>1. CASE m \notin After(manifest, n)
  <2>1. After(manifest, n) \subseteq After(manifest', n)
    BY <1>1 DEF After
  <2>. QED BY <2>1, StaysBehind
<1>2. CASE m \in After(manifest, n)
  <2>1. Complete(m) /\ KindOf(m) = KindOf(n) /\ m > n
    BY <1>2 DEF After, Complete
  <2>2. Cardinality(After(manifest, m)) >= Keep[KindOf(n)]
    BY <2>1 DEF Behind
  <2>3. After(manifest, m) \subseteq After(manifest', n)
    <3>. SUFFICES ASSUME NEW x \in After(manifest, m) PROVE x \in After(manifest', n)
      OBVIOUS
    <3>1. x \in Nights /\ manifest[x] # Unwritten /\ KindOf(x) = KindOf(m) /\ x > m
      BY DEF After
    <3>2. x # m /\ x > n
      BY <3>1, <2>1 DEF Nights
    <3>. QED BY <2>1, <3>1, <3>2 DEF After
  <2>4. /\ Cardinality(After(manifest, m)) \in Nat
        /\ Cardinality(After(manifest', n)) \in Nat
        /\ Cardinality(After(manifest, m)) <= Cardinality(After(manifest', n))
    <3>1. After(manifest', n) \subseteq Nights
      BY DEF After
    <3>. QED BY <2>3, <3>1, Counts
  <2>. QED BY <2>2, <2>4, Kinded DEF Behind
<1>. QED BY <1>1, <1>2

(* What a step does to the invariant when the manifests stay, and tonight's*)
(* run is in the same stage or over.                                       *)
LEMMA SoundUnchanged ==
  ASSUME IInv, UNCHANGED <<obj, manifest, mislaid>>, Unsettled' \subseteq Unsettled
  PROVE  /\ Sound'
         /\ \A n \in Nights : (Complete(n) => Behind(n)) => (Complete(n)' => Behind(n)')
<1>1. \A n \in Nights : Behind(n) => Behind(n)'
  BY StaysBehind
<1>2. \A n \in Nights : (Complete(n)' <=> Complete(n)) /\ (Whole(n)' <=> Whole(n))
  BY DEF Complete, Whole
<1>. QED BY <1>1, <1>2 DEF IInv, Sound

(* A purge touches one set, and writes no manifest.                        *)
LEMMA PurgeOfOne ==
  ASSUME TypeOK, NEW m \in Nights, Purges(m) \/ PurgesPart(m)
  PROVE  /\ \A n \in Nights : n # m => obj'[n] = obj[n] /\ manifest'[n] = manifest[n]
         /\ manifest' \in {manifest, [manifest EXCEPT ![m] = Unwritten]}
<1>1. manifest' \in {manifest, [manifest EXCEPT ![m] = Unwritten]}
  BY TypeOfPurges
<1>2. PICK f : obj' = [obj EXCEPT ![m] = f]
  BY DEF Purges, PurgesPart, PurgedTo
<1>. QED BY <1>1, <1>2 DEF TypeOK

(* A step that touches one set keeps the others sound if they stay behind. *)
LEMMA SoundButOne ==
  ASSUME IInv, NEW m \in Nights, mislaid \subseteq mislaid',
         \A n \in Nights : n # m => obj'[n] = obj[n] /\ manifest'[n] = manifest[n],
         \A n \in Nights : n # m /\ Behind(n) => Behind(n)',
         m \notin mislaid' /\ Complete(m)' => Whole(m)' \/ Behind(m)'
  PROVE  Sound'
<1>. SUFFICES ASSUME NEW n \in Nights, n \notin mislaid', Complete(n)'
              PROVE  Whole(n)' \/ Behind(n)'
  BY DEF Sound
<1>1. CASE n = m
  BY <1>1
<1>2. CASE n # m
  <2>1. Complete(n) /\ (Whole(n)' <=> Whole(n))
    BY <1>2 DEF Complete, Whole
  <2>2. Whole(n) \/ Behind(n)
    BY <2>1 DEF IInv, Sound
  <2>. QED BY <1>2, <2>1, <2>2
<1>. QED BY <1>1, <1>2

LEMMA IInit == Init => IInv
<1>. SUFFICES ASSUME Init PROVE IInv
  OBVIOUS
<1>1. \A n \in Nights : manifest[n] = Unwritten
  BY DEF Init
<1>2. Sound /\ Listed
  BY <1>1 DEF Sound, Listed, Complete, Init
<1>3. Tonight
  <2>1. night \in Nights
    BY BackupAssumption DEF Init, Nights
  <2>. QED BY <1>1, <2>1 DEF Tonight, Init
<1>. QED BY <1>2, <1>3, TypeInit DEF IInv

(* Steps that leave the bucket alone.                                      *)
LEMMA KeepsStill ==
  ASSUME IInv,
         \/ NotConfigured \/ NothingToDump \/ Begin \/ Succeeds
         \/ (RetentionFails /\ UNCHANGED bucket) \/ (Killed /\ UNCHANGED bucket /\ step # "cleaning")
  PROVE  Tonight' /\ Listed' /\ Sound'
<1>1. Unsettled = {} /\ Unsettled' = {}
  BY DEF Unsettled, NotConfigured, NothingToDump, Begin, Succeeds, RetentionFails, Killed
<1>2. UNCHANGED <<obj, manifest, mislaid, night>>
  BY DEF NotConfigured, NothingToDump, Begin, Succeeds, RetentionFails, Killed, bucket
<1>3. Sound'
  BY <1>1, <1>2, SoundUnchanged
<1>4. Listed'
  <2>1. drop' = {} \/ (drop' = drop /\ step \in {"due", "pruning"})
    BY DEF NotConfigured, NothingToDump, Begin, Succeeds, RetentionFails, Killed
  <2>2. drop' = {} \/ (drop' = drop /\ step = "due")
    BY <2>1 DEF NotConfigured, NothingToDump, Begin, Succeeds, RetentionFails, Killed
  <2>3. drop' = {}
    BY <2>2 DEF IInv, Listed
  <2>. QED BY <2>3 DEF Listed
<1>5. Tonight'
  <2>1. step' = "over" \/ (step' = "uploading" /\ step = "due" /\ todo' = Deployed')
    BY DEF NotConfigured, NothingToDump, Begin, Succeeds, RetentionFails, Killed, Deployed
  <2>. QED BY <1>2, <2>1 DEF IInv, Tonight
<1>. QED BY <1>3, <1>4, <1>5

LEMMA KeepsLists ==
  ASSUME IInv, NEW k \in Kinds, Lists(k)
  PROVE  Tonight' /\ Listed' /\ Sound'
<1>1. Unsettled = {} /\ Unsettled' = {}
  BY DEF Unsettled, Lists
<1>2. UNCHANGED <<obj, manifest, mislaid, night, step>>
  BY DEF Lists, bucket
<1>3. Sound' /\ \A n \in Nights : (Complete(n) => Behind(n)) => (Complete(n)' => Behind(n)')
  BY <1>1, <1>2, SoundUnchanged
<1>4. ASSUME NEW n \in Dropped(k), Complete(n)
      PROVE  Behind(n)
  <2>1. n \in Nights /\ KindOf(n) = k /\ Cardinality(Newer(n)) >= Keep[k]
    BY <1>4 DEF Dropped, Sets
  <2>. QED BY <1>1, <2>1, NewerIs DEF Behind
<1>5. Listed'
  <2>1. drop' = Dropped(k) /\ drop' \subseteq Nights /\ step' = "pruning"
    BY DEF Lists, Dropped, Sets
  <2>2. \A n \in drop' : Complete(n)' => Behind(n)'
    BY <1>3, <1>4, <2>1
  <2>. QED BY <2>1, <2>2 DEF Listed
<1>6. Tonight'
  BY <1>2 DEF IInv, Tonight, Lists
<1>. QED BY <1>3, <1>5, <1>6

(* Uploads: tonight's set has no manifest yet.                             *)
LEMMA KeepsUploads ==
  ASSUME IInv, step = "uploading", UNCHANGED <<manifest, mislaid, night, host>>,
         NEW s \in todo, NEW part \in {"good", "unsound", "torn"},
         obj' \in {obj, [obj EXCEPT ![night][s] = part]}
  PROVE  /\ Sound'
         /\ step' = "uploading" /\ todo' = todo \ {s} /\ drop' = drop
              /\ obj' = [obj EXCEPT ![night][s] = part] /\ part # "torn" => Tonight' /\ Listed'
         /\ step' = "cleaning" /\ drop' = drop => Tonight' /\ Listed'
         /\ step' = "over" /\ drop' = {} => Tonight' /\ Listed'
<1>0. /\ night \in Nights /\ s \in Stores /\ manifest[night] = Unwritten
      /\ obj \in [Nights -> [Stores -> {"none", "good", "unsound", "torn"}]]
      /\ \A n \in Nights : n > night => manifest[n] = Unwritten
      /\ \A x \in Deployed \ todo : obj[night][x] \in {"good", "unsound"}
      /\ drop = {}
  BY DEF IInv, TypeOK, Tonight, Listed, Nights
<1>1. \A n \in Nights : n # night => obj'[n] = obj[n] /\ manifest'[n] = manifest[n]
  BY <1>0
<1>2. \A n \in Nights : Behind(n) => Behind(n)'
  <2>1. Unsettled' \subseteq {night} /\ night \notin UNION {After(manifest, n) : n \in Nights}
    BY <1>0 DEF Unsettled, After
  <2>2. \A n \in Nights : After(manifest, n) \ Unsettled \subseteq After(manifest', n) \ Unsettled'
    BY <2>1
  <2>. QED BY <2>2, StaysBehind
<1>3. ~Complete(night)'
  BY <1>0 DEF Complete
<1>4. Sound'
  BY <1>0, <1>1, <1>2, <1>3, SoundButOne
<1>5. Listed' \/ drop' # {}
  BY DEF Listed
<1>6. ASSUME step' = "uploading", todo' = todo \ {s}, obj' = [obj EXCEPT ![night][s] = part], part # "torn"
      PROVE  Tonight'
  <2>1. obj'[night] = [obj[night] EXCEPT ![s] = part]
    BY <1>0, <1>6
  <2>2. \A x \in Deployed \ todo' : obj'[night][x] \in {"good", "unsound"}
    BY <1>0, <1>6, <2>1 DEF Deployed
  <2>3. Deployed' = Deployed
    BY DEF Deployed
  <2>. QED BY <1>0, <1>6, <2>2, <2>3 DEF Tonight
<1>7. step' \in {"cleaning", "over"} => Tonight'
  BY <1>0 DEF Tonight
<1>. QED BY <1>0, <1>4, <1>5, <1>6, <1>7

(* The manifest: all that it names has been uploaded.                      *)
LEMMA KeepsManifest ==
  ASSUME IInv, WritesManifest \/ ManifestFails
  PROVE  Tonight' /\ Listed' /\ Sound'
<1>0. /\ night \in Nights /\ manifest[night] = Unwritten /\ step = "uploading"
      /\ manifest \in [Nights -> SUBSET Stores]
      /\ \A n \in Nights : n > night => manifest[n] = Unwritten
      /\ \A x \in Deployed : obj[night][x] \in {"good", "unsound"}
      /\ drop = {} /\ Unsettled = {}
  BY DEF IInv, TypeOK, Tonight, Listed, Nights, WritesManifest, ManifestFails, Unsettled
<1>1. UNCHANGED <<obj, night>> /\ mislaid \subseteq mislaid' /\ drop' = {}
  BY <1>0 DEF WritesManifest, ManifestFails
<1>2. manifest' \in {manifest, [manifest EXCEPT ![night] = Deployed]}
  BY DEF WritesManifest, ManifestFails
<1>3. \A n \in Nights : n # night => obj'[n] = obj[n] /\ manifest'[n] = manifest[n]
  BY <1>0, <1>1, <1>2
<1>4. \A n \in Nights : Behind(n) => Behind(n)'
  <2>1. \A n \in Nights : After(manifest, n) \subseteq After(manifest', n) \ {night}
    BY <1>0, <1>3 DEF After
  <2>2. \A n \in Nights : After(manifest, n) \ Unsettled \subseteq After(manifest', n) \ Unsettled'
    BY <1>0, <1>1, <2>1 DEF Unsettled
  <2>. QED BY <2>2, StaysBehind
<1>5. night \notin mislaid' /\ Complete(night)' => Whole(night)'
  <2>1. CASE manifest' = [manifest EXCEPT ![night] = Deployed]
    <3>1. manifest'[night] = Deployed /\ obj'[night] = obj[night] /\ night' = night
      BY <1>0, <1>1, <2>1
    <3>. QED BY <1>0, <3>1 DEF Whole
  <2>2. CASE manifest' = manifest
    BY <1>0, <1>1, <2>2 DEF Complete
  <2>. QED BY <1>2, <2>1, <2>2
<1>6. Sound'
  BY <1>0, <1>1, <1>3, <1>4, <1>5, SoundButOne
<1>7. Listed'
  BY <1>1 DEF Listed
<1>8. Tonight'
  <2>1. \A n \in Nights : n > night' => manifest'[n] = Unwritten
    BY <1>0, <1>1, <1>3 DEF Nights
  <2>2. step' = "pruning" \/ (step' = "cleaning" /\ (manifest'[night] = Unwritten \/ night \in mislaid'))
    BY <1>0 DEF WritesManifest, ManifestFails
  <2>. QED BY <1>1, <2>1, <2>2 DEF Tonight
<1>. QED BY <1>6, <1>7, <1>8

(* Cleaning up: tonight's set has no manifest, or a mislaid one.           *)
LEMMA KeepsCleaning ==
  ASSUME IInv, step = "cleaning", step' = "over", UNCHANGED <<mislaid, night>>, drop' = drop \/ drop' = {},
         UNCHANGED bucket \/ Purges(night) \/ PurgesPart(night)
  PROVE  Tonight' /\ Listed' /\ Sound'
<1>0. /\ TypeOK /\ night \in Nights /\ (manifest[night] = Unwritten \/ night \in mislaid)
      /\ manifest \in [Nights -> SUBSET Stores]
      /\ \A n \in Nights : n > night => manifest[n] = Unwritten
      /\ drop = {} /\ Unsettled = {night} /\ Unsettled' = {}
  BY DEF IInv, TypeOK, Tonight, Listed, Nights, Unsettled
<1>1. /\ \A n \in Nights : n # night => obj'[n] = obj[n] /\ manifest'[n] = manifest[n]
      /\ manifest' \in {manifest, [manifest EXCEPT ![night] = Unwritten]}
  <2>1. CASE UNCHANGED bucket
    BY <2>1 DEF bucket
  <2>. QED BY <1>0, <2>1, PurgeOfOne
<1>2. \A n \in Nights : Behind(n) => Behind(n)'
  <2>1. \A n \in Nights : After(manifest, n) \ {night} \subseteq After(manifest', n)
    BY <1>1 DEF After
  <2>. QED BY <1>0, <2>1, StaysBehind
<1>3. night \notin mislaid' => ~Complete(night)'
  BY <1>0, <1>1 DEF Complete
<1>4. Sound'
  BY <1>0, <1>1, <1>2, <1>3, SoundButOne
<1>5. Listed'
  BY <1>0 DEF Listed
<1>6. Tonight'
  <2>1. \A n \in Nights : n > night' => manifest'[n] = Unwritten
    BY <1>0, <1>1 DEF Nights
  <2>. QED BY <2>1 DEF Tonight
<1>. QED BY <1>4, <1>5, <1>6

(* Retention: each set it purges is incomplete, or behind all that are kept. *)
LEMMA KeepsPurge ==
  ASSUME IInv, step = "pruning", step' \in {"pruning", "over"}, UNCHANGED <<mislaid, night>>,
         NEW m \in drop, Purges(m) \/ PurgesPart(m), drop' = {} \/ (drop' = drop \ {m} /\ step' = "pruning")
  PROVE  Tonight' /\ Listed' /\ Sound'
<1>0. /\ TypeOK /\ night \in Nights /\ m \in Nights /\ drop \subseteq Nights
      /\ manifest \in [Nights -> SUBSET Stores]
      /\ \A n \in Nights : n > night => manifest[n] = Unwritten
      /\ Unsettled = {} /\ Unsettled' = {}
      /\ \A n \in drop : Complete(n) => Behind(n)
  BY DEF IInv, TypeOK, Tonight, Listed, Nights, Unsettled
<1>1. /\ \A n \in Nights : n # m => obj'[n] = obj[n] /\ manifest'[n] = manifest[n]
      /\ manifest' \in {manifest, [manifest EXCEPT ![m] = Unwritten]}
  BY <1>0, PurgeOfOne
<1>2. Complete(m) => Behind(m)
  BY <1>0
<1>3. \A n \in Nights : n # m /\ Behind(n) => Behind(n)'
  BY <1>0, <1>1, <1>2, StaysBehindRetired
<1>4. Complete(m)' => Behind(m)'
  <2>. SUFFICES ASSUME Complete(m)' PROVE Behind(m)'
    OBVIOUS
  <2>1. Behind(m)
    BY <1>0, <1>1, <1>2 DEF Complete
  <2>2. After(manifest, m) \subseteq After(manifest', m)
    BY <1>0, <1>1 DEF After, Nights
  <2>. QED BY <1>0, <2>1, <2>2, StaysBehind
<1>5. Sound'
  BY <1>0, <1>1, <1>3, <1>4, SoundButOne
<1>6. Listed'
  <2>1. ASSUME NEW n \in drop', Complete(n)'
        PROVE  Behind(n)'
    <3>1. n \in drop /\ n # m /\ n \in Nights /\ Complete(n)
      BY <1>0, <1>1, <2>1 DEF Complete
    <3>. QED BY <1>0, <1>3, <3>1
  <2>. QED BY <2>1 DEF Listed
<1>7. Tonight'
  <2>1. \A n \in Nights : n > night' => manifest'[n] = Unwritten
    BY <1>0, <1>1
  <2>. QED BY <2>1 DEF Tonight
<1>. QED BY <1>5, <1>6, <1>7

LEMMA KeepsBacks == IInv /\ Backs => Tonight' /\ Listed' /\ Sound'
<1>. SUFFICES ASSUME IInv, Backs PROVE Tonight' /\ Listed' /\ Sound'
  OBVIOUS
<1>1. CASE NotConfigured \/ NothingToDump \/ Begin \/ Succeeds
  BY <1>1, KeepsStill
<1>2. CASE WritesManifest \/ ManifestFails
  BY <1>2, KeepsManifest
<1>3. CASE CleansUp
  BY <1>3, KeepsCleaning DEF CleansUp
<1>4. CASE RetentionFails
  <2>1. CASE UNCHANGED bucket
    BY <1>4, <2>1, KeepsStill
  <2>2. ASSUME NEW m \in drop, PurgesPart(m)
        PROVE  Tonight' /\ Listed' /\ Sound'
    BY <1>4, <2>2, KeepsPurge DEF RetentionFails
  <2>. QED BY <1>4, <2>1, <2>2 DEF RetentionFails
<1>5. CASE Killed
  <2>1. CASE UNCHANGED bucket /\ step # "cleaning"
    BY <1>5, <2>1, KeepsStill
  <2>2. CASE step = "cleaning"
    BY <1>5, <2>2, KeepsCleaning DEF Killed
  <2>3. ASSUME step = "uploading", UNCHANGED manifest,
               NEW s \in todo, NEW part \in {"good", "torn"}, obj' = [obj EXCEPT ![night][s] = part]
        PROVE  Tonight' /\ Listed' /\ Sound'
    BY <1>5, <2>3, KeepsUploads DEF Killed
  <2>4. ASSUME step = "pruning", NEW m \in drop, PurgesPart(m)
        PROVE  Tonight' /\ Listed' /\ Sound'
    BY <1>5, <2>4, KeepsPurge DEF Killed
  <2>. QED BY <1>5, <2>1, <2>2, <2>3, <2>4 DEF Killed
<1>6. ASSUME NEW s \in Stores, Uploads(s)
      PROVE  Tonight' /\ Listed' /\ Sound'
  <2>1. PICK part \in {"good", "unsound"} : obj' = [obj EXCEPT ![night][s] = part]
    BY <1>6 DEF Uploads
  <2>. QED BY <1>6, <2>1, KeepsUploads DEF Uploads
<1>7. ASSUME NEW s \in Stores, UploadFails(s)
      PROVE  Tonight' /\ Listed' /\ Sound'
  BY <1>7, KeepsUploads DEF UploadFails
<1>8. ASSUME NEW k \in Kinds, Lists(k)
      PROVE  Tonight' /\ Listed' /\ Sound'
  BY <1>8, KeepsLists
<1>9. ASSUME NEW n \in Nights, Retires(n)
      PROVE  Tonight' /\ Listed' /\ Sound'
  BY <1>9, KeepsPurge DEF Retires
<1>. QED BY <1>1, <1>2, <1>3, <1>4, <1>5, <1>6, <1>7, <1>8, <1>9 DEF Backs

(* The restore check writes nothing.                                       *)
LEMMA KeepsOthers ==
  ASSUME IInv, UNCHANGED <<bucket, step, todo, drop, mislaid, night, host>>
  PROVE  Tonight' /\ Listed' /\ Sound'
<1>1. UNCHANGED <<obj, manifest, mislaid>> /\ Unsettled' \subseteq Unsettled
  BY DEF bucket, Unsettled
<1>2. Sound' /\ \A n \in Nights : (Complete(n) => Behind(n)) => (Complete(n)' => Behind(n)')
  BY <1>1, SoundUnchanged
<1>3. Listed'
  BY <1>2 DEF IInv, Listed, TypeOK
<1>4. Tonight'
  BY <1>1 DEF IInv, Tonight, Deployed
<1>. QED BY <1>2, <1>3, <1>4

LEMMA KeepsDawn == IInv /\ Dawn => Tonight' /\ Listed' /\ Sound'
<1>. SUFFICES ASSUME IInv, Dawn PROVE Tonight' /\ Listed' /\ Sound'
  OBVIOUS
<1>0. night \in 1 .. MaxNights /\ night < MaxNights /\ night' = night + 1 /\ MaxNights \in Nat
  BY BackupAssumption DEF Dawn, IInv, TypeOK
<1>1. /\ UNCHANGED <<obj, manifest, mislaid>> /\ Unsettled = {} /\ Unsettled' = {}
      /\ step' = "due" /\ drop' = {} /\ night' = night + 1 /\ night' \in Nights /\ night \in Nights
  BY <1>0 DEF Dawn, Unsettled, bucket, IInv, Listed, Nights
<1>2. Sound'
  BY <1>1, SoundUnchanged
<1>3. \A n \in Nights : n > night => manifest'[n] = Unwritten
  BY <1>1 DEF IInv, Tonight
<1>4. Tonight'
  BY <1>1, <1>3 DEF Tonight, Nights
<1>. QED BY <1>1, <1>2, <1>4 DEF Listed

LEMMA IInvStep == IInv /\ [Next]_vars => IInv'
<1>. SUFFICES ASSUME IInv, [Next]_vars PROVE IInv'
  OBVIOUS
<1>1. TypeOK'
  <2>1. CASE UNCHANGED vars
    BY <2>1 DEF IInv, TypeOK, vars, bucket, backup, verify
  <2>. QED BY <2>1, TypeBacks, TypeVerifies, TypeDawn DEF Next, IInv
<1>2. CASE Backs
  BY <1>1, <1>2, KeepsBacks DEF IInv
<1>3. CASE Verifies \/ UNCHANGED vars
  <2>1. UNCHANGED <<bucket, step, todo, drop, mislaid, night, host>>
    BY <1>3 DEF Verifies, VerifyBegins, NothingFresh, CheckFails, Passes, ChecksOut,
                DoesNotCheckOut, Tells, backup, vars, bucket
  <2>. QED BY <1>1, <2>1, KeepsOthers DEF IInv
<1>4. CASE Dawn
  BY <1>1, <1>4, KeepsDawn DEF IInv
<1>. QED BY <1>2, <1>3, <1>4 DEF Next

(* A set that counts as complete is whole, unless retention has begun to   *)
(* purge it and as many newer ones as it keeps are there, or its manifest  *)
(* was mislaid (offbox_backup.py: backup, prune).                          *)
THEOREM CompletenessIsTrue == Spec => []CompleteIsWhole
<1>1. IInv => CompleteIsWhole
  BY SoundSuffices DEF IInv
<1>. QED BY IInit, IInvStep, <1>1, PTL DEF Spec

(***************************************************************************)
(* What a run that ended well leaves behind.                               *)
(*                                                                         *)
(* While it prunes, tonight's set stands, and of each kind it has listed   *)
(* what is not yet to go is complete and no more than is kept.             *)
(***************************************************************************)

Left(k) == Sets(k) \ drop

Tidy ==
    /\ \A s \in Stores : host[s] = "absent" => s \in Optional
    /\ step # "over" => last = "none"
    /\ last = "done" => drop = {} /\ kinds = {}
    /\ step = "pruning" \/ last = "done" =>
         /\ Whole(night) /\ manifest[night] = Deployed /\ night \notin drop
         /\ \A k \in Kinds \ kinds :
              Left(k) \subseteq CompleteSets(k) /\ Cardinality(Left(k)) <= Keep[k]

LEMMA TidySuffices == TypeOK /\ Tidy => DoneMeansDone
<1>. SUFFICES ASSUME TypeOK, Tidy, last = "done"
              PROVE  /\ Whole(night) /\ manifest[night] = Deployed
                     /\ \A k \in Kinds : Sets(k) = CompleteSets(k) /\ Cardinality(Sets(k)) <= Keep[k]
  BY DEF DoneMeansDone
<1>1. \A k \in Kinds : Left(k) = Sets(k) /\ CompleteSets(k) \subseteq Sets(k)
  BY DEF Tidy, Left, CompleteSets
<1>. QED BY <1>1 DEF Tidy

(* Of some nights, those with fewer than c later ones among them are at    *)
(* most c: all but the first are later than the first.                     *)
LEMMA FewHaveFewAfter ==
  ASSUME NEW T, T \subseteq Nights, NEW c \in Nat \ {0},
         NEW R, R \subseteq T,
         \A n \in R : Cardinality({m \in T : m > n}) < c
  PROVE  Cardinality(R) <= c
<1>1. IsFiniteSet(Nights)
  BY BackupAssumption, FS_Interval DEF Nights
<1>2. IsFiniteSet(R) /\ Cardinality(R) \in Nat
  BY <1>1, FS_Subset, FS_CardinalityType
<1>3. CASE R = {}
  BY <1>3, FS_EmptySet
<1>4. CASE R # {}
  <2>1. R \subseteq Nat
    BY DEF Nights
  <2>2. PICK n \in R : \A m \in R : n <= m
    BY <1>4, <2>1, NatsHaveLeast
  <2>3. R \ {n} \subseteq {m \in T : m > n}
    BY <2>1, <2>2
  <2>4. /\ Cardinality(R \ {n}) \in Nat /\ Cardinality({m \in T : m > n}) \in Nat
        /\ Cardinality(R \ {n}) <= Cardinality({m \in T : m > n})
    <3>1. {m \in T : m > n} \subseteq Nights
      OBVIOUS
    <3>. QED BY <2>3, <3>1, Counts
  <2>5. Cardinality(R \ {n}) = Cardinality(R) - 1
    BY <1>2, FS_RemoveElement
  <2>. QED BY <1>2, <2>2, <2>4, <2>5
<1>. QED BY <1>3, <1>4

(* What retention leaves of a kind it lists.                               *)
LEMMA ListedRightly ==
  ASSUME NEW k \in Kinds
  PROVE  /\ Sets(k) \ Dropped(k) \subseteq CompleteSets(k)
         /\ Cardinality(Sets(k) \ Dropped(k)) <= Keep[k]
<1>. DEFINE R == Sets(k) \ Dropped(k)
<1>1. R \subseteq CompleteSets(k) /\ CompleteSets(k) \subseteq Nights
  BY DEF Dropped, CompleteSets, Sets
<1>2. ASSUME NEW n \in R
      PROVE  Cardinality({m \in CompleteSets(k) : m > n}) < Keep[k]
  <2>1. n \in Nights /\ KindOf(n) = k /\ ~(Cardinality(Newer(n)) >= Keep[k])
    BY DEF Dropped, Sets
  <2>2. Newer(n) = {m \in CompleteSets(k) : m > n}
    BY <2>1 DEF Newer
  <2>3. Cardinality(Newer(n)) \in Nat
    BY <1>1, <2>2, Counts
  <2>. QED BY <2>1, <2>2, <2>3, Kinded
<1>3. Keep[k] \in Nat \ {0}
  BY BackupAssumption
<1>. HIDE DEF R
<1>4. Cardinality(R) <= Keep[k]
  BY <1>1, <1>2, <1>3, FewHaveFewAfter
<1>. QED BY <1>1, <1>4 DEF R

(* The newest set is never dropped.                                        *)
LEMMA TonightIsKept ==
  ASSUME IInv, Complete(night), NEW k \in Kinds
  PROVE  night \notin Dropped(k)
<1>0. night \in Nights /\ \A n \in Nights : n > night => manifest[n] = Unwritten
  BY DEF IInv, TypeOK, Tonight, Nights
<1>1. Newer(night) = {}
  BY <1>0 DEF Newer, CompleteSets, Sets, Complete
<1>2. Cardinality(Newer(night)) = 0
  BY <1>1, FS_EmptySet
<1>. QED BY <1>2, BackupAssumption DEF Dropped

(* A store that must be there is.                                          *)
LEMMA SomeDeployed ==
  ASSUME TypeOK, \A s \in Stores : host[s] = "absent" => s \in Optional
  PROVE  Deployed # {}
  BY BackupAssumption DEF Deployed

LEMMA TidyInit == Init => Tidy
  BY DEF Init, Tidy

(* The steps that neither write to the bucket nor list.                    *)
LEMMA TidyStill ==
  ASSUME Tidy, UNCHANGED <<bucket, host, night>>,
         \/ UNCHANGED <<step, last, drop, kinds>>
         \/ step' = "over" /\ last' \in {"failed", "not configured"}
         \/ step # "over" /\ step' \in {"uploading", "cleaning"} /\ last' = last
         \/ Succeeds
  PROVE  Tidy'
<1>1. \A k \in Kinds : Sets(k)' = Sets(k) /\ CompleteSets(k)' = CompleteSets(k)
  BY DEF Sets, CompleteSets, Present, Complete, bucket
<1>2. (Whole(night)' <=> Whole(night)) /\ Deployed' = Deployed /\ manifest'[night'] = manifest[night]
  BY DEF Whole, Complete, Deployed, bucket
<1>3. CASE UNCHANGED <<step, last, drop, kinds>>
  BY <1>1, <1>2, <1>3 DEF Tidy, Left
<1>4. CASE step' = "over" /\ last' \in {"failed", "not configured"}
  BY <1>4 DEF Tidy
<1>5. CASE step # "over" /\ step' \in {"uploading", "cleaning"} /\ last' = last
  BY <1>5 DEF Tidy
<1>6. CASE Succeeds
  BY <1>1, <1>2, <1>6 DEF Tidy, Left, Succeeds
<1>. QED BY <1>3, <1>4, <1>5, <1>6

LEMMA TidyRetires ==
  ASSUME IInv, Tidy, NEW n \in Nights, Retires(n)
  PROVE  Tidy'
<1>0. /\ step = "pruning" /\ n \in drop /\ n # night /\ night \in Nights
      /\ drop' = drop \ {n} /\ UNCHANGED <<host, night, step, kinds, last>>
      /\ obj \in [Nights -> [Stores -> {"none", "good", "unsound", "torn"}]]
      /\ manifest \in [Nights -> SUBSET Stores]
  BY DEF Retires, Tidy, IInv, TypeOK, Nights
<1>1. /\ obj' = [obj EXCEPT ![n] = NoObjects]
      /\ manifest' = [manifest EXCEPT ![n] = Unwritten]
  BY DEF Retires, Purges, PurgedTo, NoObjects
<1>2. \A m \in Nights : m # n => obj'[m] = obj[m] /\ manifest'[m] = manifest[m]
  BY <1>0, <1>1
<1>3. ~Present(n)' /\ ~Complete(n)'
  BY <1>0, <1>1 DEF Present, Complete, NoObjects
<1>4. \A m \in Nights : m # n => (Present(m)' <=> Present(m)) /\ (Complete(m)' <=> Complete(m))
  BY <1>2 DEF Present, Complete, NoObjects
<1>5. \A k \in Kinds : /\ Left(k)' \subseteq Left(k)
                       /\ CompleteSets(k)' = CompleteSets(k) \ {n}
                       /\ n \notin Left(k)'
  BY <1>0, <1>3, <1>4 DEF Left, Sets, CompleteSets
<1>6. \A k \in Kinds : Cardinality(Left(k)) <= Keep[k] => Cardinality(Left(k)') <= Keep[k]
  <2>. SUFFICES ASSUME NEW k \in Kinds, Cardinality(Left(k)) <= Keep[k]
                PROVE  Cardinality(Left(k)') <= Keep[k]
    OBVIOUS
  <2>1. Left(k) \subseteq Nights
    BY DEF Left, Sets
  <2>2. /\ Cardinality(Left(k)') \in Nat /\ Cardinality(Left(k)) \in Nat
        /\ Cardinality(Left(k)') <= Cardinality(Left(k))
    BY <1>5, <2>1, Counts
  <2>. QED BY <2>2, BackupAssumption
<1>7. (Whole(night)' <=> Whole(night)) /\ Deployed' = Deployed
  BY <1>0, <1>2, <1>4 DEF Whole, Deployed
<1>8. last = "none" /\ Whole(night)' /\ manifest'[night'] = Deployed' /\ night' \notin drop'
  BY <1>0, <1>2, <1>7 DEF Tidy
<1>. QED BY <1>0, <1>5, <1>6, <1>8 DEF Tidy

LEMMA TidyLists ==
  ASSUME IInv, Tidy, NEW k \in Kinds, Lists(k)
  PROVE  Tidy'
<1>0. /\ step = "pruning" /\ drop = {} /\ last = "none"
      /\ drop' = Dropped(k) /\ kinds' = kinds \ {k}
      /\ UNCHANGED <<host, night, step, last, bucket>>
  BY DEF Lists, Tidy
<1>1. \A l \in Kinds : Sets(l)' = Sets(l) /\ CompleteSets(l)' = CompleteSets(l)
  BY <1>0 DEF Sets, CompleteSets, Present, Complete, bucket
<1>2. /\ Whole(night)' /\ manifest'[night'] = Deployed' /\ Complete(night)
  BY <1>0 DEF Whole, Complete, Deployed, bucket, Tidy
<1>3. night' \notin drop'
  BY <1>0, <1>2, TonightIsKept
<1>4. \A l \in Kinds : l # k => Left(l)' = Left(l)
  BY <1>0, <1>1 DEF Left, Dropped, Sets
<1>5. Left(k)' \subseteq CompleteSets(k)' /\ Cardinality(Left(k)') <= Keep[k]
  <2>1. Left(k)' = Sets(k) \ Dropped(k)
    BY <1>0, <1>1 DEF Left
  <2>. QED BY <1>1, <2>1, ListedRightly
<1>. QED BY <1>0, <1>1, <1>2, <1>3, <1>4, <1>5 DEF Tidy

LEMMA TidyManifest ==
  ASSUME IInv, Tidy, WritesManifest
  PROVE  Tidy'
<1>0. /\ step = "uploading" /\ step' = "pruning" /\ todo = {} /\ drop' = {} /\ kinds' = Kinds
      /\ UNCHANGED <<host, night, obj, last>> /\ last = "none"
      /\ manifest' = [manifest EXCEPT ![night] = Deployed]
      /\ manifest \in [Nights -> SUBSET Stores] /\ night \in Nights
  BY DEF WritesManifest, Tidy, IInv, TypeOK, Nights
<1>1. \A s \in Deployed : obj[night][s] \in {"good", "unsound"}
  BY <1>0 DEF IInv, Tonight
<1>2. manifest'[night'] = Deployed /\ Deployed' = Deployed
  BY <1>0 DEF Deployed
<1>3. Deployed # {}
  BY SomeDeployed DEF IInv, Tidy
<1>4. Whole(night)'
  BY <1>0, <1>1, <1>2, <1>3 DEF Whole, Complete, Unwritten
<1>. QED BY <1>0, <1>2, <1>4 DEF Tidy

LEMMA TidyStep == IInv /\ Tidy /\ [Next]_vars => Tidy'
<1>. SUFFICES ASSUME IInv, Tidy, [Next]_vars PROVE Tidy'
  OBVIOUS
<1>1. CASE NotConfigured \/ NothingToDump \/ Begin \/ Succeeds
  <2>1. UNCHANGED <<bucket, host, night>>
    BY <1>1 DEF NotConfigured, NothingToDump, Begin, Succeeds
  <2>2. \/ step' = "over" /\ last' \in {"failed", "not configured"}
        \/ step # "over" /\ step' \in {"uploading", "cleaning"} /\ last' = last
        \/ Succeeds
    BY <1>1 DEF NotConfigured, NothingToDump, Begin
  <2>. QED BY <2>1, <2>2, TidyStill
<1>2. CASE WritesManifest
  BY <1>2, TidyManifest
<1>3. CASE CleansUp \/ RetentionFails \/ Killed
  BY <1>3 DEF Tidy, CleansUp, RetentionFails, Killed
<1>4. CASE ManifestFails \/ \E s \in Stores : Uploads(s) \/ UploadFails(s)
  BY <1>4 DEF Tidy, ManifestFails, Uploads, UploadFails
<1>5. ASSUME NEW k \in Kinds, Lists(k)
      PROVE  Tidy'
  BY <1>5, TidyLists
<1>6. ASSUME NEW n \in Nights, Retires(n)
      PROVE  Tidy'
  BY <1>6, TidyRetires
<1>7. CASE Verifies \/ UNCHANGED vars
  <2>1. UNCHANGED <<bucket, host, night, step, last, drop, kinds>>
    BY <1>7 DEF Verifies, VerifyBegins, NothingFresh, CheckFails, Passes, ChecksOut,
                DoesNotCheckOut, Tells, backup, vars
  <2>. QED BY <2>1, TidyStill
<1>8. CASE Dawn
  BY <1>8 DEF Tidy, Dawn
<1>. QED BY <1>1, <1>2, <1>3, <1>4, <1>5, <1>6, <1>7, <1>8 DEF Next, Backs

(* Exit 0 of a configured run means what it says: tonight's set is whole   *)
(* and names every store deployed, and retention has left no incomplete    *)
(* set and no more than it keeps (offbox_backup.py: backup, prune).        *)
THEOREM ADoneRunIsDone == Spec => []DoneMeansDone
<1>1. Init => IInv /\ Tidy
  BY IInit, TidyInit
<1>2. (IInv /\ Tidy) /\ [Next]_vars => (IInv /\ Tidy)'
  BY IInvStep, TidyStep
<1>3. IInv /\ Tidy => DoneMeansDone
  BY TidySuffices DEF IInv
<1>. QED BY <1>1, <1>2, <1>3, PTL DEF Spec

(***************************************************************************)
(* What retention leaves, and what the restore check may rely on.          *)
(***************************************************************************)

Untouched(n) == obj'[n] = obj[n] /\ manifest'[n] = manifest[n]

(* A step writes to tonight's set, while it is incomplete or mislaid, or   *)
(* purges one that retention has listed.                                   *)
LEMMA StepTouches ==
  ASSUME IInv, [Next]_vars
  PROVE  \/ \A n \in Nights : n # night \/ (Complete(n) /\ n \notin mislaid) => Untouched(n)
         \/ /\ step = "pruning"
            /\ \E m \in drop : /\ \A n \in Nights : n # m => Untouched(n)
                             /\ manifest' \in {manifest, [manifest EXCEPT ![m] = Unwritten]}
<1>. DEFINE AtNight == \A n \in Nights : n # night \/ (Complete(n) /\ n \notin mislaid) => Untouched(n)
            Purge   == /\ step = "pruning"
                       /\ \E m \in drop : /\ \A n \in Nights : n # m => Untouched(n)
                                        /\ manifest' \in {manifest, [manifest EXCEPT ![m] = Unwritten]}
<1>. SUFFICES AtNight \/ Purge
  OBVIOUS
<1>0. /\ night \in Nights /\ TypeOK /\ drop \subseteq Nights
      /\ obj \in [Nights -> [Stores -> {"none", "good", "unsound", "torn"}]]
      /\ manifest \in [Nights -> SUBSET Stores]
      /\ step = "uploading" => ~Complete(night)
      /\ step = "cleaning" => ~Complete(night) \/ night \in mislaid
  BY DEF IInv, TypeOK, Tonight, Nights, Complete
<1>1. CASE UNCHANGED bucket
  BY <1>1 DEF bucket, Untouched
<1>2. ASSUME NEW s, NEW part, UNCHANGED manifest, step = "uploading",
             obj' \in {obj, [obj EXCEPT ![night][s] = part]}
      PROVE  AtNight
  BY <1>0, <1>2 DEF Untouched
<1>3. ASSUME NEW m \in Nights, Purges(m) \/ PurgesPart(m)
      PROVE  /\ \A n \in Nights : n # m => Untouched(n)
             /\ manifest' \in {manifest, [manifest EXCEPT ![m] = Unwritten]}
  BY <1>0, <1>3, PurgeOfOne DEF Untouched
<1>4. ASSUME step = "cleaning", Purges(night) \/ PurgesPart(night)
      PROVE  AtNight
  BY <1>0, <1>3, <1>4
<1>5. ASSUME step = "pruning", NEW m \in drop, Purges(m) \/ PurgesPart(m)
      PROVE  Purge
  BY <1>0, <1>3, <1>5
<1>6. CASE WritesManifest \/ ManifestFails
  <2>1. step = "uploading" /\ UNCHANGED obj
        /\ manifest' \in {manifest, [manifest EXCEPT ![night] = Deployed]}
    BY <1>6 DEF WritesManifest, ManifestFails
  <2>. QED BY <1>0, <2>1 DEF Untouched
<1>7. CASE CleansUp
  BY <1>4, <1>7 DEF CleansUp
<1>8. CASE RetentionFails
  BY <1>1, <1>5, <1>8 DEF RetentionFails
<1>9. CASE Killed
  <2>1. CASE /\ step = "uploading" /\ UNCHANGED manifest
             /\ \E s \in todo, part \in {"good", "torn"} : obj' = [obj EXCEPT ![night][s] = part]
    BY <1>2, <2>1
  <2>. QED BY <1>1, <1>4, <1>5, <1>9, <2>1 DEF Killed
<1>10. ASSUME NEW s \in Stores, Uploads(s) \/ UploadFails(s)
       PROVE  AtNight
  <2>1. \E part : obj' \in {obj, [obj EXCEPT ![night][s] = part]}
    BY <1>10 DEF Uploads, UploadFails
  <2>2. step = "uploading" /\ UNCHANGED manifest
    BY <1>10 DEF Uploads, UploadFails
  <2>. QED BY <1>2, <2>1, <2>2
<1>11. ASSUME NEW n \in Nights, Retires(n)
       PROVE  Purge
  BY <1>5, <1>11 DEF Retires
<1>12. CASE \/ NotConfigured \/ NothingToDump \/ Begin \/ Succeeds
            \/ \E k \in Kinds : Lists(k)
  BY <1>1, <1>12 DEF NotConfigured, NothingToDump, Begin, Succeeds, Lists
<1>13. CASE Verifies \/ Dawn \/ UNCHANGED vars
  <2>1. UNCHANGED bucket
    BY <1>13 DEF Verifies, VerifyBegins, NothingFresh, CheckFails, Passes, ChecksOut,
                 DoesNotCheckOut, Tells, Dawn, vars
  <2>. QED BY <1>1, <2>1
<1>. HIDE DEF AtNight, Purge
<1>. QED BY <1>6, <1>7, <1>8, <1>9, <1>10, <1>11, <1>12, <1>13 DEF Next, Backs

(* Behind a set that may go there are as many newer ones as are kept that  *)
(* are not behind as many themselves: of those that are, the newest has    *)
(* only such after it.                                                     *)
LEMMA NewestAfter ==
  ASSUME NEW n \in Nights, Cardinality(After(manifest, n)) >= Keep[KindOf(n)]
  PROVE  \E R \in SUBSET After(manifest, n) :
            /\ Cardinality(R) >= Keep[KindOf(n)]
            /\ \A x \in R : ~(Cardinality(After(manifest, x)) >= Keep[KindOf(n)])
<1>. DEFINE T == After(manifest, n)
            H == {x \in T : Cardinality(After(manifest, x)) >= Keep[KindOf(n)]}
<1>0. T \subseteq Nights /\ H \subseteq T
  BY DEF After
<1>1. CASE H = {}
  <2>1. \A x \in T : ~(Cardinality(After(manifest, x)) >= Keep[KindOf(n)])
    BY <1>1
  <2>. QED BY <2>1
<1>2. CASE H # {}
  <2>1. PICK y \in H : \A x \in H : x <= y
    BY <1>0, <1>2, NightsHaveLast
  <2>2. After(manifest, y) \subseteq T
    <3>. SUFFICES ASSUME NEW x \in After(manifest, y) PROVE x \in T
      OBVIOUS
    <3>1. y \in Nights /\ KindOf(y) = KindOf(n) /\ y > n
      BY <2>1 DEF After
    <3>2. x \in Nights /\ manifest[x] # Unwritten /\ KindOf(x) = KindOf(y) /\ x > y
      BY DEF After
    <3>3. x > n
      BY <3>1, <3>2 DEF Nights
    <3>. QED BY <3>1, <3>2, <3>3 DEF After
  <2>3. \A x \in After(manifest, y) : x \notin H
    <3>1. \A x \in After(manifest, y) : x \in Nights /\ y \in Nights /\ x > y
      BY <1>0 DEF After
    <3>. QED BY <2>1, <3>1 DEF Nights
  <2>4. Cardinality(After(manifest, y)) >= Keep[KindOf(n)]
    BY <2>1
  <2>5. \A x \in After(manifest, y) : ~(Cardinality(After(manifest, x)) >= Keep[KindOf(n)])
    BY <2>2, <2>3
  <2>. QED BY <2>2, <2>4, <2>5
<1>. QED BY <1>1, <1>2

(* Such sets are whole, or mislaid and broken.                             *)
LEMMA RetiredLeavesEnough ==
  ASSUME IInv, step = "pruning", NEW m \in drop, Complete(m)
  PROVE  \E R \in SUBSET After(manifest, m) :
            /\ Cardinality(R) >= Keep[KindOf(m)]
            /\ R \subseteq WholeSets(KindOf(m)) \cup Broken(KindOf(m))
<1>0. m \in Nights /\ Unsettled = {} /\ Behind(m)
  BY DEF IInv, TypeOK, Listed, Unsettled
<1>1. PICK R \in SUBSET After(manifest, m) :
         /\ Cardinality(R) >= Keep[KindOf(m)]
         /\ \A x \in R : ~(Cardinality(After(manifest, x)) >= Keep[KindOf(m)])
  BY <1>0, NewestAfter DEF Behind
<1>2. ASSUME NEW x \in R
      PROVE  x \in WholeSets(KindOf(m)) \cup Broken(KindOf(m))
  <2>1. x \in Nights /\ Complete(x) /\ KindOf(x) = KindOf(m) /\ ~Behind(x)
    BY <1>0, <1>1 DEF After, Complete, Behind
  <2>2. x \in CompleteSets(KindOf(m))
    BY <2>1 DEF CompleteSets, Sets, Present, Complete
  <2>3. x \in mislaid \/ Whole(x)
    BY <2>1 DEF IInv, Sound
  <2>. QED BY <2>2, <2>3 DEF WholeSets, Broken
<1>. QED BY <1>1, <1>2

LEMMA UntouchedStaysWhole ==
  ASSUME NEW k \in Kinds, NEW n \in WholeSets(k), Untouched(n)
  PROVE  n \in WholeSets(k)'
  BY DEF WholeSets, CompleteSets, Sets, Present, Complete, Whole, Untouched

(* Of sets of which some are broken, the others are no fewer than the rest.*)
LEMMA OthersOf ==
  ASSUME NEW W, NEW B, NEW R, W \subseteq Nights, B \subseteq Nights, R \subseteq W \cup B
  PROVE  /\ Cardinality(R) - Cardinality(B) <= Cardinality(W \cap R)
         /\ Cardinality(R) \in Nat /\ Cardinality(B) \in Nat /\ Cardinality(W \cap R) \in Nat
<1>1. IsFiniteSet(Nights)
  BY BackupAssumption, FS_Interval DEF Nights
<1>2. IsFiniteSet(W \cap R) /\ IsFiniteSet(B)
  BY <1>1, FS_Subset
<1>3. /\ Cardinality((W \cap R) \cup B)
             = Cardinality(W \cap R) + Cardinality(B) - Cardinality((W \cap R) \cap B)
  BY <1>2, FS_Union
<1>4. /\ Cardinality(W \cap R) \in Nat /\ Cardinality(B) \in Nat
      /\ Cardinality((W \cap R) \cap B) \in Nat
      /\ Cardinality(R) \in Nat /\ Cardinality((W \cap R) \cup B) \in Nat
      /\ Cardinality(R) <= Cardinality((W \cap R) \cup B)
  <2>1. /\ W \cap R \subseteq Nights /\ (W \cap R) \cap B \subseteq Nights
        /\ R \subseteq (W \cap R) \cup B /\ (W \cap R) \cup B \subseteq Nights
    OBVIOUS
  <2>. QED BY <2>1, Counts
<1>. QED BY <1>3, <1>4

LEMMA RetentionStep == IInv /\ [Next]_vars => Retention
<1>. SUFFICES ASSUME IInv, [Next]_vars, NEW k \in Kinds
              PROVE  LET before == Cardinality(WholeSets(k) \ {night})
                         kept   == Keep[k] - Cardinality(Broken(k))
                     IN  Cardinality(WholeSets(k)') >= IF before <= kept THEN before ELSE kept
  BY DEF Retention
<1>. DEFINE before == Cardinality(WholeSets(k) \ {night})
            kept   == Keep[k] - Cardinality(Broken(k))
            after  == Cardinality(WholeSets(k)')
<1>0. /\ WholeSets(k) \subseteq Nights /\ WholeSets(k)' \subseteq Nights
      /\ Broken(k) \subseteq Nights /\ night \in Nights /\ Keep[k] \in Nat
      /\ before \in Nat /\ kept \in Int /\ after \in Nat
  <2>1. /\ WholeSets(k) \subseteq Nights /\ WholeSets(k)' \subseteq Nights
        /\ Broken(k) \subseteq Nights
    BY DEF WholeSets, Broken, CompleteSets, Sets
  <2>2. Keep[k] \in Nat /\ night \in Nights
    BY BackupAssumption DEF IInv, TypeOK, Nights
  <2>3. before \in Nat /\ after \in Nat /\ Cardinality(Broken(k)) \in Nat
    BY <2>1, Counts
  <2>. QED BY <2>1, <2>2, <2>3
<1>1. CASE \A n \in Nights : n # night => Untouched(n)
  <2>1. WholeSets(k) \ {night} \subseteq WholeSets(k)'
    BY <1>0, <1>1, UntouchedStaysWhole
  <2>2. before <= after
    BY <1>0, <2>1, Counts
  <2>. QED BY <1>0, <2>2
<1>2. ASSUME step = "pruning", NEW m \in drop, \A n \in Nights : n # m => Untouched(n)
      PROVE  after >= before \/ after >= kept
  <2>0. m \in Nights
    BY DEF IInv, TypeOK
  <2>1. CASE m \notin WholeSets(k)
    <3>1. WholeSets(k) \ {night} \subseteq WholeSets(k)'
      BY <1>0, <1>2, <2>1, UntouchedStaysWhole
    <3>. QED BY <1>0, <3>1, Counts
  <2>2. CASE m \in WholeSets(k)
    <3>1. Complete(m) /\ KindOf(m) = k
      BY <2>2 DEF WholeSets, CompleteSets, Sets
    <3>2. PICK R \in SUBSET After(manifest, m) :
             Cardinality(R) >= Keep[k] /\ R \subseteq WholeSets(k) \cup Broken(k)
      BY <1>2, <3>1, RetiredLeavesEnough
    <3>3. m \notin R
      BY <2>0, <3>2 DEF After, Nights
    <3>4. WholeSets(k) \cap R \subseteq WholeSets(k)'
      BY <1>0, <1>2, <3>3, UntouchedStaysWhole
    <3>5. /\ Cardinality(R) - Cardinality(Broken(k)) <= Cardinality(WholeSets(k) \cap R)
          /\ Cardinality(R) \in Nat /\ Cardinality(Broken(k)) \in Nat
          /\ Cardinality(WholeSets(k) \cap R) \in Nat
      BY <1>0, <3>2, OthersOf
    <3>6. Cardinality(WholeSets(k) \cap R) <= after
      BY <1>0, <3>4, Counts
    <3>. QED BY <1>0, <3>2, <3>5, <3>6
  <2>. QED BY <2>1, <2>2
<1>3. after >= before \/ after >= kept \/ after >= IF before <= kept THEN before ELSE kept
  BY <1>1, <1>2, StepTouches
<1>. QED BY <1>0, <1>3

(* A step takes whole sets away only while as many as are kept remain, but *)
(* for the places of mislaid ones (offbox_backup.py: prune, purge).        *)
THEOREM EnoughIsKept == Spec => RetentionKept
<1>1. IInv /\ [Next]_vars => [Retention]_vars
  BY RetentionStep
<1>. QED BY IInit, IInvStep, <1>1, PTL DEF Spec, RetentionKept

(* Of a kind of which two sets may be younger than MaxAge, two are kept: a *)
(* set that verify reads is not retired under it when tonight's is newer.  *)
KeepsEnough ==
    \A n, m \in Nights :
        n < m /\ m - n <= MaxAge /\ KindOf(n) = KindOf(m) => Keep[KindOf(n)] > 1

(* The set under check is fresh, only tonight's is newer, and what verify  *)
(* has ticked off restores.                                                *)
Checked ==
    check = "checking" =>
        /\ picked \in Nights /\ night - picked <= MaxAge
        /\ \A m \in Nights : m > picked /\ Complete(m) => m = night
        /\ picked \notin mislaid =>
              Complete(picked) /\ \A s \in manifest[picked] \ unchecked : obj[picked][s] = "good"

(* While a set is checked, no step takes it away.                          *)
LEMMA CheckedSetStays ==
  ASSUME KeepsEnough, IInv, Checked, check = "checking", [Next]_vars, picked \notin mislaid
  PROVE  Untouched(picked)
<1>0. /\ picked \in Nights /\ Complete(picked) /\ night \in Nights /\ night - picked <= MaxAge
      /\ \A m \in Nights : m > picked /\ Complete(m) => m = night
      /\ MaxNights \in Nat /\ Keep[KindOf(picked)] \in Nat \ {0}
  BY Kinded, BackupAssumption DEF Checked, IInv, TypeOK, Nights
<1>1. CASE \A n \in Nights : n # night \/ (Complete(n) /\ n \notin mislaid) => Untouched(n)
  BY <1>0, <1>1
<1>2. ASSUME step = "pruning", NEW m \in drop, \A n \in Nights : n # m => Untouched(n)
      PROVE  Untouched(picked)
  <2>1. CASE m # picked
    BY <1>0, <1>2, <2>1
  <2>2. CASE m = picked
    <3>1. Behind(picked) /\ Unsettled = {}
      BY <1>0, <1>2, <2>2 DEF IInv, Listed, Unsettled
    <3>2. Cardinality(After(manifest, picked)) >= Keep[KindOf(picked)]
      BY <3>1 DEF Behind
    <3>3. After(manifest, picked) \subseteq {night}
      BY <1>0 DEF After, Complete
    <3>4. CASE After(manifest, picked) = {}
      BY <1>0, <3>2, <3>4, FS_EmptySet
    <3>5. CASE After(manifest, picked) = {night}
      <4>1. KindOf(night) = KindOf(picked) /\ night > picked
        BY <3>5 DEF After
      <4>2. Keep[KindOf(picked)] > 1
        BY <1>0, <4>1 DEF KeepsEnough, Nights
      <4>3. Cardinality({night}) = 1
        BY FS_Singleton
      <4>. QED BY <1>0, <3>2, <3>5, <4>2, <4>3
    <3>. QED BY <3>3, <3>4, <3>5
  <2>. QED BY <2>1, <2>2
<1>. QED BY <1>1, <1>2, StepTouches

LEMMA CheckedStep == KeepsEnough /\ IInv /\ Checked /\ [Next]_vars => Checked'
<1>. SUFFICES ASSUME KeepsEnough, IInv, Checked, [Next]_vars, check' = "checking"
              PROVE  /\ picked' \in Nights /\ night' - picked' <= MaxAge
                     /\ \A m \in Nights : m > picked' /\ Complete(m)' => m = night'
                     /\ picked' \notin mislaid' =>
                           /\ Complete(picked)'
                           /\ \A s \in manifest'[picked'] \ unchecked' : obj'[picked'][s] = "good"
  BY DEF Checked
<1>1. CASE VerifyBegins
  <2>1. /\ picked' = Latest /\ unchecked' = manifest[Latest] /\ night - Latest <= MaxAge
        /\ UNCHANGED <<night, obj, manifest, mislaid>>
    BY <1>1 DEF VerifyBegins, Fresh, bucket
  <2>2. /\ Latest \in Nights /\ Complete(Latest) /\ \A m \in Nights : Complete(m) => ~(m > Latest)
    BY <1>1, LatestIsLast DEF VerifyBegins
  <2>. QED BY <2>1, <2>2 DEF Complete
<1>2. CASE ~VerifyBegins
  <2>1. /\ check = "checking" /\ UNCHANGED <<picked, night>> /\ mislaid \subseteq mislaid'
        /\ \/ UNCHANGED unchecked
           \/ \E s \in Stores : ChecksOut(s)
    <3>1. CASE Backs
      <4>1. UNCHANGED <<verify, night>>
        BY <3>1 DEF Backs, NotConfigured, NothingToDump, Begin, WritesManifest, ManifestFails, CleansUp,
                    RetentionFails, Succeeds, Killed, Uploads, UploadFails, Lists, Retires, verify
      <4>2. mislaid \subseteq mislaid'
        BY <3>1 DEF Backs, NotConfigured, NothingToDump, Begin, WritesManifest, ManifestFails, CleansUp,
                    RetentionFails, Succeeds, Killed, Uploads, UploadFails, Lists, Retires
      <4>. QED BY <4>1, <4>2 DEF verify
    <3>2. CASE Verifies
      BY <1>2, <3>2 DEF Verifies, NothingFresh, CheckFails, Passes, DoesNotCheckOut, Tells, ChecksOut
    <3>3. CASE Dawn
      BY <3>3 DEF Dawn
    <3>4. CASE UNCHANGED vars
      BY <3>4 DEF vars, verify
    <3>. QED BY <3>1, <3>2, <3>3, <3>4 DEF Next
  <2>2. /\ picked \in Nights /\ night - picked <= MaxAge
        /\ \A m \in Nights : m > picked /\ Complete(m) => m = night
    BY <2>1 DEF Checked
  <2>3. \A m \in Nights : m > picked /\ Complete(m)' => m = night
    <3>1. \A m \in Nights : m # night /\ Complete(m)' => Complete(m)
      <4>0. manifest \in [Nights -> SUBSET Stores]
        BY DEF IInv, TypeOK
      <4>1. CASE \A n \in Nights : n # night \/ (Complete(n) /\ n \notin mislaid) => Untouched(n)
        BY <4>1 DEF Untouched, Complete
      <4>2. ASSUME NEW m \in drop, manifest' \in {manifest, [manifest EXCEPT ![m] = Unwritten]}
            PROVE  \A n \in Nights : Complete(n)' => Complete(n)
        BY <4>0, <4>2 DEF Complete
      <4>. QED BY <4>1, <4>2, StepTouches
    <3>. QED BY <2>2, <3>1
  <2>4. ASSUME picked \notin mislaid'
        PROVE  /\ Complete(picked)'
               /\ \A s \in manifest'[picked] \ unchecked' : obj'[picked][s] = "good"
    <3>1. Untouched(picked)
      BY <2>1, <2>4, CheckedSetStays
    <3>2. Complete(picked) /\ \A s \in manifest[picked] \ unchecked : obj[picked][s] = "good"
      BY <2>1, <2>4 DEF Checked
    <3>3. CASE UNCHANGED unchecked
      BY <2>1, <3>1, <3>2, <3>3 DEF Untouched, Complete
    <3>4. ASSUME NEW s \in Stores, ChecksOut(s)
          PROVE  /\ Complete(picked)'
                 /\ \A x \in manifest'[picked] \ unchecked' : obj'[picked][x] = "good"
      BY <2>1, <3>1, <3>2, <3>4 DEF Untouched, Complete, ChecksOut, Restores
    <3>. QED BY <2>1, <3>3, <3>4
  <2>. QED BY <2>1, <2>2, <2>3, <2>4
<1>. QED BY <1>1, <1>2

(* What holds when the owner is told "good".                               *)
GoodIsTrue ==
    verdict' # verdict /\ verdict'.level = "good" /\ verdict'.set \notin mislaid =>
         LET n == verdict'.set IN
         /\ Complete(n) /\ night - n <= MaxAge
         /\ \A s \in manifest[n] : obj[n][s] = "good"
         /\ \A m \in Nights : m > n /\ Complete(m) => m = night

LEMMA GoodStep == IInv /\ Checked /\ [Next]_vars => GoodIsTrue
<1>. SUFFICES ASSUME IInv, Checked, [Next]_vars,
                     verdict' # verdict, verdict'.level = "good", verdict'.set \notin mislaid
              PROVE  LET n == verdict'.set IN
                     /\ Complete(n) /\ night - n <= MaxAge
                     /\ \A s \in manifest[n] : obj[n][s] = "good"
                     /\ \A m \in Nights : m > n /\ Complete(m) => m = night
  BY DEF GoodIsTrue
<1>1. Passes /\ verdict'.set = picked
  <2>1. CASE Backs
    <3>1. UNCHANGED verify
      BY <2>1 DEF Backs, NotConfigured, NothingToDump, Begin, WritesManifest, ManifestFails, CleansUp,
                  RetentionFails, Succeeds, Killed, Uploads, UploadFails, Lists, Retires, verify
    <3>. QED BY <3>1 DEF verify
  <2>2. CASE Verifies
    BY <2>2 DEF Verifies, VerifyBegins, NothingFresh, CheckFails, Passes, DoesNotCheckOut, Tells, ChecksOut
  <2>3. CASE Dawn
    BY <2>3 DEF Dawn, Silent
  <2>4. CASE UNCHANGED vars
    BY <2>4 DEF vars, verify
  <2>. QED BY <2>1, <2>2, <2>3, <2>4 DEF Next
<1>2. check = "checking" /\ unchecked = {}
  BY <1>1 DEF Passes
<1>. QED BY <1>1, <1>2 DEF Checked

(* With enough sets kept, as KEEP and MAX_AGE have it, the owner is told   *)
(* "good" only of a set that restores in full at that moment, is fresh, and*)
(* has none newer but tonight's (offbox_backup.py: verify).                *)
THEOREM AGoodVerdictIsTrue ==
  ASSUME KeepsEnough
  PROVE  Spec => GoodMeansRestorable
<1>1. Init => IInv /\ Checked
  BY IInit DEF Init, Checked
<1>2. (IInv /\ Checked) /\ [Next]_vars => (IInv /\ Checked)'
  BY IInvStep, CheckedStep
<1>3. (IInv /\ Checked) /\ [Next]_vars => [GoodIsTrue]_vars
  BY GoodStep
<1>. QED BY <1>1, <1>2, <1>3, PTL DEF Spec, GoodMeansRestorable, GoodIsTrue
=============================================================================
