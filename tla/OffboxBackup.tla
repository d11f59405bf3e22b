----------------------------- MODULE OffboxBackup -----------------------------
(* scripts/offbox-backup: the nightly encrypted backup to object storage, its *)
(* retention, and the restore check. A backup is one set: an object per store *)
(* and, last, a manifest that names them. What the bucket holds is all the    *)
(* memory there is: retention and the restore check decide by listing it.     *)
(* A night is the unit of time; each night's run writes the set of that night *)
(* and systemd ends every run before the next night begins.                   *)
EXTENDS Integers, FiniteSets

CONSTANTS
    Stores,         \* what a set holds a copy of
    Optional,       \* those whose service may not be deployed on this box
    Keep,           \* kind of set -> how many complete ones are kept
    Week,           \* every Week-th night's set is a weekly one
    MaxAge,         \* nights after which the newest set is too old to verify
    MaxNights,
    MaxFaults       \* failed or unclear calls, kills, unsound sources

Kinds    == {"daily", "weekly"}
Nights   == 1 .. MaxNights
Unwritten == {}     \* no MANIFEST.json in the set: one that is there names a store

ASSUME BackupAssumption ==
    /\ Optional \subseteq Stores /\ Optional # Stores /\ IsFiniteSet(Stores)
    /\ Keep \in [Kinds -> Nat \ {0}]
    /\ Week \in Nat \ {0} /\ MaxAge \in Nat
    /\ MaxNights \in Nat \ {0} /\ MaxFaults \in Nat

VARIABLES
    env,        \* what the env file configures: nothing, the bucket, or the on-box key too
    host,       \* store -> its service is up, down (deployed, no dump to take), or absent
    night,      \* the clock
    obj,        \* night -> store -> what the bucket holds of it
    manifest,   \* night -> Unwritten, or the stores the manifest names
    step,       \* the backup process
    todo,       \* the stores it has still to upload
    drop,       \* the sets it has still to purge
    kinds,      \* the kinds it has still to prune
    last,       \* how the last backup ended
    check,      \* the verify process
    picked,     \* the set it checks; 0 is none
    unchecked,  \* the objects it has still to check
    verdict,    \* what it told the owner last tonight
    mislaid,    \* history: a run failed, and its manifest was written all the same
    faults

bucket == <<obj, manifest>>
backup == <<step, todo, drop, kinds, last>>
verify == <<check, picked, unchecked, verdict>>
vars   == <<env, host, night, bucket, backup, verify, mislaid, faults>>

Silent    == [level |-> "none", set |-> 0]
NoObjects == [s \in Stores |-> "none"]

Init ==
    /\ env \in {"nothing", "bucket", "full"}
    /\ host = [s \in Stores |-> "up"]
    /\ night = 1
    /\ obj = [n \in Nights |-> NoObjects]
    /\ manifest = [n \in Nights |-> Unwritten]
    /\ step = "due" /\ todo = {} /\ drop = {} /\ kinds = {} /\ last = "none"
    /\ check = "idle" /\ picked = 0 /\ unchecked = {} /\ verdict = Silent
    /\ mislaid = {} /\ faults = 0

Fault == faults < MaxFaults /\ faults' = faults + 1

KindOf(n) == IF n % Week = 0 THEN "weekly" ELSE "daily"

-----------------------------------------------------------------------------
(* What a listing shows.                                                      *)

Present(n)  == manifest[n] # Unwritten \/ obj[n] # NoObjects
Complete(n) == manifest[n] # Unwritten

\* list_sets: the sets of a kind; those with a manifest count as complete.
Sets(k)         == {n \in Nights : Present(n) /\ KindOf(n) = k}
CompleteSets(k) == {n \in Sets(k) : Complete(n)}
Newer(n)        == {m \in CompleteSets(KindOf(n)) : m > n}

DroppedOld(k) == \* mutant: incomplete sets are nobody's
    {n \in Sets(k) : Complete(n) /\ Cardinality(Newer(n)) >= Keep[k]}

DroppedMany(k) == \* mutant: one set too many, complete[:-keep + 1]
    {n \in Sets(k) : ~Complete(n) \/ Cardinality(Newer(n)) >= Keep[k] - 1}

\* prune: the incomplete ones, and the complete ones but the newest Keep[k].
Dropped(k) ==
    {n \in Sets(k) : ~Complete(n) \/ Cardinality(Newer(n)) >= Keep[k]}

-----------------------------------------------------------------------------
(* backup.                                                                    *)

\* stores(): what to write; it fails before anything is uploaded when a
\* deployed service has nothing to dump, and skips what is not deployed.
Deployed == {s \in Stores : host[s] # "absent"}

\* Without the bucket's credentials a run is one line and exit 0.
NotConfigured ==
    /\ step = "due" /\ env = "nothing"
    /\ step' = "over" /\ last' = "not configured"
    /\ UNCHANGED <<env, host, night, bucket, todo, drop, kinds, verify, mislaid, faults>>

NothingToDump ==
    /\ step = "due" /\ env # "nothing"
    /\ \E s \in Stores : host[s] = "down"
    /\ step' = "over" /\ last' = "failed"
    /\ UNCHANGED <<env, host, night, bucket, todo, drop, kinds, verify, mislaid, faults>>

Begin ==
    /\ step = "due" /\ env # "nothing"
    /\ \A s \in Stores : host[s] # "down"
    /\ step' = "uploading" /\ todo' = Deployed
    /\ UNCHANGED <<env, host, night, bucket, drop, kinds, last, verify, mislaid, faults>>

\* upload: the object is committed when its stream ends. What it holds is as
\* sound as its source: a dump cut short reads as one.
Uploads(s) ==
    /\ step = "uploading" /\ s \in todo
    /\ \/ obj' = [obj EXCEPT ![night][s] = "good"] /\ UNCHANGED faults
       \/ obj' = [obj EXCEPT ![night][s] = "unsound"] /\ Fault
    /\ todo' = todo \ {s}
    /\ UNCHANGED <<env, host, night, manifest, step, drop, kinds, last, verify, mislaid>>

UploadSkipped(s) == \* mutant: a store that fails is left out of the set, and named
    /\ step = "uploading" /\ s \in todo /\ Fault
    /\ todo' = todo \ {s}
    /\ UNCHANGED <<env, host, night, bucket, step, drop, kinds, last, verify, mislaid>>

\* A stage fails: rclone is killed before its input is closed, so that no
\* truncated object is committed; or the upload was whole and its answer lost.
UploadFails(s) ==
    /\ step = "uploading" /\ s \in todo /\ Fault
    /\ obj' \in {obj, [obj EXCEPT ![night][s] = "good"]}
    /\ step' = "cleaning"
    /\ UNCHANGED <<env, host, night, manifest, todo, drop, kinds, last, verify, mislaid>>

WritesManifest ==
    /\ step = "uploading" /\ todo = {}
    /\ manifest' = [manifest EXCEPT ![night] = Deployed]
    /\ step' = "pruning" /\ kinds' = Kinds /\ drop' = {}
    /\ UNCHANGED <<env, host, night, obj, todo, last, verify, mislaid, faults>>

\* rcat of the manifest exits non-zero, whether or not it was written.
ManifestFails ==
    /\ step = "uploading" /\ todo = {} /\ Fault
    /\ \/ UNCHANGED <<manifest, mislaid>>
       \/ /\ manifest' = [manifest EXCEPT ![night] = Deployed]
          /\ mislaid' = mislaid \cup {night}
    /\ step' = "cleaning"
    /\ UNCHANGED <<env, host, night, obj, todo, drop, kinds, last, verify>>

-----------------------------------------------------------------------------
(* purge removes the files of a set in no order the code controls.            *)

PurgedTo(n, left, m) ==
    /\ obj' = [obj EXCEPT ![n] = [s \in Stores |-> IF s \in left THEN obj[n][s] ELSE "none"]]
    /\ manifest' = [manifest EXCEPT ![n] = m]

Purges(n) == PurgedTo(n, {}, Unwritten)

PurgesPart(n) ==
    \E left \in SUBSET {s \in Stores : obj[n][s] # "none"}, m \in {manifest[n], Unwritten} :
        PurgedTo(n, left, m)

\* The set being written is purged, unchecked; the run ends with exit 1.
CleansUp ==
    /\ step = "cleaning"
    /\ \/ Purges(night) /\ UNCHANGED faults
       \/ PurgesPart(night) /\ Fault
    /\ step' = "over" /\ last' = "failed" /\ todo' = {}
    /\ UNCHANGED <<env, host, night, drop, kinds, verify, mislaid>>

Lists(k) ==
    /\ step = "pruning" /\ drop = {} /\ k \in kinds
    /\ drop' = Dropped(k) /\ kinds' = kinds \ {k}
    /\ UNCHANGED <<env, host, night, bucket, step, todo, last, verify, mislaid, faults>>

Retires(n) ==
    /\ step = "pruning" /\ n \in drop
    /\ Purges(n)
    /\ drop' = drop \ {n}
    /\ UNCHANGED <<env, host, night, step, todo, kinds, last, verify, mislaid, faults>>

\* A listing or a purge fails: "retention failed", exit 1.
RetentionFails ==
    /\ step = "pruning" /\ Fault
    /\ \/ UNCHANGED bucket
       \/ \E n \in drop : PurgesPart(n)
    /\ step' = "over" /\ last' = "failed" /\ drop' = {} /\ kinds' = {}
    /\ UNCHANGED <<env, host, night, todo, verify, mislaid>>

Succeeds ==
    /\ step = "pruning" /\ drop = {} /\ kinds = {}
    /\ step' = "over" /\ last' = "done"
    /\ UNCHANGED <<env, host, night, bucket, todo, drop, kinds, verify, mislaid, faults>>

\* The box reboots or the unit times out: what was being uploaded may be there,
\* or be there in part, and a purge may be half done.
Killed ==
    /\ step \notin {"due", "over"} /\ Fault
    /\ \/ UNCHANGED bucket
       \/ /\ step = "uploading" /\ UNCHANGED manifest
          /\ \E s \in todo, part \in {"good", "torn"} : obj' = [obj EXCEPT ![night][s] = part]
       \/ step = "cleaning" /\ PurgesPart(night)
       \/ step = "pruning" /\ \E n \in drop : PurgesPart(n)
    /\ step' = "over" /\ last' = "failed" /\ todo' = {} /\ drop' = {} /\ kinds' = {}
    /\ UNCHANGED <<env, host, night, verify, mislaid>>

-----------------------------------------------------------------------------
(* verify: the newest complete set of either kind must be fresh, and each     *)
(* object the manifest names must be there, match its hash and restore.       *)

AllComplete == {n \in Nights : Complete(n)}
Latest      == CHOOSE n \in AllComplete : \A m \in AllComplete : m <= n

\* The verdict goes to the owner through notify-relay; exit 1 if it does not.
Tells(level, n) ==
    /\ check' = "idle" /\ picked' = 0 /\ unchecked' = {}
    /\ \/ verdict' = [level |-> level, set |-> n] /\ UNCHANGED faults
       \/ UNCHANGED verdict /\ Fault
    /\ UNCHANGED <<env, host, night, bucket, backup, mislaid>>

VerifyConfigured == env = "full"
Fresh == AllComplete # {} /\ night - Latest <= MaxAge

VerifyBegins ==
    /\ check = "idle" /\ VerifyConfigured
    /\ Fresh
    /\ check' = "checking" /\ picked' = Latest /\ unchecked' = manifest[Latest]
    /\ UNCHANGED <<env, host, night, bucket, backup, verdict, mislaid, faults>>

NothingFresh ==
    /\ check = "idle" /\ VerifyConfigured
    /\ ~Fresh
    /\ Tells("act", 0)

MatchesHash(n, s) == obj[n][s] \in {"good", "unsound"} \* mutant: the hash is proof enough

Restores(n, s) == obj[n][s] = "good"

ChecksOut(s) ==
    /\ check = "checking" /\ s \in unchecked /\ Restores(picked, s)
    /\ unchecked' = unchecked \ {s}
    /\ UNCHANGED <<env, host, night, bucket, backup, check, picked, verdict, mislaid, faults>>

\* Missing, torn or unsound; or docker, the download or the decryption failed.
DoesNotCheckOut(s) ==
    /\ check = "checking" /\ s \in unchecked /\ ~Restores(picked, s)
    /\ Tells("act", picked)

CheckFails ==
    /\ check = "checking" /\ unchecked # {} /\ Fault
    /\ check' = "idle" /\ picked' = 0 /\ unchecked' = {}
    /\ verdict' = [level |-> "act", set |-> picked]
    /\ UNCHANGED <<env, host, night, bucket, backup, mislaid>>

Passes ==
    /\ check = "checking" /\ unchecked = {}
    /\ Tells("good", picked)

-----------------------------------------------------------------------------

\* Timeouts end both units before the next night; services come and go.
Dawn ==
    /\ step = "over" /\ check = "idle" /\ night < MaxNights
    /\ night' = night + 1
    /\ step' = "due" /\ last' = "none"
    /\ host' \in {h \in [Stores -> {"up", "down", "absent"}] :
                    \A s \in Stores : h[s] = "absent" => s \in Optional}
    /\ verdict' = Silent
    /\ UNCHANGED <<env, bucket, todo, drop, kinds, check, picked, unchecked, mislaid, faults>>

Backs ==
    \/ NotConfigured \/ NothingToDump \/ Begin \/ WritesManifest \/ ManifestFails
    \/ CleansUp \/ RetentionFails \/ Succeeds \/ Killed
    \/ \E s \in Stores : Uploads(s) \/ UploadFails(s)
    \/ \E k \in Kinds : Lists(k)
    \/ \E n \in Nights : Retires(n)

Verifies ==
    \/ VerifyBegins \/ NothingFresh \/ CheckFails \/ Passes
    \/ \E s \in Stores : ChecksOut(s) \/ DoesNotCheckOut(s)

Next == Backs \/ Verifies \/ Dawn

Spec == Init /\ [][Next]_vars

-----------------------------------------------------------------------------

\* The bucket, the two processes and the clock stay well formed (offbox_backup.py).
TypeOK ==
    /\ env \in {"nothing", "bucket", "full"}
    /\ host \in [Stores -> {"up", "down", "absent"}]
    /\ night \in 1 .. MaxNights
    /\ obj \in [Nights -> [Stores -> {"none", "good", "unsound", "torn"}]]
    /\ manifest \in [Nights -> SUBSET Stores]
    /\ step \in {"due", "uploading", "cleaning", "pruning", "over"}
    /\ todo \subseteq (IF step \in {"uploading", "cleaning"} THEN Stores ELSE {})
    /\ drop \subseteq Nights /\ kinds \subseteq Kinds
    /\ last \in {"none", "not configured", "failed", "done"}
    /\ check \in {"idle", "checking"} /\ picked \in 0 .. MaxNights /\ unchecked \subseteq Stores
    /\ verdict \in [level : {"none", "good", "act"}, set : 0 .. MaxNights]
    /\ mislaid \subseteq Nights /\ faults \in 0 .. MaxFaults

\* All that a manifest names is there as it was hashed.
Whole(n) == Complete(n) /\ \A s \in manifest[n] : obj[n][s] \in {"good", "unsound"}

\* "MANIFEST.json written last: a set without one is incomplete": a set that
\* counts as complete is whole, unless retention has begun to purge it and as many
\* newer ones as it keeps are there, or the run that wrote it was told that its
\* manifest was not written and failed to take it away (prune, backup).
CompleteIsWhole ==
    \A n \in Nights \ mislaid :
        Complete(n) => Whole(n) \/ Cardinality(Newer(n)) >= Keep[KindOf(n)]

WholeSets(k) == {n \in CompleteSets(k) : Whole(n)}
Broken(k)    == {n \in CompleteSets(k) \cap mislaid : ~Whole(n)}

\* A step may take a whole set away only while as many as are kept remain, but
\* for the places that a mislaid set, counted as complete, takes from them; and
\* a run that failed takes away what it wrote (prune, backup).
Retention ==
    \A k \in Kinds :
        LET before == Cardinality(WholeSets(k) \ {night})
            kept   == Keep[k] - Cardinality(Broken(k))
        IN  Cardinality(WholeSets(k)') >= IF before <= kept THEN before ELSE kept
RetentionKept == [][Retention]_vars

\* Exit 0 of a configured run: tonight's set is whole and names every store
\* deployed, no incomplete set is left, and no more complete ones than are kept.
DoneMeansDone ==
    last = "done" =>
        /\ Whole(night) /\ manifest[night] = Deployed
        /\ \A k \in Kinds : Sets(k) = CompleteSets(k) /\ Cardinality(Sets(k)) <= Keep[k]

\* The owner is told "good" only of a set that is fresh, that only tonight's run
\* may have followed, and that restores in full when it is told (verify); but for
\* one that the run that wrote it still takes away, not knowing that it is complete.
GoodMeansRestorable ==
    [][verdict' # verdict /\ verdict'.level = "good" /\ verdict'.set \notin mislaid =>
         LET n == verdict'.set IN
         /\ Complete(n) /\ night - n <= MaxAge
         /\ \A s \in manifest[n] : obj[n][s] = "good"
         /\ \A m \in Nights : m > n /\ Complete(m) => m = night]_vars
=============================================================================
