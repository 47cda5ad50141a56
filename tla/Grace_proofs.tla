---------------------------- MODULE Grace_proofs ----------------------------
(***************************************************************************)
(* Proofs about BackupGc and its clock: the grace period protects the      *)
(* blobs that a backup was the first to put in the bucket.  The argument   *)
(* is in the times: what a backup uploads is no older than the backup, a   *)
(* backup that gc-all's listing of manifests missed began at most          *)
(* MaxBackup before that listing, and the cutoff lies Grace before a       *)
(* moment at most MaxPlan after it.                                        *)
(***************************************************************************)
EXTENDS BackupGc_proofs

-----------------------------------------------------------------------------
(* Backups and plans keep within the times assumed of them.                *)
BackupOnTime(b) ==
  /\ started[b] <= now
  /\ Running(b) => now <= started[b] + MaxBackup

PlanOnTime(g) ==
  /\ gpc[g] = "read" => listedAt[g] <= now /\ now <= listedAt[g] + MaxPlan
  /\ gpc[g] = "scan" => listedAt[g] <= now /\ cutoff[g] + Grace <= listedAt[g] + MaxPlan

(* A blob that was not there when a run began is younger than the run.     *)
BlobsDated ==
  \A b \in Backups : bpc[b] # "idle" =>
    \A h \in Stored \ before[b] : started[b] <= blobs[h]

(* A run uploads only what its manifest will reference.                    *)
UploadsListed(b) ==
  /\ bpc[b] \in {"idle", "base", "stage"} => uploaded[b] = {}
  /\ bpc[b] = "upload" => uploaded[b] \subseteq parts[b]

ManifestListed(n) ==
  LET b == snapshots[n].by IN
    /\ bpc[b] \in {"done", "failed"}
    /\ uploaded[b] \subseteq snapshots[n].refs

(* A collection that is not crowded is the only one, and gc-all has no     *)
(* manifests to remove.                                                    *)
Alone ==
  \A g \in GcRuns :
    /\ Kind[g] = "all" => gpc[g] \notin {"target", "remove"} /\ victims[g] = {}
    /\ Active(g) /\ g \notin crowded => \A f \in GcRuns \ {g} : ~Active(f)

(* gc-all knows each manifest whose run was over, at the latest, when the  *)
(* manifests were listed.                                                  *)
ListingSound(g, n) ==
  /\ Kind[g] = "all"
  /\ started[snapshots[n].by] + MaxBackup < listedAt[g]
  /\ gpc[g] = "scan" \/ (gpc[g] = "read" /\ n \notin toRead[g])
  => view[g][n] = snapshots[n].refs

(* What gc-all has selected is in the bucket, and is none of the blobs a   *)
(* run brought there.                                                      *)
SelectionSound(g) ==
  \A h \in batch[g] \cup doomed[g] :
    /\ h \in Stored
    /\ \A b \in Backups : Running(b) => h \in before[b]
    /\ \A n \in Present : h \notin NewBlobs(snapshots[n].by)

(* The listing reaches a blob once, which is then selected at most once.   *)
ScannedOnce(g) ==
  gpc[g] = "scan" =>
    batch[g] \cap doomed[g] = {} /\ (batch[g] \cup doomed[g]) \cap toScan[g] = {}

GraceInv ==
  /\ \A b \in Backups : BackupOnTime(b) /\ UploadsListed(b)
  /\ \A g \in GcRuns : PlanOnTime(g) /\ ScannedOnce(g)
  /\ BlobsDated
  /\ \A n \in Present : ManifestListed(n)
  /\ Alone
  /\ \A g \in GcRuns, n \in Present : ListingSound(g, n)
  /\ \A g \in GcRuns : Kind[g] = "all" /\ g \notin crowded => SelectionSound(g)

Inv == TypeOK /\ RetentionInv /\ GraceInv

LEMMA GraceInit == Init => GraceInv
<1> SUFFICES ASSUME Init PROVE GraceInv
  OBVIOUS
<1> USE MaxBackupAssumption
    DEF Init, BucketInit, BackupInit, GcInit
<1>1. Present = {} /\ Stored = {}
  BY DEF Present, Stored
<1>2. \A b \in Backups : BackupOnTime(b) /\ UploadsListed(b)
  BY DEF BackupOnTime, UploadsListed, Running
<1>3. \A g \in GcRuns : PlanOnTime(g) /\ ScannedOnce(g) /\ SelectionSound(g)
  BY DEF PlanOnTime, ScannedOnce, SelectionSound
<1>4. Alone /\ BlobsDated
  BY <1>1 DEF Alone, BlobsDated, Active
<1> QED
  BY <1>1, <1>2, <1>3, <1>4 DEF GraceInv

LEMMA GraceHolds == GraceInv => GraceProtectsNewBlobs
  BY NameOfAssumption DEF GraceInv, GraceProtectsNewBlobs, SelectionSound, NewBlobs

(* Manifests are well-formed records of a run and hashes.                  *)
LEMMA ManifestTypes ==
  ASSUME TypeOK, NEW n \in Present
  PROVE  n \in Names /\ snapshots[n].by \in Backups /\ snapshots[n].refs \in SUBSET Hashes
  BY DEF TypeOK, BucketTypeOK, Present, Manifest

(* Whatever a step of a backup does to the backups, collections keep their *)
(* state.                                                                  *)
LEMMA GcFrame ==
  ASSUME GraceInv, UNCHANGED <<now, gcVars, crowded>>
  PROVE  (\A g \in GcRuns : PlanOnTime(g)' /\ ScannedOnce(g)') /\ Alone'
  BY DEF GraceInv, PlanOnTime, ScannedOnce, Alone, Active, gcVars

(* The backups other than b, of whose state a step of b changes nothing.   *)
OtherBackupsKeep(b) ==
  \A c \in Backups \ {b} :
    /\ bpc'[c] = bpc[c] /\ started'[c] = started[c] /\ parts'[c] = parts[c]
    /\ uploaded'[c] = uploaded[c] /\ before'[c] = before[c]

(* A step within a run, or its end without a manifest: the run's history   *)
(* and the bucket stay as they are.                                        *)
LEMMA QuietStep ==
  ASSUME TypeOK, GraceInv, NEW b \in Backups, OtherBackupsKeep(b), Running(b),
         UNCHANGED <<now, bucketVars, gcVars, crowded, started, before, uploaded>>,
         bpc'[b] \in {"base", "stage", "upload", "failed"},
         UploadsListed(b)'
  PROVE  GraceInv'
<1>t. \A n \in Present : snapshots[n].by \in Backups
  BY ManifestTypes
<1>1. \A c \in Backups : BackupOnTime(c)'
  BY DEF GraceInv, BackupOnTime, Running, OtherBackupsKeep
<1>2. \A c \in Backups : UploadsListed(c)'
  BY DEF GraceInv, UploadsListed, OtherBackupsKeep
<1>3. BlobsDated'
  BY DEF GraceInv, BlobsDated, Stored, Running, OtherBackupsKeep, bucketVars
<1>4. Present' = Present /\ \A n \in Present : ManifestListed(n)'
  BY <1>t DEF GraceInv, ManifestListed, Present, Running, OtherBackupsKeep, bucketVars
<1>5. \A g \in GcRuns, n \in Present : ListingSound(g, n)'
  BY DEF GraceInv, ListingSound, gcVars, bucketVars
<1>6. \A g \in GcRuns : SelectionSound(g) => SelectionSound(g)'
  BY <1>4 DEF SelectionSound, NewBlobs, Stored, Running, OtherBackupsKeep, gcVars, bucketVars
<1> QED
  BY <1>1, <1>2, <1>3, <1>4, <1>5, <1>6, GcFrame DEF GraceInv

LEMMA StartStep ==
  ASSUME TypeOK, GraceInv, NEW b \in Backups, Start(b)
  PROVE  GraceInv'
<1>t. /\ \A n \in Present : snapshots[n].by \in Backups
      /\ bpc \in [Backups -> BackupPc] /\ started \in [Backups -> 0..MaxTime]
      /\ before \in [Backups -> SUBSET Hashes] /\ now \in Nat /\ MaxBackup \in Nat
  BY ManifestTypes, MaxTimeAssumption, MaxBackupAssumption
     DEF TypeOK, BackupTypeOK, BucketTypeOK
<1>s. /\ bpc[b] = "idle" /\ bpc'[b] \in {"base", "stage"}
      /\ started'[b] = now /\ before'[b] = Stored
      /\ OtherBackupsKeep(b)
      /\ UNCHANGED <<now, bucketVars, uploaded, gcVars, crowded>>
  BY <1>t DEF Start, BackupStart, OtherBackupsKeep, TypeOK, BackupTypeOK
<1>1. \A c \in Backups : BackupOnTime(c)'
  BY <1>t, <1>s DEF GraceInv, BackupOnTime, Running, OtherBackupsKeep
<1>2. \A c \in Backups : UploadsListed(c)'
  BY <1>s DEF GraceInv, UploadsListed, OtherBackupsKeep
<1>3. BlobsDated'
  BY <1>s DEF GraceInv, BlobsDated, Stored, OtherBackupsKeep, bucketVars
<1>4. Present' = Present /\ \A n \in Present : snapshots[n].by \in Backups \ {b}
  BY <1>t, <1>s DEF GraceInv, ManifestListed, Present, bucketVars
<1>5. \A n \in Present : ManifestListed(n)'
  BY <1>s, <1>4 DEF GraceInv, ManifestListed, OtherBackupsKeep, bucketVars
<1>6. \A g \in GcRuns, n \in Present : ListingSound(g, n)'
  BY <1>s, <1>4 DEF GraceInv, ListingSound, OtherBackupsKeep, gcVars, bucketVars
<1>7. \A g \in GcRuns : SelectionSound(g) => SelectionSound(g)'
  BY <1>s, <1>4 DEF SelectionSound, NewBlobs, Stored, Running, OtherBackupsKeep, gcVars,
     bucketVars
<1> QED
  BY <1>s, <1>1, <1>2, <1>3, <1>4, <1>5, <1>6, <1>7, GcFrame DEF GraceInv

(* A blob that is uploaded is younger than every run under way.            *)
LEMMA UploadStep ==
  ASSUME TypeOK, GraceInv, NEW b \in Backups, NEW h \in Hashes, Upload(b, h)
  PROVE  GraceInv'
<1>t. /\ \A n \in Present : snapshots[n].by \in Backups
      /\ blobs \in [Hashes -> Nat \cup {Absent}] /\ now \in Nat
      /\ uploaded \in [Backups -> SUBSET Hashes]
  BY ManifestTypes, MaxTimeAssumption DEF TypeOK, BackupTypeOK, BucketTypeOK
<1>s. /\ bpc[b] = "upload" /\ h \in parts[b]
      /\ blobs' = [blobs EXCEPT ![h] = now]
      /\ uploaded'[b] = uploaded[b] \cup {h}
      /\ OtherBackupsKeep(b)
      /\ UNCHANGED <<now, snapshots, bpc, started, parts, before, gcVars, crowded>>
      /\ Present' = Present
  BY <1>t DEF Upload, BackupUpload, PutBlob, NeedUpload, OtherBackupsKeep, historyVars, Present
<1>1. \A c \in Backups : BackupOnTime(c)' /\ UploadsListed(c)'
  BY <1>s DEF GraceInv, BackupOnTime, UploadsListed, Running, OtherBackupsKeep
<1>2. Stored' = Stored \cup {h}
  BY <1>t, <1>s, AbsentAssumption DEF Stored
<1>3. BlobsDated'
  BY <1>t, <1>s, <1>2 DEF GraceInv, BlobsDated, BackupOnTime
<1>4. \A n \in Present : snapshots[n].by # b /\ ManifestListed(n)'
  BY <1>t, <1>s DEF GraceInv, ManifestListed, OtherBackupsKeep
<1>5. \A g \in GcRuns, n \in Present : ListingSound(g, n)'
  BY <1>s DEF GraceInv, ListingSound, gcVars
<1>6. \A g \in GcRuns : SelectionSound(g) => SelectionSound(g)'
  BY <1>t, <1>s, <1>2, <1>4 DEF SelectionSound, NewBlobs, Running, OtherBackupsKeep, gcVars
<1> QED
  BY <1>s, <1>1, <1>3, <1>4, <1>5, <1>6, GcFrame DEF GraceInv

(* A manifest that is written now was not old enough for any listing of    *)
(* manifests to have had to see it, and none of its blobs is selected.     *)
LEMMA WriteStep ==
  ASSUME TypeOK, GraceInv, NEW b \in Backups, NEW outcome \in {"done", "failed"},
         BackupWrite(b, outcome), UNCHANGED <<now, gcVars, crowded, before>>
  PROVE  GraceInv'
<1>t. /\ \A n \in Present : snapshots[n].by \in Backups
      /\ bpc \in [Backups -> BackupPc] /\ parts \in [Backups -> SUBSET Hashes]
      /\ now \in Nat /\ MaxBackup \in Nat /\ NameOf[b] \in Names
      /\ started \in [Backups -> Nat] /\ listedAt \in [GcRuns -> Nat]
      /\ snapshots \in [Names -> Manifest \cup {Absent}]
  BY ManifestTypes, MaxTimeAssumption, MaxBackupAssumption, NameOfAssumption
     DEF TypeOK, BackupTypeOK, BucketTypeOK, GcTypeOK
<1> DEFINE m == [refs |-> parts[b], by |-> b]
<1>s. /\ bpc[b] = "upload" /\ bpc'[b] \in {"done", "failed"}
      /\ snapshots[NameOf[b]] = Absent /\ snapshots'[NameOf[b]] = m
      /\ \A n \in Names \ {NameOf[b]} : snapshots'[n] = snapshots[n]
      /\ OtherBackupsKeep(b)
      /\ UNCHANGED <<blobs, started, uploaded>>
  BY <1>t DEF BackupWrite, WriteManifest, BackupEnd, OtherBackupsKeep
<1>p. /\ Present' = Present \cup {NameOf[b]}
      /\ \A n \in Present : n # NameOf[b] /\ snapshots'[n] = snapshots[n]
  BY <1>t, <1>s, AbsentAssumption DEF Present, Manifest
<1>1. \A c \in Backups : BackupOnTime(c)' /\ UploadsListed(c)'
  BY <1>s DEF GraceInv, BackupOnTime, UploadsListed, Running, OtherBackupsKeep
<1>2. BlobsDated'
  BY <1>s DEF GraceInv, BlobsDated, Stored, OtherBackupsKeep
<1>3. \A n \in Present' : ManifestListed(n)'
  <2>1. ManifestListed(NameOf[b])'
    BY <1>s DEF GraceInv, UploadsListed, ManifestListed
  <2>2. ASSUME NEW n \in Present PROVE ManifestListed(n)'
    BY <1>t, <1>s, <1>p DEF GraceInv, ManifestListed, OtherBackupsKeep
  <2> QED BY <1>p, <2>1, <2>2
<1>4. \A g \in GcRuns, n \in Present' : ListingSound(g, n)'
  <2>1. ASSUME NEW g \in GcRuns PROVE ListingSound(g, NameOf[b])'
    <3>1. now <= started[b] + MaxBackup
      BY <1>s DEF GraceInv, BackupOnTime, Running
    <3>2. gpc[g] \in {"read", "scan"} => listedAt[g] <= now
      BY DEF GraceInv, PlanOnTime
    <3> QED BY <1>t, <1>s, <3>1, <3>2 DEF ListingSound, gcVars
  <2>2. ASSUME NEW g \in GcRuns, NEW n \in Present PROVE ListingSound(g, n)'
    BY <1>s, <1>p DEF GraceInv, ListingSound, gcVars
  <2> QED BY <1>p, <2>1, <2>2
<1>5. ASSUME NEW g \in GcRuns, SelectionSound(g) PROVE SelectionSound(g)'
  <2>1. SUFFICES ASSUME NEW h \in batch[g] \cup doomed[g], NEW n \in Present'
                 PROVE h \notin NewBlobs(snapshots[n].by)'
    BY <1>s, <1>5 DEF SelectionSound, Stored, Running, OtherBackupsKeep, gcVars
  <2>2. CASE n = NameOf[b]
    BY <1>s, <1>5, <2>2 DEF SelectionSound, NewBlobs, Running
  <2>3. CASE n \in Present
    BY <1>s, <1>p, <1>5, <2>3 DEF SelectionSound, NewBlobs
  <2> QED BY <1>p, <2>2, <2>3
<1> QED
  BY <1>1, <1>2, <1>3, <1>4, <1>5, GcFrame DEF GraceInv, gcVars

LEMMA BackupKeepsGrace ==
  ASSUME TypeOK, GraceInv, NEW b \in Backups, BackupNext(b)
  PROVE  GraceInv'
<1>t. /\ bpc \in [Backups -> BackupPc] /\ started \in [Backups -> 0..MaxTime]
      /\ parts \in [Backups -> SUBSET Hashes] /\ uploaded \in [Backups -> SUBSET Hashes]
      /\ before \in [Backups -> SUBSET Hashes]
  BY DEF TypeOK, BackupTypeOK
<1>u. UploadsListed(b)
  BY DEF GraceInv
<1> USE <1>t, <1>u DEF historyVars, OtherBackupsKeep, UploadsListed, Running
<1>f. CASE BackupFail(b) /\ UNCHANGED <<now, gcVars, crowded, before>>
  BY <1>f, QuietStep DEF BackupFail, BackupEnd, bucketVars
<1>1. CASE Start(b) BY <1>1, StartStep
<1>2. CASE ReadBase(b) BY <1>2, QuietStep DEF ReadBase, BackupReadBase
<1>3. ASSUME NEW h \in Hashes, Head(b, h) PROVE GraceInv'
  BY <1>3, QuietStep DEF Head, BackupHead
<1>4. CASE Staged(b) BY <1>4, QuietStep DEF Staged, BackupStaged
<1>5. ASSUME NEW h \in Hashes, Upload(b, h) PROVE GraceInv' BY <1>5, UploadStep
<1>6. CASE Write(b) BY <1>6, WriteStep DEF Write
<1>7. CASE WriteUnacknowledged(b) BY <1>7, WriteStep DEF WriteUnacknowledged
<1>8. CASE NameTaken(b) BY <1>8, <1>f DEF NameTaken
<1>9. CASE BaseGone(b) BY <1>9, <1>f DEF BaseGone
<1>10. CASE Crash(b) BY <1>10, <1>f DEF Crash
<1> QED
  BY <1>1, <1>2, <1>3, <1>4, <1>5, <1>6, <1>7, <1>8, <1>9, <1>10 DEF BackupNext

-----------------------------------------------------------------------------
(* What the clock's invariants say of the collection g alone.              *)
CollectionSound(g) ==
  /\ PlanOnTime(g) /\ ScannedOnce(g)
  /\ Kind[g] = "all" => gpc[g] \notin {"target", "remove"} /\ victims[g] = {}
  /\ \A n \in Present : ListingSound(g, n)
  /\ Kind[g] = "all" /\ g \notin crowded => SelectionSound(g)

OthersKeepTimes(g) ==
  /\ OthersKeep(g)
  /\ \A f \in GcRuns \ {g} :
       listedAt'[f] = listedAt[f] /\ cutoff'[f] = cutoff[f] /\ toScan'[f] = toScan[f]

(* A step of a collection that leaves the bucket alone.                    *)
LEMMA CollectionKeeps ==
  ASSUME TypeOK, GraceInv, NEW g \in GcRuns, OthersKeepTimes(g), Active(g),
         UNCHANGED <<now, backupVars, bucketVars, before, crowded>>,
         CollectionSound(g)'
  PROVE  GraceInv'
<1>1. Present' = Present /\ Stored' = Stored
  BY DEF Present, Stored, bucketVars
<1>2. \A b \in Backups : BackupOnTime(b)' /\ UploadsListed(b)'
  BY DEF GraceInv, BackupOnTime, UploadsListed, Running, backupVars
<1>3. BlobsDated' /\ \A n \in Present : ManifestListed(n)'
  BY <1>1 DEF GraceInv, BlobsDated, ManifestListed, backupVars, bucketVars
<1>4. \A f \in GcRuns : PlanOnTime(f)' /\ ScannedOnce(f)'
  BY DEF GraceInv, CollectionSound, PlanOnTime, ScannedOnce, OthersKeepTimes, OthersKeep
<1>5. Alone'
  BY DEF GraceInv, CollectionSound, Alone, Active, OthersKeepTimes, OthersKeep
<1>6. \A f \in GcRuns, n \in Present : ListingSound(f, n)'
  BY <1>1 DEF GraceInv, CollectionSound, ListingSound, OthersKeepTimes, OthersKeep,
     backupVars, bucketVars
<1>7. ASSUME NEW f \in GcRuns \ {g}, SelectionSound(f) PROVE SelectionSound(f)'
  BY <1>1, <1>7 DEF SelectionSound, NewBlobs, Running, OthersKeepTimes, OthersKeep,
     backupVars, bucketVars
<1> QED
  BY <1>1, <1>2, <1>3, <1>4, <1>5, <1>6, <1>7 DEF GraceInv, CollectionSound

(* A run that is over has nothing to be sound about.                       *)
LEMMA ResetKeeps ==
  ASSUME TypeOK, GraceInv, NEW g \in GcRuns, GcReset(g), Active(g),
         UNCHANGED <<now, backupVars, before, crowded>>
  PROVE  GraceInv'
<1>1. OthersKeepTimes(g)
  BY DEF GcReset, OthersKeepTimes, OthersKeep, TypeOK, GcTypeOK
<1>2. /\ gpc'[g] = "idle" /\ victims'[g] = {} /\ batch'[g] = {} /\ doomed'[g] = {}
  BY DEF GcReset, TypeOK, GcTypeOK
<1>3. CollectionSound(g)'
  BY <1>2 DEF CollectionSound, PlanOnTime, ScannedOnce, ListingSound, SelectionSound
<1> QED
  BY <1>1, <1>3, CollectionKeeps DEF GcReset

(* The heart of the matter: a blob that gc-all may collect was there when  *)
(* each run under way began, and none of a manifest's run brought it.      *)
LEMMA CollectableIsOld ==
  ASSUME TypeOK, GraceInv, NEW g \in GcRuns, Kind[g] = "all", gpc[g] = "scan",
         NEW h \in Hashes, Collectable(g, h)
  PROVE  /\ h \in Stored
         /\ \A b \in Backups : Running(b) => h \in before[b]
         /\ \A n \in Present : h \notin NewBlobs(snapshots[n].by)
<1>t. /\ now \in Nat /\ MaxBackup \in Nat /\ MaxPlan \in Nat /\ Grace \in Nat
      /\ started \in [Backups -> 0..MaxTime] /\ listedAt \in [GcRuns -> 0..MaxTime]
      /\ cutoff \in [GcRuns -> Int] /\ blobs \in [Hashes -> Nat \cup {Absent}]
      /\ MaxTime \in Nat
  BY MaxTimeAssumption, MaxBackupAssumption, MaxPlanAssumption, GraceAssumption
     DEF TypeOK, BucketTypeOK, BackupTypeOK, GcTypeOK
<1>1. h \in Stored /\ blobs[h] \in Nat /\ blobs[h] <= cutoff[g] /\ h \notin Referenced(g)
  BY <1>t DEF Collectable, Stored
<1>2. listedAt[g] <= now /\ blobs[h] + MaxBackup < listedAt[g]
  BY <1>t, <1>1, GraceCoversBackup DEF GraceInv, PlanOnTime
<1>3. ASSUME NEW b \in Backups, Running(b) PROVE h \in before[b]
  <2>1. now <= started[b] + MaxBackup /\ bpc[b] # "idle"
    BY <1>3 DEF GraceInv, BackupOnTime, Running
  <2>2. h \notin before[b] => started[b] <= blobs[h]
    BY <1>1, <2>1 DEF GraceInv, BlobsDated
  <2> QED BY <1>t, <1>1, <1>2, <2>1, <2>2
<1>4. ASSUME NEW n \in Present, h \in NewBlobs(snapshots[n].by) PROVE FALSE
  <2> DEFINE b == snapshots[n].by
  <2>1. b \in Backups /\ snapshots[n].refs \in SUBSET Hashes /\ n \in Names
    BY ManifestTypes
  <2>2. bpc[b] \in {"done", "failed"} /\ h \in snapshots[n].refs /\ h \notin before[b]
    BY <1>4 DEF GraceInv, ManifestListed, NewBlobs
  <2>3. started[b] <= blobs[h]
    BY <1>1, <2>1, <2>2 DEF GraceInv, BlobsDated
  <2>4. view[g][n] = snapshots[n].refs
    BY <1>t, <1>1, <1>2, <2>1, <2>3 DEF GraceInv, ListingSound
  <2>5. h \in Referenced(g)
    BY <2>1, <2>2, <2>4, AbsentAssumption DEF Referenced, ReadNames, HashesIn
  <2> QED BY <1>1, <2>5
<1> QED
  BY <1>1, <1>3, <1>4

LEMMA StepKeepsGrace ==
  ASSUME TypeOK, RetentionInv, GraceInv, NEW g \in GcRuns, GcStep(g),
         UNCHANGED <<now, backupVars, historyVars>>
  PROVE  GraceInv'
<1>t. GcTypeOK /\ MaxTime \in Nat /\ now \in 0..MaxTime /\ MaxPlan \in Nat /\ Grace \in Nat
  BY MaxTimeAssumption, MaxPlanAssumption, GraceAssumption DEF TypeOK, BucketTypeOK
<1>p. CollectionSound(g) /\ PlanSound(g)
  BY DEF GraceInv, Alone, CollectionSound, RetentionInv, PlansSound
<1>m. \A n \in Present : started[snapshots[n].by] \in 0..MaxTime /\ n \in Names
  BY ManifestTypes DEF TypeOK, BackupTypeOK
<1> USE <1>t DEF GcTypeOK, historyVars
<1>r. CASE GcReset(g) /\ Active(g)
  BY <1>r, ResetKeeps
<1>q. ASSUME UNCHANGED bucketVars, OthersKeepTimes(g), Active(g),
             PlanOnTime(g)', ScannedOnce(g)', victims'[g] = {} \/ Kind[g] # "all",
             Kind[g] = "all" => gpc'[g] \notin {"target", "remove"},
             \A n \in Present : ListingSound(g, n)',
             Kind[g] = "all" /\ g \notin crowded => SelectionSound(g)'
      PROVE GraceInv'
  <2>1. Present' = Present
    BY <1>q DEF Present, bucketVars
  <2> QED BY <1>q, <2>1, CollectionKeeps DEF CollectionSound
<1>v. ASSUME UNCHANGED bucketVars, batch'[g] \cup doomed'[g] \subseteq batch[g] \cup doomed[g],
             SelectionSound(g)
      PROVE SelectionSound(g)'
  BY <1>v DEF SelectionSound, NewBlobs, Stored, Present, Running, backupVars, bucketVars
<1>1. CASE GcList(g)
  <2>1. OthersKeepTimes(g) /\ PlanOnTime(g)' /\ ScannedOnce(g)'
    BY <1>1, <1>p DEF GcList, OthersKeepTimes, OthersKeep, PlanOnTime, ScannedOnce
  <2>2. \A n \in Present : ListingSound(g, n)'
    BY <1>1, <1>p DEF GcList, CollectionSound, ListingSound, bucketVars
  <2>3. SelectionSound(g)'
    BY <1>1, <1>p DEF GcList, PlanSound, SelectionSound
  <2> QED BY <1>1, <1>p, <2>1, <2>2, <2>3, <1>q DEF GcList, Active, CollectionSound
<1>2. CASE GcPlanScan(g)
  <2>1. OthersKeepTimes(g) /\ PlanOnTime(g)' /\ ScannedOnce(g)'
    BY <1>2, <1>p DEF GcPlanScan, OthersKeepTimes, OthersKeep, PlanOnTime, ScannedOnce,
       PlanSound, CollectionSound
  <2>2. \A n \in Present : ListingSound(g, n)'
    BY <1>2, <1>p DEF GcPlanScan, CollectionSound, ListingSound, bucketVars, backupVars
  <2>3. SelectionSound(g)'
    BY <1>2, <1>p DEF GcPlanScan, PlanSound, SelectionSound
  <2> QED BY <1>2, <1>p, <2>1, <2>2, <2>3, <1>q DEF GcPlanScan, Active, CollectionSound
<1>3. CASE GcPlanRemoval(g)
  <2>1. OthersKeepTimes(g) /\ PlanOnTime(g)' /\ ScannedOnce(g)' /\ \A n \in Present : ListingSound(g, n)'
    BY <1>3 DEF GcPlanRemoval, OthersKeepTimes, OthersKeep, PlanOnTime, ScannedOnce, ListingSound
  <2> QED BY <1>3, <2>1, <1>q DEF GcPlanRemoval, Active
<1>4. ASSUME NEW m \in Names, GcReadTarget(g, m) PROVE GraceInv'
  <2>1. Kind[g] # "all"
    BY <1>4, <1>p DEF GcReadTarget, CollectionSound
  <2>2. OthersKeepTimes(g) /\ PlanOnTime(g)' /\ ScannedOnce(g)' /\ \A n \in Present : ListingSound(g, n)'
    BY <1>4, <2>1 DEF GcReadTarget, OthersKeepTimes, OthersKeep, PlanOnTime, ScannedOnce, ListingSound
  <2> QED BY <1>4, <2>1, <2>2, <1>q DEF GcReadTarget, Active
<1>5. ASSUME NEW m \in Names, GcRead(g, m) PROVE GraceInv'
  <2>1. OthersKeepTimes(g) /\ PlanOnTime(g)' /\ ScannedOnce(g)'
    BY <1>5, <1>p DEF GcRead, OthersKeepTimes, OthersKeep, PlanOnTime, ScannedOnce,
       CollectionSound
  <2>2. \A n \in Present : ListingSound(g, n)'
    BY <1>5, <1>p, <1>m DEF GcRead, CollectionSound, ListingSound, bucketVars, backupVars
  <2>3. SelectionSound(g)'
    BY <1>5, <1>p DEF GcRead, PlanSound, SelectionSound
  <2> QED BY <1>5, <1>p, <2>1, <2>2, <2>3, <1>q DEF GcRead, Active, CollectionSound
<1>6. CASE GcFlush(g)
  <2>1. OthersKeepTimes(g) /\ PlanOnTime(g)' /\ ScannedOnce(g)'
    BY <1>6, <1>p DEF GcFlush, OthersKeepTimes, OthersKeep, PlanOnTime, ScannedOnce,
       CollectionSound
  <2>2. \A n \in Present : ListingSound(g, n)'
    BY <1>6, <1>p DEF GcFlush, CollectionSound, ListingSound, bucketVars, backupVars
  <2>3. Kind[g] = "all" /\ g \notin crowded => SelectionSound(g)'
    BY <1>6, <1>p, <1>v DEF GcFlush, CollectionSound
  <2> QED BY <1>6, <1>p, <2>1, <2>2, <2>3, <1>q DEF GcFlush, Active, CollectionSound
<1>7. ASSUME NEW h \in Hashes, GcScan(g, h) PROVE GraceInv'
  <2>1. OthersKeepTimes(g) /\ PlanOnTime(g)' /\ ScannedOnce(g)'
    BY <1>7, <1>p DEF GcScan, OthersKeepTimes, OthersKeep, PlanOnTime, ScannedOnce,
       CollectionSound
  <2>2. \A n \in Present : ListingSound(g, n)'
    BY <1>7, <1>p DEF GcScan, CollectionSound, ListingSound, bucketVars, backupVars
  <2>3. ASSUME Kind[g] = "all", g \notin crowded PROVE SelectionSound(g)'
    <3>1. CASE Collectable(g, h)
      <4>1. batch'[g] \cup doomed'[g] = (batch[g] \cup doomed[g]) \cup {h}
        BY <1>7, <3>1 DEF GcScan
      <4>2. /\ h \in Stored
            /\ \A b \in Backups : Running(b) => h \in before[b]
            /\ \A n \in Present : h \notin NewBlobs(snapshots[n].by)
        BY <1>7, <2>3, <3>1, CollectableIsOld DEF GcScan
      <4> QED
        BY <1>7, <1>p, <2>3, <4>1, <4>2 DEF GcScan, CollectionSound, SelectionSound, NewBlobs,
           Stored, Present, Running, backupVars, bucketVars
    <3>2. CASE ~Collectable(g, h)
      BY <1>7, <1>p, <2>3, <3>2, <1>v DEF GcScan, CollectionSound
    <3> QED BY <3>1, <3>2
  <2> QED BY <1>7, <1>p, <2>1, <2>2, <2>3, <1>q DEF GcScan, Active, CollectionSound
<1>8. ASSUME NEW h \in Hashes, GcDeleteBlob(g, h) PROVE GraceInv'
  <2>1. /\ Stored' = Stored \ {h} /\ Present' = Present
        /\ \A k \in Stored' : blobs'[k] = blobs[k]
    BY <1>8 DEF GcDeleteBlob, DeleteBlob, Stored, Present, TypeOK, BucketTypeOK
  <2>2. OthersKeepTimes(g)
    BY <1>8 DEF GcDeleteBlob, OthersKeepTimes, OthersKeep
  <2>3. \A b \in Backups : BackupOnTime(b)' /\ UploadsListed(b)'
    BY DEF GraceInv, BackupOnTime, UploadsListed, Running, backupVars
  <2>4. BlobsDated' /\ \A n \in Present : ManifestListed(n)'
    BY <1>8, <2>1 DEF GcDeleteBlob, GraceInv, BlobsDated, ManifestListed, backupVars
  <2>5. (\A f \in GcRuns : PlanOnTime(f)' /\ ScannedOnce(f)') /\ Alone'
    BY <1>8 DEF GcDeleteBlob, GraceInv, PlanOnTime, ScannedOnce, Alone, Active
  <2>6. \A f \in GcRuns, n \in Present : ListingSound(f, n)'
    BY <1>8 DEF GcDeleteBlob, GraceInv, ListingSound, backupVars
  <2>7. ASSUME NEW f \in GcRuns, Kind[f] = "all", f \notin crowded PROVE SelectionSound(f)'
    <3>1. CASE f = g
      <4>1. gpc[g] = "scan" /\ SelectionSound(g)
        BY <1>8, <1>p, <2>7, <3>1 DEF GcDeleteBlob, Deleting, CollectionSound
      <4>2. /\ batch'[g] = batch[g] /\ doomed'[g] = doomed[g] \ {h} /\ h \notin batch[g]
        BY <1>8, <1>p, <4>1 DEF GcDeleteBlob, CollectionSound, ScannedOnce
      <4>3. UNCHANGED <<before, snapshots, bpc, uploaded>>
        BY <1>8 DEF GcDeleteBlob, backupVars
      <4> QED
        BY <2>1, <3>1, <4>1, <4>2, <4>3 DEF SelectionSound, NewBlobs, Running
    <3>2. CASE f # g
      <4>1. ~Active(f)
        BY <1>8, <2>7, <3>2 DEF GcDeleteBlob, Deleting, GraceInv, Alone, Active
      <4>2. batch[f] = {} /\ doomed[f] = {}
        BY <4>1 DEF RetentionInv, PlansSound, PlanSound, Active
      <4> QED BY <2>2, <3>2, <4>2 DEF OthersKeepTimes, OthersKeep, SelectionSound
    <3> QED BY <3>1, <3>2
  <2> QED BY <2>1, <2>3, <2>4, <2>5, <2>6, <2>7 DEF GraceInv
<1> QED
  BY <1>r, <1>1, <1>2, <1>3, <1>4, <1>5, <1>6, <1>7, <1>8
  DEF GcStep, GcNothingToPrune, GcManifestGone, GcFinish, Deleting, Active

(* A collection that begins makes those that are active, and itself,       *)
(* crowded, unless it is the only one.                                     *)
LEMMA CollectKeepsGrace ==
  ASSUME TypeOK, RetentionInv, GraceInv, NEW g \in GcRuns, Collect(g)
  PROVE  GraceInv'
<1>t. GcTypeOK
  BY DEF TypeOK
<1>s. /\ gpc[g] = "idle" /\ gpc'[g] \in {"target", "list"}
      /\ Kind[g] = "all" => gpc'[g] = "list" /\ victims'[g] = victims[g]
      /\ \A f \in GcRuns \ {g} : gpc'[f] = gpc[f] /\ victims'[f] = victims[f]
      /\ UNCHANGED <<now, bucketVars, backupVars, before, toRead, view, listedAt, cutoff,
                     toScan, batch, doomed>>
  BY <1>t DEF Collect, GcStart, GcTypeOK
<1>1. Present' = Present /\ Stored' = Stored
  BY <1>s DEF Present, Stored, bucketVars
<1>2. \A b \in Backups : BackupOnTime(b)' /\ UploadsListed(b)'
  BY <1>s DEF GraceInv, BackupOnTime, UploadsListed, Running, backupVars
<1>3. BlobsDated' /\ \A n \in Present : ManifestListed(n)'
  BY <1>s, <1>1 DEF GraceInv, BlobsDated, ManifestListed, backupVars, bucketVars
<1>4. \A f \in GcRuns : PlanOnTime(f)' /\ ScannedOnce(f)'
  BY <1>s DEF GraceInv, PlanOnTime, ScannedOnce
<1>5. \A f \in GcRuns, n \in Present : ListingSound(f, n)'
  BY <1>s DEF GraceInv, ListingSound, backupVars, bucketVars
<1>6. Alone'
  <2>1. \A f \in GcRuns : Kind[f] = "all" => gpc'[f] \notin {"target", "remove"} /\ victims'[f] = {}
    BY <1>s DEF GraceInv, Alone
  <2>2. ASSUME NEW f \in GcRuns, Active(f)', f \notin crowded', NEW e \in GcRuns \ {f}
        PROVE ~Active(e)'
    <3>1. CASE CollectionRunning
      <4>1. f # g /\ ~Active(f)
        BY <2>2, <3>1 DEF Collect
      <4> QED BY <1>s, <2>2, <4>1 DEF Active
    <3>2. CASE ~CollectionRunning
      BY <1>s, <2>2, <3>2 DEF CollectionRunning, Active
    <3> QED BY <3>1, <3>2
  <2> QED BY <2>1, <2>2 DEF Alone
<1>7. ASSUME NEW f \in GcRuns, Kind[f] = "all", f \notin crowded' PROVE SelectionSound(f)'
  <2>1. CASE f = g \/ ~Active(f)
    <3>1. batch[f] = {} /\ doomed[f] = {}
      BY <1>s, <2>1 DEF RetentionInv, PlansSound, PlanSound, Active
    <3> QED BY <1>s, <3>1 DEF SelectionSound
  <2>2. CASE f # g /\ Active(f)
    BY <1>7, <2>2 DEF Collect, CollectionRunning
  <2> QED BY <2>1, <2>2
<1> QED
  BY <1>1, <1>2, <1>3, <1>4, <1>5, <1>6, <1>7 DEF GraceInv

(* Only gc-all matters to the selection; removals and pruning touch the    *)
(* manifests.                                                              *)
LEMMA RemovalKeepsGrace ==
  ASSUME TypeOK, GraceInv, NEW g \in GcRuns, NEW m \in Names,
         RemoveManifest(g, m) \/ SkipManifest(g, m)
  PROVE  GraceInv'
<1>s. /\ \A n \in Present' : n \in Present /\ snapshots'[n] = snapshots[n]
      /\ \A f \in GcRuns : victims[f] = {} => victims'[f] = {}
      /\ UNCHANGED <<now, blobs, backupVars, before, crowded, gpc, toRead, view, listedAt, cutoff,
                     toScan, batch, doomed>>
  BY DEF RemoveManifest, GcDeleteManifest, DeleteManifest, SkipManifest, GcSkipManifest,
     Present, bucketVars, TypeOK, BucketTypeOK, GcTypeOK
<1>2. \A b \in Backups : BackupOnTime(b)' /\ UploadsListed(b)'
  BY <1>s DEF GraceInv, BackupOnTime, UploadsListed, Running, backupVars
<1>3. BlobsDated' /\ \A n \in Present' : ManifestListed(n)'
  BY <1>s DEF GraceInv, BlobsDated, ManifestListed, Stored, backupVars
<1>4. (\A f \in GcRuns : PlanOnTime(f)' /\ ScannedOnce(f)') /\ Alone'
  BY <1>s DEF GraceInv, PlanOnTime, ScannedOnce, Alone, Active
<1>5. \A f \in GcRuns, n \in Present' : ListingSound(f, n)'
  BY <1>s DEF GraceInv, ListingSound, backupVars
<1>6. \A f \in GcRuns : SelectionSound(f) => SelectionSound(f)'
  BY <1>s DEF SelectionSound, NewBlobs, Stored, Running, backupVars
<1> QED
  BY <1>s, <1>2, <1>3, <1>4, <1>5, <1>6 DEF GraceInv

LEMMA CallFailsKeepsGrace ==
  ASSUME TypeOK, GraceInv, NEW g \in GcRuns, NEW h \in Hashes, CallFails(g, h)
  PROVE  GraceInv'
<1>t. GcTypeOK
  BY DEF TypeOK
<1>p. CollectionSound(g)
  BY DEF GraceInv, Alone, CollectionSound
<1>s. /\ Active(g) /\ OthersKeepTimes(g)
      /\ batch'[g] = batch[g] /\ doomed'[g] \subseteq doomed[g] /\ toScan'[g] \subseteq toScan[g]
      /\ UNCHANGED <<now, bucketVars, backupVars, before, crowded, gpc, victims, toRead, view,
                     listedAt, cutoff>>
  BY <1>t DEF CallFails, GcScanError, GcDeleteError, Deleting, Active, OthersKeepTimes,
     OthersKeep, GcTypeOK
<1>1. PlanOnTime(g)' /\ ScannedOnce(g)'
  BY <1>p, <1>s DEF CollectionSound, PlanOnTime, ScannedOnce
<1>2. Present' = Present /\ \A n \in Present : ListingSound(g, n)'
  BY <1>p, <1>s DEF CollectionSound, ListingSound, Present, backupVars, bucketVars
<1>3. SelectionSound(g) => SelectionSound(g)'
  BY <1>s, <1>2 DEF SelectionSound, NewBlobs, Stored, Running, backupVars, bucketVars
<1>4. CollectionSound(g)'
  BY <1>p, <1>s, <1>1, <1>2, <1>3 DEF CollectionSound
<1> QED
  BY <1>s, <1>4, CollectionKeeps

(* A delete that will be made again counts against the run that makes it.  *)
LEMMA RepeatedDeleteKeepsGrace ==
  ASSUME TypeOK, RetentionInv, GraceInv, NEW g \in GcRuns, NEW h \in Hashes,
         DeleteUnanswered(g, h)
  PROVE  GraceInv'
<1>u. /\ Active(g) /\ crowded' = crowded \cup {g}
      /\ UNCHANGED <<now, snapshots, gcVars, backupVars, before>>
  BY DEF DeleteUnanswered, GcDeleteUnanswered, Deleting, Active
<1>1. /\ Stored' \subseteq Stored /\ Present' = Present
      /\ \A k \in Stored' : blobs'[k] = blobs[k]
  BY DEF DeleteUnanswered, GcDeleteUnanswered, DeleteBlob, Stored, Present, TypeOK, BucketTypeOK
<1>2. \A b \in Backups : BackupOnTime(b)' /\ UploadsListed(b)'
  BY <1>u DEF GraceInv, BackupOnTime, UploadsListed, Running, backupVars
<1>3. BlobsDated' /\ \A n \in Present : ManifestListed(n)'
  BY <1>u, <1>1 DEF GraceInv, BlobsDated, ManifestListed, backupVars
<1>4. (\A f \in GcRuns : PlanOnTime(f)' /\ ScannedOnce(f)') /\ Alone'
  BY <1>u DEF GraceInv, PlanOnTime, ScannedOnce, Alone, Active, gcVars
<1>5. \A f \in GcRuns, n \in Present : ListingSound(f, n)'
  BY <1>u DEF GraceInv, ListingSound, backupVars, gcVars
<1>6. ASSUME NEW f \in GcRuns, Kind[f] = "all", f \notin crowded' PROVE SelectionSound(f)'
  <2>1. f # g /\ f \notin crowded
    BY <1>u, <1>6
  <2>2. ~Active(f)
    BY <1>u, <2>1 DEF GraceInv, Alone
  <2>3. batch[f] = {} /\ doomed[f] = {}
    BY <2>2 DEF RetentionInv, PlansSound, PlanSound, Active
  <2> QED BY <1>u, <2>3 DEF SelectionSound, gcVars
<1> QED
  BY <1>1, <1>2, <1>3, <1>4, <1>5, <1>6 DEF GraceInv

(* Time passes only as the timing assumptions let it.                      *)
LEMMA TickKeepsGrace ==
  ASSUME TypeOK, GraceInv, Tick
  PROVE  GraceInv'
<1>t. /\ started \in [Backups -> Int] /\ listedAt \in [GcRuns -> Int] /\ now \in Nat
      /\ MaxBackup \in Nat /\ MaxPlan \in Nat
  BY MaxTimeAssumption, MaxBackupAssumption, MaxPlanAssumption
     DEF TypeOK, BackupTypeOK, BucketTypeOK, GcTypeOK
<1>1. \A b \in Backups : BackupOnTime(b)' /\ UploadsListed(b)'
  BY <1>t DEF Tick, GraceInv, BackupOnTime, UploadsListed, Running, backupVars
<1>2. \A g \in GcRuns : PlanOnTime(g)' /\ ScannedOnce(g)'
  BY <1>t DEF Tick, GraceInv, PlanOnTime, ScannedOnce, gcVars
<1>3. BlobsDated' /\ Alone' /\ \A n \in Present' : ManifestListed(n)'
  BY DEF Tick, GraceInv, BlobsDated, Alone, Active, ManifestListed, Present, Stored, backupVars,
     bucketVars, gcVars, historyVars
<1>4. \A g \in GcRuns, n \in Present' : ListingSound(g, n)'
  BY DEF Tick, GraceInv, ListingSound, Present, backupVars, bucketVars, gcVars
<1>5. \A g \in GcRuns : SelectionSound(g) => SelectionSound(g)'
  BY DEF Tick, SelectionSound, NewBlobs, Stored, Present, Running, backupVars, bucketVars,
     gcVars, historyVars
<1>6. UNCHANGED crowded
  BY DEF Tick, historyVars
<1> QED
  BY <1>1, <1>2, <1>3, <1>4, <1>5, <1>6 DEF GraceInv

LEMMA GraceStep == Inv /\ [Next]_vars => GraceInv'
<1> SUFFICES ASSUME TypeOK, RetentionInv, GraceInv, [Next]_vars PROVE GraceInv'
  BY DEF Inv
<1>1. CASE Tick
  BY <1>1, TickKeepsGrace
<1>2. ASSUME NEW b \in Backups, BackupNext(b) PROVE GraceInv'
  BY <1>2, BackupKeepsGrace
<1>3. ASSUME NEW g \in GcRuns, GcNext(g) PROVE GraceInv'
  <2>1. CASE Collect(g) BY <2>1, CollectKeepsGrace
  <2>2. CASE CollectStep(g) BY <2>2, StepKeepsGrace DEF CollectStep
  <2>3. CASE Abort(g) BY <2>3, ResetKeeps DEF Abort, GcAbort
  <2>4. ASSUME NEW n \in Names, RemoveManifest(g, n) \/ SkipManifest(g, n) PROVE GraceInv'
    BY <2>4, RemovalKeepsGrace
  <2>5. ASSUME NEW h \in Hashes, CallFails(g, h) PROVE GraceInv'
    BY <2>5, CallFailsKeepsGrace
  <2>6. ASSUME NEW h \in Hashes, DeleteUnanswered(g, h) PROVE GraceInv'
    BY <2>6, RepeatedDeleteKeepsGrace
  <2> QED BY <1>3, <2>1, <2>2, <2>3, <2>4, <2>5, <2>6 DEF GcNext
<1>4. CASE UNCHANGED vars
  <2>1. Present' = Present /\ Stored' = Stored
    BY <1>4 DEF vars, bucketVars, Present, Stored
  <2>2. \A b \in Backups : BackupOnTime(b)' /\ UploadsListed(b)'
    BY <1>4 DEF vars, GraceInv, BackupOnTime, UploadsListed, Running, backupVars
  <2>3. BlobsDated' /\ Alone' /\ \A n \in Present : ManifestListed(n)'
    BY <1>4, <2>1 DEF vars, GraceInv, BlobsDated, Alone, Active, ManifestListed, backupVars,
       bucketVars, gcVars, historyVars
  <2>4. \A g \in GcRuns : PlanOnTime(g)' /\ ScannedOnce(g)' /\ \A n \in Present : ListingSound(g, n)'
    BY <1>4 DEF vars, GraceInv, PlanOnTime, ScannedOnce, ListingSound, backupVars, bucketVars,
       gcVars
  <2>5. \A g \in GcRuns : SelectionSound(g) => SelectionSound(g)'
    BY <1>4, <2>1 DEF vars, SelectionSound, NewBlobs, Running, backupVars, bucketVars, gcVars,
       historyVars
  <2>6. UNCHANGED crowded
    BY <1>4 DEF vars, historyVars
  <2> QED BY <2>1, <2>2, <2>3, <2>4, <2>5, <2>6 DEF GraceInv
<1> QED
  BY <1>1, <1>2, <1>3, <1>4 DEF Next

(* gc-all, when no other collection runs beside it, never selects a blob   *)
(* that a backup under way, or one whose manifest is there, was the first  *)
(* to upload: for any grace period longer than a backup and the planning   *)
(* of a collection together.                                               *)
THEOREM GraceProtects == Spec => []GraceProtectsNewBlobs
<1>1. Init => Inv
  BY TypeInit, RetentionInit, GraceInit DEF Inv
<1>2. Inv /\ [Next]_vars => Inv'
  BY TypeStep, RetentionStep, GraceStep DEF Inv
<1>3. Inv => GraceProtectsNewBlobs
  BY GraceHolds DEF Inv
<1> QED
  BY <1>1, <1>2, <1>3, PTL DEF Spec
=============================================================================
