------------------------------ MODULE BackupGc ------------------------------
(***************************************************************************)
(* Backup runs and collection runs on one bucket, with a clock.  History   *)
(* variables say which claims can be made about a manifest or a run; the   *)
(* actions write them and none reads them.                                 *)
(***************************************************************************)
EXTENDS Backup, Gc

CONSTANT MaxFaults    \* bound: failed calls, aborted and crashed runs

ASSUME MaxFaultsAssumption == MaxFaults \in Nat

(* The grace period covers a backup and the planning of a collection: it   *)
(* is configured so (six hours by default, against minutes).               *)
ASSUME GraceCoversBackup == MaxBackup + MaxPlan < Grace

VARIABLES
  faults,       \* how many faults there have been
  disturbed,    \* backups with a collection beside them, or whose base is not
                \* itself vouched for
  condemned,    \* manifests that pruning failed to delete
  crowded,      \* collections with another one beside them, and those that
                \* delete a blob again, the answer to the first call being lost
  before        \* before[b]: the blobs in the bucket when run b began

historyVars == <<faults, disturbed, condemned, crowded, before>>

vars == <<now, bucketVars, backupVars, gcVars, historyVars>>

Init ==
  /\ BucketInit
  /\ BackupInit
  /\ GcInit
  /\ faults = 0
  /\ disturbed = {}
  /\ condemned = {}
  /\ crowded = {}
  /\ before = [b \in Backups |-> {}]

(* The manifest n is vouched for: its run was undisturbed and no pruning   *)
(* has taken its blobs away without deleting it.                           *)
Vouched(n) ==
  /\ n \in Present
  /\ snapshots[n].by \notin disturbed
  /\ n \notin condemned

CollectionRunning == \E g \in GcRuns : Active(g)

Fault == faults < MaxFaults /\ faults' = faults + 1

Start(b) ==
  /\ BackupStart(b)
  /\ before' = [before EXCEPT ![b] = Stored]
  /\ disturbed' = IF CollectionRunning THEN disturbed \cup {b} ELSE disturbed
  /\ UNCHANGED <<now, gcVars, faults, condemned, crowded>>

ReadBase(b) ==
  /\ BackupReadBase(b)
  /\ disturbed' = IF Vouched(base[b]) THEN disturbed ELSE disturbed \cup {b}
  /\ UNCHANGED <<now, gcVars, faults, condemned, crowded, before>>

Head(b, h) == BackupHead(b, h) /\ UNCHANGED <<now, gcVars, historyVars>>
Staged(b) == BackupStaged(b) /\ UNCHANGED <<now, gcVars, historyVars>>
Upload(b, h) == BackupUpload(b, h) /\ UNCHANGED <<now, gcVars, historyVars>>

Write(b) ==
  /\ BackupWrite(b, "done")
  /\ UNCHANGED <<now, gcVars, historyVars>>

WriteUnacknowledged(b) ==
  /\ BackupWrite(b, "failed")
  /\ Fault
  /\ UNCHANGED <<now, gcVars, disturbed, condemned, crowded, before>>

(* A run that finds its name taken fails without any fault.                *)
NameTaken(b) ==
  /\ bpc[b] = "upload"
  /\ NeedUpload(b) \subseteq uploaded[b]
  /\ NameOf[b] \in Present
  /\ BackupFail(b)
  /\ UNCHANGED <<now, gcVars, historyVars>>

(* So does a run whose base manifest has been deleted since it was listed. *)
BaseGone(b) ==
  /\ bpc[b] = "base"
  /\ base[b] \notin Present
  /\ BackupFail(b)
  /\ UNCHANGED <<now, gcVars, historyVars>>

Crash(b) ==
  /\ BackupFail(b)
  /\ Fault
  /\ UNCHANGED <<now, gcVars, disturbed, condemned, crowded, before>>

Collect(g) ==
  /\ GcStart(g)
  /\ disturbed' = disturbed \cup {b \in Backups : Running(b)}
  /\ crowded' = IF CollectionRunning
                THEN crowded \cup {g} \cup {f \in GcRuns : Active(f)}
                ELSE crowded \ {g}
  /\ UNCHANGED <<now, backupVars, faults, condemned, before>>

(* The steps of a collection that leave the manifests alone.               *)
CollectStep(g) ==
  /\ GcStep(g)
  /\ UNCHANGED <<now, backupVars, historyVars>>

RemoveManifest(g, n) ==
  /\ GcDeleteManifest(g, n)
  /\ condemned' = condemned \ {n}
  /\ UNCHANGED <<now, backupVars, faults, disturbed, crowded, before>>

SkipManifest(g, n) ==
  /\ GcSkipManifest(g, n)
  /\ Fault
  /\ condemned' = condemned \cup {n}
  /\ UNCHANGED <<now, backupVars, disturbed, crowded, before>>

CallFails(g, h) ==
  /\ GcScanError(g, h) \/ GcDeleteError(g, h)
  /\ Fault
  /\ UNCHANGED <<now, backupVars, disturbed, condemned, crowded, before>>

DeleteUnanswered(g, h) ==
  /\ GcDeleteUnanswered(g, h)
  /\ Fault
  /\ crowded' = crowded \cup {g}
  /\ UNCHANGED <<now, backupVars, disturbed, condemned, before>>

Abort(g) ==
  /\ GcAbort(g)
  /\ Fault
  /\ UNCHANGED <<now, backupVars, disturbed, condemned, crowded, before>>

(* Time passes, under the timing assumptions of MaxBackup and MaxPlan.     *)
Tick ==
  /\ now < MaxTime
  /\ \A b \in Backups : Running(b) => now < started[b] + MaxBackup
  /\ \A g \in GcRuns : gpc[g] = "read" => now < listedAt[g] + MaxPlan
  /\ now' = now + 1
  /\ UNCHANGED <<bucketVars, backupVars, gcVars, historyVars>>

BackupNext(b) ==
  \/ Start(b) \/ ReadBase(b) \/ Staged(b) \/ Write(b) \/ WriteUnacknowledged(b)
  \/ NameTaken(b) \/ BaseGone(b) \/ Crash(b)
  \/ \E h \in Hashes : Head(b, h) \/ Upload(b, h)

GcNext(g) ==
  \/ Collect(g) \/ CollectStep(g) \/ Abort(g)
  \/ \E n \in Names : RemoveManifest(g, n) \/ SkipManifest(g, n)
  \/ \E h \in Hashes : CallFails(g, h) \/ DeleteUnanswered(g, h)

Next ==
  \/ Tick
  \/ \E b \in Backups : BackupNext(b)
  \/ \E g \in GcRuns : GcNext(g)

Spec == Init /\ [][Next]_vars

(* What a run does when nothing goes wrong.                                *)
Progress(b) ==
  \/ ReadBase(b) \/ BaseGone(b) \/ Staged(b) \/ Write(b) \/ NameTaken(b)
  \/ \E h \in Hashes : Head(b, h) \/ Upload(b, h)

(* A process that runs takes its next step: tokio polls every future that  *)
(* is ready, and the clock does not stop.  gc-all is run again and again,  *)
(* as by a timer; nothing makes a backup or a removal start, and no fault  *)
(* has to happen.                                                          *)
Fairness ==
  /\ SF_vars(Tick)
  /\ \A b \in Backups : WF_vars(Progress(b))
  /\ \A g \in GcRuns :
        /\ WF_vars(CollectStep(g) \/ \E n \in Names : RemoveManifest(g, n))
        /\ Kind[g] = "all" => WF_vars(Collect(g))

FairSpec == Spec /\ Fairness

-----------------------------------------------------------------------------
(* Every variable holds a value of its type.                               *)
TypeOK ==
  /\ BucketTypeOK
  /\ BackupTypeOK
  /\ GcTypeOK
  /\ faults \in 0..MaxFaults
  /\ disturbed \subseteq Backups
  /\ condemned \subseteq Names
  /\ crowded \subseteq GcRuns
  /\ before \in [Backups -> SUBSET Hashes]

(* A manifest that is vouched for is restorable: every blob it references  *)
(* is in the bucket.  So no collection run, however runs of all three      *)
(* kinds interleave, fail or crash between their calls, and whether or not *)
(* the GC lock keeps them apart, takes a blob from a snapshot that was     *)
(* complete before it started (gc_snapshot, prune_old_live_snapshots and   *)
(* gc_all_blobs, against create_snapshot's reuse of older blobs).          *)
VouchedManifestsComplete ==
  \A n \in Names : Vouched(n) => snapshots[n].refs \subseteq Stored

(* The hashes run b was the first to put in the bucket.                    *)
NewBlobs(b) == uploaded[b] \ before[b]

(* The grace period does what it is for.  gc-all, when no other collection *)
(* runs beside it and it deletes no blob twice, never selects a blob that  *)
(* was not in the bucket when a run that uploaded it began, while that run *)
(* is under way or the manifest it wrote is there.  (Its cutoff is fixed   *)
(* in remote_scan_and_delete, after the manifests were read, so the time   *)
(* that takes counts too.)                                                 *)
GraceProtectsNewBlobs ==
  \A g \in GcRuns \ crowded, b \in Backups :
    /\ Kind[g] = "all"
    /\ \/ Running(b)
       \/ NameOf[b] \in Present /\ snapshots[NameOf[b]].by = b
    => (batch[g] \cup doomed[g]) \cap NewBlobs(b) = {}

Orphan(h) ==
  h \in Stored /\ \A n \in Present : h \notin snapshots[n].refs

(* Whatever a crashed backup or an interrupted removal left behind, no     *)
(* blob stays in the bucket for ever without a manifest that references    *)
(* it: gc-all gets to it, unless a new manifest does (gc_all_blobs).       *)
OrphansCollected == \A h \in Hashes : Orphan(h) ~> ~Orphan(h)

(* gc.rs:3-5 says of every collection that it diffs the blobs against the  *)
(* manifests and deletes the remainder: no step deletes a blob that a      *)
(* manifest references.  Pruning does: where delete_manifest fails it      *)
(* warns and deletes the blobs of that manifest all the same.              *)
ReferencedBlobsKept ==
  [][\A h \in Stored \ Stored' :
       \A n \in Present' : h \notin snapshots'[n].refs]_vars

(* snapshots.rs:670-671 says that the grace period protects the blobs of a *)
(* run that is under way, since what it uploads is too young to delete.    *)
(* gc-all selects by the age a blob had when it was listed, and deletes a  *)
(* blob that was uploaded again in the meantime.                           *)
InFlightUploadsKept ==
  \A b \in Backups : Running(b) => uploaded[b] \subseteq Stored
=============================================================================
