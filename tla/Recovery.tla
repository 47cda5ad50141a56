------------------------------ MODULE Recovery ------------------------------
(***************************************************************************)
(* What a snapshot is for: the snapshots that are taken in the course of   *)
(* time, the collections that remove them (gc-live by age, rm-snapshot on  *)
(* demand) and restores, which take no lock and run beside all of these.   *)
(* A backup is one step here, with no collection beside it: BackupGc says  *)
(* what becomes of a backup otherwise.                                     *)
(***************************************************************************)
EXTENDS Retention, Restore

CONSTANTS
  Content,      \* Content[n]: the hashes of the parts of the snapshot n
  MaxBackup,    \* bound: a manifest is written at most so long after its stamp
  MaxFaults     \* bound: failed calls, cut archives, runs that stop

ASSUME ContentAssumption == Content \in [Names -> SUBSET Hashes]
ASSUME MaxBackupAssumption == MaxBackup \in Nat
ASSUME MaxFaultsAssumption == MaxFaults \in Nat

VARIABLES
  faults,       \* how many faults there have been
  condemned,    \* snapshots that pruning failed to delete, and those that
                \* rely on the blobs of one
  removed,      \* snapshots that rm-snapshot was run on
  spoiled,      \* a fault, or a cut archive, struck the present restore
  fresh,        \* the present restore found an empty output directory
  held          \* attached, when the present restore began

historyVars == <<faults, condemned, removed, spoiled, fresh, held>>

vars == <<now, bucketVars, gcVars, retentionVars, restoreVars, historyVars>>

Init ==
  /\ BucketInit
  /\ GcInit
  /\ RetentionInit
  /\ RestoreInit
  /\ faults = 0
  /\ condemned = {}
  /\ removed = {}
  /\ spoiled = FALSE
  /\ fresh = TRUE
  /\ held = attached

Taken == {n \in Names : stamp[n] # Absent}

Fault == faults < MaxFaults /\ faults' = faults + 1

(* The snapshot that the next backup of replica r takes its known hashes   *)
(* from: the last, by name, of those that begin with the replica's prefix. *)
IsLatest(r, n) ==
  /\ n \in Present /\ Replica[n] = r
  /\ \A m \in Present : Replica[m] = r => m <= n

KnownHashes(r) == UNION {snapshots[n].refs : n \in {n \in Present : IsLatest(r, n)}}

(* An automatic name holds the time t of its run, so that those of a       *)
(* replica sort by time (build_auto_name); a name that is given need not.  *)
InOrder(n, t) ==
  n \in LiveNames =>
    \A m \in Taken : Replica[m] = Replica[n] =>
      IF m < n THEN stamp[m] <= t ELSE t <= stamp[m]

(* A whole backup, whose run began at most MaxBackup ago.  What is not in  *)
(* its replica's latest manifest is uploaded, unless it is large and a     *)
(* HEAD request finds it; then the manifest is written, under an automatic *)
(* name or one that was given.  An archive may be cut without the upload   *)
(* noticing (PartUpload).                                                  *)
Take(n) ==
  /\ n \notin Taken
  /\ \A g \in GcRuns : ~Active(g)
  /\ \E b \in Backups : WriteManifest(n, [refs |-> Content[n], by |-> b])
  /\ \E t \in 0..now :
        /\ t >= now - MaxBackup /\ InOrder(n, t)
        /\ stamp' = [stamp EXCEPT ![n] = t]
  /\ \E r \in Replicas, found \in SUBSET Stored :
       LET uploaded == Content[n] \ (KnownHashes(r) \cup found)
       IN  /\ n \in LiveNames => Replica[n] = r
           /\ blobs' = [h \in Hashes |-> IF h \in uploaded THEN now ELSE blobs[h]]
           /\ \E e \in [uploaded -> Ending] :
                /\ ending' = [h \in Hashes |-> IF h \in uploaded THEN e[h] ELSE ending[h]]
                /\ IF \A h \in uploaded : e[h] = "whole" THEN UNCHANGED faults ELSE Fault
           /\ condemned' = IF \E m \in condemned : IsLatest(r, m)
                           THEN condemned \cup {n} ELSE condemned
  /\ UNCHANGED <<now, gcVars, asOf, rpc, target, attaching, wanted, outcome,
                 output, attached, restores, removed, spoiled, fresh, held>>

Collect(g) ==
  /\ RetentionStart(g)
  /\ removed' = removed \cup victims'[g]
  /\ UNCHANGED <<now, restoreVars, faults, condemned, spoiled, fresh, held>>

CollectStep(g) ==
  /\ RetentionStep(g)
  /\ UNCHANGED <<now, restoreVars, historyVars>>

RemoveManifest(g, n) ==
  /\ GcDeleteManifest(g, n)
  /\ UNCHANGED <<now, retentionVars, restoreVars, historyVars>>

SkipManifest(g, n) ==
  /\ GcSkipManifest(g, n)
  /\ condemned' = condemned \cup {n}
  /\ Fault
  /\ UNCHANGED <<now, retentionVars, restoreVars, removed, spoiled, fresh, held>>

CallFails(g, h) ==
  /\ GcScanError(g, h) \/ GcDeleteError(g, h) \/ GcDeleteUnanswered(g, h)
  /\ Fault
  /\ UNCHANGED <<now, retentionVars, restoreVars, condemned, removed, spoiled, fresh, held>>

Abort(g) ==
  /\ RetentionAbort(g)
  /\ Fault
  /\ UNCHANGED <<now, restoreVars, condemned, removed, spoiled, fresh, held>>

StartRestore(n) ==
  /\ n \in Taken
  /\ RestoreStart(n)
  /\ spoiled' = FALSE
  /\ fresh' = OutputEmpty
  /\ held' = attached
  /\ UNCHANGED <<now, gcVars, retentionVars, faults, condemned, removed>>

(* What a restore does when no call of its own fails.  A restore that      *)
(* meets a cut archive cannot do better than to fail.                      *)
RestoreStep ==
  /\ \/ RestoreRead \/ RestoreManifestGone \/ RestoreCollected \/ RestoreAttached
     \/ \E h \in Hashes : \/ RestoreGet(h)
                          \/ RestoreExtract(h)
                          \/ RestoreAttach(h, "ok")
  /\ UNCHANGED <<now, gcVars, retentionVars, historyVars>>

MeetsCut ==
  /\ \E h \in Hashes : outcome[h] = "cut" /\ RestoreExtractFails(h)
  /\ spoiled' = TRUE
  /\ UNCHANGED <<now, gcVars, retentionVars, faults, condemned, removed, fresh, held>>

RestoreFault ==
  /\ \/ RestoreCrash
     \/ \E h \in Hashes : \/ RestoreExtractFails(h)
                          \/ RestoreAttach(h, "error")
                          \/ RestoreAttachFails(h)
  /\ Fault
  /\ spoiled' = TRUE
  /\ UNCHANGED <<now, gcVars, retentionVars, condemned, removed, fresh, held>>

Tick ==
  /\ now < MaxTime
  /\ now' = now + 1
  /\ UNCHANGED <<bucketVars, gcVars, retentionVars, restoreVars, historyVars>>

GcNext(g) ==
  \/ Collect(g) \/ CollectStep(g) \/ Abort(g)
  \/ \E n \in Names : RemoveManifest(g, n) \/ SkipManifest(g, n)
  \/ \E h \in Hashes : CallFails(g, h)

RestoreNext ==
  RestoreStep \/ MeetsCut \/ RestoreFault \/ \E n \in Names : StartRestore(n)

Next ==
  \/ Tick
  \/ \E n \in Names : Take(n)
  \/ \E g \in GcRuns : GcNext(g)
  \/ RestoreNext

Spec == Init /\ [][Next]_vars

(* A restore that has begun goes on: every call is answered.               *)
FairSpec == Spec /\ WF_vars(RestoreStep \/ MeetsCut)

-----------------------------------------------------------------------------
(* Every variable holds a value of its type.                               *)
TypeOK ==
  /\ BucketTypeOK
  /\ GcTypeOK
  /\ RetentionTypeOK
  /\ RestoreTypeOK
  /\ faults \in 0..MaxFaults
  /\ condemned \subseteq Names
  /\ removed \subseteq Names
  /\ spoiled \in BOOLEAN
  /\ fresh \in BOOLEAN
  /\ held \in [Hashes -> 0..MaxRestores]

(* The snapshots taken that nobody asked to remove.                        *)
Entrusted == Taken \ removed

(* gc-live keeps every snapshot younger than retain_all, at the cutoff     *)
(* too, whenever it runs and however long it waits between reading the     *)
(* clock and pruning (compute_prune_set, prune_old_live_snapshots).        *)
RecentKept ==
  \A n \in Entrusted : stamp[n] >= now - RetainAll => n \in Present

(* With --retain-daily, a day of that period of which there was a snapshot *)
(* has one for as long as its newest is in the period, through prunings at *)
(* any times: what one pruning keeps of a day the next keeps too, unless   *)
(* there is a newer one by then (compute_prune_set).                       *)
DayKept ==
  RetainDaily # NoDaily =>
    \A n \in Taken :
      /\ stamp[n] >= now - RetainDaily
      /\ \A m \in Taken : SameDay(m, n) => m \notin removed /\ stamp[m] <= stamp[n]
      => \E m \in Present : SameDay(m, n) /\ stamp[m] = stamp[n]

(* That holds while gc-live runs by itself.  Whatever runs at once, since  *)
(* the lock cannot exclude it, a snapshot newer than all others of its day *)
(* stays until it is older than the daily period: each gc-live keeps the   *)
(* newest of what it has read, and removals only add to what is gone       *)
(* (compute_prune_set, prune_old_live_snapshots).                          *)
NewestKept ==
  RetainDaily # NoDaily =>
    \A n \in Entrusted :
      /\ stamp[n] >= now - RetainDaily
      /\ \A m \in Taken \ {n} : SameDay(m, n) => stamp[m] < stamp[n]
      => n \in Present

(* A restore fails for a reason: if none of its own calls failed and none  *)
(* of its archives was cut, then its snapshot was removed, or pruned, or   *)
(* pruning took its blobs and left it.  No collection makes the restore of *)
(* another snapshot fail, although blobs are shared, restores take no lock *)
(* and read the bucket in many steps (restore_snapshot, gc_snapshot,       *)
(* prune_old_live_snapshots).                                              *)
RestoreFailsForAReason ==
  rpc = "failed" /\ ~spoiled => target \notin Present \/ target \in condemned

(* A restore that succeeds into an empty directory leaves there every part *)
(* it chose, from an archive that was not cut, and nothing else; with      *)
(* --attach ClickHouse has taken them all (extract_zip, which compares     *)
(* blob_size with nothing, must meet the cut itself).                      *)
RestoredExactly ==
  rpc = "done" /\ fresh =>
    /\ \A h \in Hashes :
         IF h \in wanted /\ ~attaching THEN output[FALSE][h] = "whole"
                                      ELSE output[FALSE][h] = "none"
    /\ \A h \in Hashes : output[TRUE][h] = "none"
    /\ \A h \in Hashes :
         attached[h] = held[h] + (IF h \in wanted /\ attaching THEN 1 ELSE 0)

(* A restore attaches nothing unless all it chose has been extracted: once *)
(* it has attached a part, each of the others is attached or extracted in  *)
(* detached/.  So what makes a download fail, a collection beside it       *)
(* included, never leaves a table with a part of its parts                 *)
(* (restore_snapshot collects all downloads before it attaches).           *)
AttachedTogether ==
  (\E h \in wanted : attached[h] # held[h]) =>
    \A h \in wanted : attached[h] # held[h] \/ output[TRUE][h] = "whole"

(* A restore that has begun ends, although blobs go while it runs and      *)
(* downloads fail.                                                         *)
RestoreEnds == Restoring ~> ~Restoring
=============================================================================
