--------------------------------- MODULE Gc ---------------------------------
(***************************************************************************)
(* A garbage-collection run (gc.rs) as the bucket sees it: gc-all, a       *)
(* snapshot removal or the pruning of old live snapshots.  Each reads      *)
(* manifests, decides what to delete and deletes it, one S3 call a step.   *)
(* A step is taken while the run believes it holds gc/.lock.  GcLock.tla   *)
(* models that lock and shows that two runs can believe so at once, so     *)
(* GcStart does not wait for the other runs: what is established here      *)
(* holds whatever the lock does.  Losing the lock is GcAbort.              *)
(***************************************************************************)
EXTENDS Bucket

CONSTANTS
  GcRuns,       \* processes that run the collector, again and again
  Kind,         \* Kind[g] \in {"all", "rm", "prune"}
  Grace,        \* gc-all's grace period
  BatchSize,    \* batch_size: orphans deleted with one call
  MaxPlan       \* timing assumption: manifests are read within this time

ASSUME KindAssumption == Kind \in [GcRuns -> {"all", "rm", "prune"}]
ASSUME GraceAssumption == Grace \in Nat
ASSUME MaxPlanAssumption == MaxPlan \in Nat

VARIABLES
  gpc,          \* gpc[g]: where run g is
  victims,      \* snapshots to remove: the target, or to_prune
  toRead,       \* manifests listed and not yet read
  view,         \* view[g][n]: blob hashes of the manifest n as read, or Absent
  listedAt,     \* time of the listing of manifests
  cutoff,       \* gc-all: blobs modified later than this are too young
  toScan,       \* gc-all: hashes the listing of the shards has not reached
  batch,        \* gc-all: orphans listed and not yet handed to a delete
  doomed        \* hashes being deleted

gcVars == <<gpc, victims, toRead, view, listedAt, cutoff, toScan, batch, doomed>>

GcPc == {"idle", "target", "list", "read", "scan", "remove"}

GcTypeOK ==
  /\ gpc \in [GcRuns -> GcPc]
  /\ victims \in [GcRuns -> SUBSET Names]
  /\ toRead \in [GcRuns -> SUBSET Names]
  /\ view \in [GcRuns -> [Names -> (SUBSET Hashes) \cup {Absent}]]
  /\ listedAt \in [GcRuns -> 0..MaxTime]
  /\ cutoff \in [GcRuns -> Int]
  /\ toScan \in [GcRuns -> SUBSET Hashes]
  /\ batch \in [GcRuns -> SUBSET Hashes]
  /\ doomed \in [GcRuns -> SUBSET Hashes]

NothingRead == [n \in Names |-> Absent]

GcInit ==
  /\ gpc = [g \in GcRuns |-> "idle"]
  /\ victims = [g \in GcRuns |-> {}]
  /\ toRead = [g \in GcRuns |-> {}]
  /\ view = [g \in GcRuns |-> NothingRead]
  /\ listedAt = [g \in GcRuns |-> 0]
  /\ cutoff = [g \in GcRuns |-> 0]
  /\ toScan = [g \in GcRuns |-> {}]
  /\ batch = [g \in GcRuns |-> {}]
  /\ doomed = [g \in GcRuns |-> {}]

Active(g) == gpc[g] # "idle"

ReadNames(g) == {n \in Names : view[g][n] # Absent}

(* The union of the blob hashes of the manifests in S, as g read them.     *)
HashesIn(g, S) == {h \in Hashes : \E n \in S : view[g][n] # Absent /\ h \in view[g][n]}

Referenced(g) == HashesIn(g, ReadNames(g))

(* Mutant of Exclusive: what other manifests reference is not kept.        *)
AllOf(g, V) == HashesIn(g, V)

(* target_hashes.difference(&other_hashes)                                 *)
Exclusive(g, V) == HashesIn(g, V) \ HashesIn(g, ReadNames(g) \ V)

(* The run is over and what it knew is forgotten with it.                  *)
GcReset(g) ==
  /\ gpc' = [gpc EXCEPT ![g] = "idle"]
  /\ victims' = [victims EXCEPT ![g] = {}]
  /\ toRead' = [toRead EXCEPT ![g] = {}]
  /\ view' = [view EXCEPT ![g] = NothingRead]
  /\ listedAt' = [listedAt EXCEPT ![g] = 0]
  /\ cutoff' = [cutoff EXCEPT ![g] = 0]
  /\ toScan' = [toScan EXCEPT ![g] = {}]
  /\ batch' = [batch EXCEPT ![g] = {}]
  /\ doomed' = [doomed EXCEPT ![g] = {}]
  /\ UNCHANGED bucketVars

(* The lock is acquired and the closure begins.                            *)
GcStart(g) ==
  /\ gpc[g] = "idle"
  /\ \/ /\ Kind[g] = "rm"
        /\ \E n \in Names : victims' = [victims EXCEPT ![g] = {n}]
        /\ gpc' = [gpc EXCEPT ![g] = "target"]
     \/ /\ Kind[g] # "rm"
        /\ gpc' = [gpc EXCEPT ![g] = "list"]
        /\ UNCHANGED victims
  /\ UNCHANGED <<bucketVars, toRead, view, listedAt, cutoff, toScan, batch, doomed>>

(* gc_snapshot reads the manifest it removes before it lists the others.   *)
GcReadTarget(g, n) ==
  /\ gpc[g] = "target"
  /\ n \in victims[g] \cap Present
  /\ view' = [view EXCEPT ![g][n] = snapshots[n].refs]
  /\ gpc' = [gpc EXCEPT ![g] = "list"]
  /\ UNCHANGED <<bucketVars, victims, toRead, listedAt, cutoff, toScan, batch, doomed>>

(* list_manifest_names                                                     *)
GcList(g) ==
  /\ gpc[g] = "list"
  /\ toRead' = [toRead EXCEPT ![g] = Present \ victims[g]]
  /\ listedAt' = [listedAt EXCEPT ![g] = now]
  /\ gpc' = [gpc EXCEPT ![g] = "read"]
  /\ UNCHANGED <<bucketVars, victims, view, cutoff, toScan, batch, doomed>>

(* One of the concurrent read_manifest calls.  A manifest that has gone    *)
(* since the listing makes the read, and the run, fail (GcAbort).          *)
GcRead(g, n) ==
  /\ gpc[g] = "read"
  /\ n \in toRead[g] \cap Present
  /\ view' = [view EXCEPT ![g][n] = snapshots[n].refs]
  /\ toRead' = [toRead EXCEPT ![g] = @ \ {n}]
  /\ UNCHANGED <<bucketVars, gpc, victims, listedAt, cutoff, toScan, batch, doomed>>

(* gc-all has read every manifest: it fixes the cutoff and starts to list  *)
(* the shards.                                                             *)
GcPlanScan(g) ==
  /\ gpc[g] = "read"
  /\ Kind[g] = "all"
  /\ toRead[g] = {}
  /\ cutoff' = [cutoff EXCEPT ![g] = now - Grace]
  /\ toScan' = [toScan EXCEPT ![g] = Hashes]
  /\ gpc' = [gpc EXCEPT ![g] = "scan"]
  /\ UNCHANGED <<bucketVars, victims, toRead, view, listedAt, batch, doomed>>

(* rm and prune have read every manifest: the victims' exclusive hashes    *)
(* are fixed before anything is deleted.  Which live snapshots are old is  *)
(* compute_prune_set's matter; here any of them may be.                    *)
GcPlanRemoval(g) ==
  /\ gpc[g] = "read"
  /\ Kind[g] # "all"
  /\ toRead[g] = {}
  /\ \E V \in SUBSET Names :
        /\ IF Kind[g] = "rm"
           THEN V = victims[g]
           ELSE V # {} /\ V \subseteq ReadNames(g) \cap LiveNames
        /\ victims' = [victims EXCEPT ![g] = V]
        /\ doomed' = [doomed EXCEPT ![g] = Exclusive(g, V)]
  /\ gpc' = [gpc EXCEPT ![g] = "remove"]
  /\ UNCHANGED <<bucketVars, toRead, view, listedAt, cutoff, toScan, batch>>

(* No live snapshot is old enough: pruning returns.                        *)
GcNothingToPrune(g) ==
  /\ gpc[g] = "read"
  /\ Kind[g] = "prune"
  /\ toRead[g] = {}
  /\ GcReset(g)

(* A read finds a manifest gone that was listed: the run fails.            *)
GcManifestGone(g) ==
  /\ \/ gpc[g] = "target" /\ ~(victims[g] \subseteq Present)
     \/ gpc[g] = "read" /\ ~(toRead[g] \subseteq Present)
  /\ GcReset(g)

(* delete_manifest of one victim.                                          *)
GcDeleteManifest(g, n) ==
  /\ gpc[g] = "remove"
  /\ n \in victims[g]
  /\ DeleteManifest(n)
  /\ victims' = [victims EXCEPT ![g] = @ \ {n}]
  /\ UNCHANGED <<blobs, gpc, toRead, view, listedAt, cutoff, toScan, batch, doomed>>

(* delete_manifest fails while pruning: a warning, and the loop goes on.   *)
(* (In gc_snapshot the error ends the run: GcAbort.)                       *)
GcSkipManifest(g, n) ==
  /\ gpc[g] = "remove"
  /\ Kind[g] = "prune"
  /\ n \in victims[g]
  /\ victims' = [victims EXCEPT ![g] = @ \ {n}]
  /\ UNCHANGED <<bucketVars, gpc, toRead, view, listedAt, cutoff, toScan, batch, doomed>>

(* Mutant of Collectable: without the grace period.                        *)
CollectableAtOnce(g, h) == h \in Stored /\ h \notin Referenced(g)

(* The filter on one listed blob: old enough and in no manifest read.      *)
Collectable(g, h) == h \in Stored /\ blobs[h] <= cutoff[g] /\ h \notin Referenced(g)

(* The listing reaches blob h: its LastModified is that of this moment.    *)
GcScan(g, h) ==
  /\ gpc[g] = "scan"
  /\ h \in toScan[g]
  /\ toScan' = [toScan EXCEPT ![g] = @ \ {h}]
  /\ batch' = [batch EXCEPT ![g] = IF Collectable(g, h) THEN @ \cup {h} ELSE @]
  /\ UNCHANGED <<bucketVars, gpc, victims, toRead, view, listedAt, cutoff, doomed>>

(* The listing of a shard fails: a warning, its blobs are passed over.     *)
GcScanError(g, h) ==
  /\ gpc[g] = "scan"
  /\ h \in toScan[g]
  /\ toScan' = [toScan EXCEPT ![g] = @ \ {h}]
  /\ UNCHANGED <<bucketVars, gpc, victims, toRead, view, listedAt, cutoff, batch, doomed>>

(* A full batch, or the last one, goes to delete_objects_bulk.  The        *)
(* listing reads ahead, so GcScan may go on while a batch is deleted.      *)
GcFlush(g) ==
  /\ gpc[g] = "scan"
  /\ doomed[g] = {}
  /\ batch[g] # {}
  /\ Cardinality(batch[g]) >= BatchSize \/ toScan[g] = {}
  /\ doomed' = [doomed EXCEPT ![g] = batch[g]]
  /\ batch' = [batch EXCEPT ![g] = {}]
  /\ UNCHANGED <<bucketVars, gpc, victims, toRead, view, listedAt, cutoff, toScan>>

(* Blobs may be deleted: once every victim has had its delete, or as       *)
(* gc-all's scan goes on.                                                  *)
Deleting(g) == gpc[g] = "scan" \/ (gpc[g] = "remove" /\ victims[g] = {})

(* One key of a bulk delete: deleted, or counted as an error and left.     *)
GcDeleteBlob(g, h) ==
  /\ Deleting(g)
  /\ h \in doomed[g]
  /\ DeleteBlob(h)
  /\ doomed' = [doomed EXCEPT ![g] = @ \ {h}]
  /\ UNCHANGED <<snapshots, gpc, victims, toRead, view, listedAt, cutoff, toScan, batch>>

GcDeleteError(g, h) ==
  /\ Deleting(g)
  /\ h \in doomed[g]
  /\ doomed' = [doomed EXCEPT ![g] = @ \ {h}]
  /\ UNCHANGED <<bucketVars, gpc, victims, toRead, view, listedAt, cutoff, toScan, batch>>

(* Deleted, but the answer is lost: the call is made again (BulkDelete).   *)
GcDeleteUnanswered(g, h) ==
  /\ Deleting(g)
  /\ h \in doomed[g]
  /\ DeleteBlob(h)
  /\ UNCHANGED <<snapshots, gcVars>>

(* Mutant of GcFinish: the last, partial batch is not flushed.             *)
GcFinishEarly(g) ==
  /\ Deleting(g)
  /\ toScan[g] \cup doomed[g] = {}
  /\ GcReset(g)

(* Every blob listed or planned has been handled.                          *)
GcFinish(g) ==
  /\ Deleting(g)
  /\ toScan[g] \cup batch[g] \cup doomed[g] = {}
  /\ GcReset(g)

(* The lock is lost, a call fails, a dry run stops, or the process dies.   *)
(* What has been sent may still take effect (BulkDelete's late): the run   *)
(* counts as active until then.                                            *)
GcAbort(g) == Active(g) /\ GcReset(g)

GcStep(g) ==
  \/ GcList(g) \/ GcPlanScan(g) \/ GcPlanRemoval(g) \/ GcNothingToPrune(g)
  \/ \E n \in Names : GcReadTarget(g, n) \/ GcRead(g, n)
  \/ GcManifestGone(g) \/ GcFlush(g) \/ GcFinish(g)
  \/ \E h \in Hashes : GcScan(g, h) \/ GcDeleteBlob(g, h)
=============================================================================
