----------------------------- MODULE Gc_proofs -----------------------------
(***************************************************************************)
(* Lemmas about one collection run, whatever runs beside it: its types,    *)
(* and that it deletes no blob of a manifest that it has to keep.          *)
(***************************************************************************)
EXTENDS Gc, TLAPS

(* All that a run may do, failed calls included.                           *)
GcAny(g) ==
  \/ GcStart(g) \/ GcStep(g) \/ GcAbort(g)
  \/ \E n \in Names : GcDeleteManifest(g, n) \/ GcSkipManifest(g, n)
  \/ \E h \in Hashes : GcScanError(g, h) \/ GcDeleteError(g, h) \/ GcDeleteUnanswered(g, h)

(* All but that pruning fails to delete the manifest n.                    *)
GcKeeps(g, n) ==
  \/ GcStart(g) \/ GcStep(g) \/ GcAbort(g)
  \/ \E m \in Names : GcDeleteManifest(g, m) \/ (m # n /\ GcSkipManifest(g, m))
  \/ \E h \in Hashes : GcScanError(g, h) \/ GcDeleteError(g, h) \/ GcDeleteUnanswered(g, h)

LEMMA NothingReadType == NothingRead \in [Names -> (SUBSET Hashes) \cup {Absent}]
  BY DEF NothingRead

LEMMA GcInitType == GcInit => GcTypeOK
  BY NothingReadType, MaxTimeAssumption DEF GcInit, GcTypeOK, GcPc

LEMMA GcResetType ==
  ASSUME GcTypeOK, NEW g \in GcRuns, GcReset(g)
  PROVE  GcTypeOK' /\ UNCHANGED bucketVars
  BY NothingReadType, MaxTimeAssumption DEF GcTypeOK, GcReset, GcPc

LEMMA GcStepType ==
  ASSUME BucketTypeOK, GcTypeOK, NEW g \in GcRuns, GcStep(g), UNCHANGED now
  PROVE  BucketTypeOK' /\ GcTypeOK'
<1> USE MaxTimeAssumption, GraceAssumption
    DEF BucketTypeOK, GcTypeOK, Manifest, GcPc, Present, bucketVars
<1>r. CASE GcReset(g)
  BY <1>r, GcResetType
<1>1. CASE GcList(g) BY <1>1 DEF GcList
<1>2. CASE GcPlanScan(g) BY <1>2 DEF GcPlanScan
<1>3. CASE GcPlanRemoval(g)
  BY <1>3 DEF GcPlanRemoval, Exclusive, HashesIn
<1>4. ASSUME NEW n \in Names, GcReadTarget(g, n) PROVE GcTypeOK' /\ BucketTypeOK'
  BY <1>4 DEF GcReadTarget
<1>5. ASSUME NEW n \in Names, GcRead(g, n) PROVE GcTypeOK' /\ BucketTypeOK'
  BY <1>5 DEF GcRead
<1>6. CASE GcFlush(g) BY <1>6 DEF GcFlush
<1>7. ASSUME NEW h \in Hashes, GcScan(g, h) PROVE GcTypeOK' /\ BucketTypeOK'
  BY <1>7 DEF GcScan
<1>8. ASSUME NEW h \in Hashes, GcDeleteBlob(g, h) PROVE GcTypeOK' /\ BucketTypeOK'
  BY <1>8 DEF GcDeleteBlob, DeleteBlob
<1> QED
  BY <1>r, <1>1, <1>2, <1>3, <1>4, <1>5, <1>6, <1>7, <1>8
  DEF GcStep, GcNothingToPrune, GcManifestGone, GcFinish

LEMMA GcAnyType ==
  ASSUME BucketTypeOK, GcTypeOK, NEW g \in GcRuns, GcAny(g), UNCHANGED now
  PROVE  BucketTypeOK' /\ GcTypeOK'
<1>1. CASE GcStart(g)
  <2>1. gpc' \in [GcRuns -> GcPc]
    BY <1>1 DEF GcStart, GcTypeOK, GcPc
  <2>2. victims' \in [GcRuns -> SUBSET Names]
    BY <1>1 DEF GcStart, GcTypeOK
  <2> QED BY <1>1, <2>1, <2>2 DEF GcStart, BucketTypeOK, GcTypeOK, bucketVars
<1>2. CASE GcStep(g)
  BY <1>2, GcStepType
<1>3. CASE GcAbort(g)
  BY <1>3, GcResetType DEF GcAbort, BucketTypeOK, bucketVars
<1>4. ASSUME NEW n \in Names, GcDeleteManifest(g, n) PROVE BucketTypeOK' /\ GcTypeOK'
  BY <1>4 DEF GcDeleteManifest, DeleteManifest, BucketTypeOK, GcTypeOK
<1>5. ASSUME NEW n \in Names, GcSkipManifest(g, n) PROVE BucketTypeOK' /\ GcTypeOK'
  BY <1>5 DEF GcSkipManifest, BucketTypeOK, GcTypeOK, bucketVars
<1>6. ASSUME NEW h \in Hashes, GcScanError(g, h) PROVE BucketTypeOK' /\ GcTypeOK'
  BY <1>6 DEF GcScanError, BucketTypeOK, GcTypeOK, bucketVars
<1>7. ASSUME NEW h \in Hashes, GcDeleteError(g, h) PROVE BucketTypeOK' /\ GcTypeOK'
  BY <1>7 DEF GcDeleteError, BucketTypeOK, GcTypeOK, bucketVars
<1>8. ASSUME NEW h \in Hashes, GcDeleteUnanswered(g, h) PROVE BucketTypeOK' /\ GcTypeOK'
  BY <1>8 DEF GcDeleteUnanswered, DeleteBlob, BucketTypeOK, GcTypeOK, gcVars
<1> QED
  BY <1>1, <1>2, <1>3, <1>4, <1>5, <1>6, <1>7, <1>8 DEF GcAny

-----------------------------------------------------------------------------
(* The other collections' state, of which a step of g changes nothing.     *)
OthersKeep(g) ==
  \A f \in GcRuns \ {g} :
    /\ gpc'[f] = gpc[f] /\ victims'[f] = victims[f] /\ toRead'[f] = toRead[f]
    /\ view'[f] = view[f] /\ batch'[f] = batch[f] /\ doomed'[f] = doomed[f]

(* A collection has nothing to delete before it has planned, and a removal *)
(* reads the one manifest it is to remove first.                           *)
PlanSound(g) ==
  /\ gpc[g] = "idle" => victims[g] = {}
  /\ gpc[g] = "target" => \A m, n \in victims[g] : m = n
  /\ gpc[g] # "scan" => batch[g] = {}
  /\ gpc[g] \notin {"scan", "remove"} => doomed[g] = {}

(* For a manifest n that is to be kept: the collection has read, or has    *)
(* still to read, n as it is now; and once it has planned it has chosen    *)
(* none of its blobs, unless it is about to remove n.                      *)
ViewSound(g, n) ==
  /\ gpc[g] \in {"list", "read"} /\ n \in victims[g] => view[g][n] = snapshots[n].refs
  /\ gpc[g] = "read" /\ n \notin victims[g] /\ n \notin toRead[g] =>
       view[g][n] = snapshots[n].refs
  /\ gpc[g] = "scan" =>
       /\ view[g][n] = snapshots[n].refs
       /\ snapshots[n].refs \cap (batch[g] \cup doomed[g]) = {}
  /\ gpc[g] = "remove" /\ n \notin victims[g] => snapshots[n].refs \cap doomed[g] = {}

LEMMA OthersUntouched ==
  ASSUME GcTypeOK, NEW g \in GcRuns, GcAny(g)
  PROVE  OthersKeep(g)
<1> USE DEF GcTypeOK, OthersKeep
<1>r. CASE GcReset(g) BY <1>r DEF GcReset
<1>1. CASE GcStart(g) BY <1>1 DEF GcStart
<1>2. CASE GcList(g) \/ GcPlanScan(g) \/ GcPlanRemoval(g) \/ GcFlush(g)
  BY <1>2 DEF GcList, GcPlanScan, GcPlanRemoval, GcFlush
<1>3. ASSUME NEW n \in Names,
             GcReadTarget(g, n) \/ GcRead(g, n) \/ GcDeleteManifest(g, n) \/ GcSkipManifest(g, n)
      PROVE  OthersKeep(g)
  BY <1>3 DEF GcReadTarget, GcRead, GcDeleteManifest, GcSkipManifest
<1>4. ASSUME NEW h \in Hashes,
             \/ GcScan(g, h) \/ GcDeleteBlob(g, h)
             \/ GcScanError(g, h) \/ GcDeleteError(g, h) \/ GcDeleteUnanswered(g, h)
      PROVE  OthersKeep(g)
  BY <1>4 DEF GcScan, GcDeleteBlob, GcScanError, GcDeleteError, GcDeleteUnanswered, gcVars
<1> QED
  BY <1>r, <1>1, <1>2, <1>3, <1>4
  DEF GcAny, GcStep, GcAbort, GcNothingToPrune, GcManifestGone, GcFinish

LEMMA PlanKept ==
  ASSUME GcTypeOK, NEW g \in GcRuns, PlanSound(g), GcAny(g)
  PROVE  PlanSound(g)'
<1> USE DEF GcTypeOK, PlanSound
<1>r. CASE GcReset(g) BY <1>r DEF GcReset
<1>1. CASE GcStart(g) BY <1>1 DEF GcStart
<1>2. CASE GcList(g) \/ GcPlanScan(g) \/ GcPlanRemoval(g) \/ GcFlush(g)
  BY <1>2 DEF GcList, GcPlanScan, GcPlanRemoval, GcFlush
<1>3. ASSUME NEW n \in Names,
             GcReadTarget(g, n) \/ GcRead(g, n) \/ GcDeleteManifest(g, n) \/ GcSkipManifest(g, n)
      PROVE  PlanSound(g)'
  BY <1>3 DEF GcReadTarget, GcRead, GcDeleteManifest, GcSkipManifest
<1>4. ASSUME NEW h \in Hashes,
             \/ GcScan(g, h) \/ GcDeleteBlob(g, h)
             \/ GcScanError(g, h) \/ GcDeleteError(g, h) \/ GcDeleteUnanswered(g, h)
      PROVE  PlanSound(g)'
  BY <1>4 DEF GcScan, GcDeleteBlob, GcScanError, GcDeleteError, GcDeleteUnanswered, Deleting,
     gcVars
<1> QED
  BY <1>r, <1>1, <1>2, <1>3, <1>4
  DEF GcAny, GcStep, GcAbort, GcNothingToPrune, GcManifestGone, GcFinish

(* A collection that has read all manifests knows each that is to be kept. *)
LEMMA AllRead ==
  ASSUME BucketTypeOK, NEW g \in GcRuns, gpc[g] = "read", toRead[g] = {},
         NEW n \in Present, ViewSound(g, n)
  PROVE  /\ view[g][n] = snapshots[n].refs
         /\ n \in ReadNames(g)
         /\ snapshots[n].refs \subseteq Hashes
<1>1. snapshots[n] \in Manifest
  BY DEF BucketTypeOK, Present
<1>2. snapshots[n].refs \in SUBSET Hashes
  BY <1>1 DEF Manifest
<1>3. view[g][n] = snapshots[n].refs
  BY DEF ViewSound
<1> QED
  BY <1>2, <1>3, AbsentAssumption DEF ReadNames, Present

(* While n stays as it is, and pruning does not fail to delete it, the     *)
(* collection stays sound about n.                                         *)
LEMMA ViewKept ==
  ASSUME BucketTypeOK, GcTypeOK, NEW g \in GcRuns, PlanSound(g), NEW n \in Present,
         ViewSound(g, n), GcKeeps(g, n), snapshots'[n] = snapshots[n]
  PROVE  ViewSound(g, n)'
<1>t. snapshots[n] \in Manifest /\ snapshots[n].refs \in SUBSET Hashes /\ n \in Names
  BY DEF BucketTypeOK, Present, Manifest
<1> USE <1>t DEF GcTypeOK
<1>r. CASE GcReset(g) BY <1>r DEF GcReset, ViewSound
<1>s. CASE GcStart(g) BY <1>s DEF GcStart, ViewSound, PlanSound
<1>1. CASE GcList(g) BY <1>1 DEF GcList, ViewSound
<1>2. CASE GcPlanScan(g)
  BY <1>2, AllRead DEF GcPlanScan, ViewSound, PlanSound
<1>3. CASE GcPlanRemoval(g)
  <2>1. PICK V \in SUBSET Names :
           /\ victims' = [victims EXCEPT ![g] = V]
           /\ doomed' = [doomed EXCEPT ![g] = Exclusive(g, V)]
    BY <1>3 DEF GcPlanRemoval
  <2>2. n \notin V => snapshots[n].refs \cap Exclusive(g, V) = {}
    BY <1>3, AllRead, AbsentAssumption DEF GcPlanRemoval, Exclusive, HashesIn
  <2> QED
    BY <1>3, <2>1, <2>2 DEF GcPlanRemoval, ViewSound
<1>4. ASSUME NEW m \in Names, GcReadTarget(g, m) PROVE ViewSound(g, n)'
  <2>1. n \in victims[g] => n = m
    BY <1>4 DEF GcReadTarget, PlanSound
  <2> QED BY <1>4, <2>1 DEF GcReadTarget, ViewSound
<1>5. ASSUME NEW m \in Names, GcRead(g, m) PROVE ViewSound(g, n)'
  BY <1>5 DEF GcRead, ViewSound
<1>6. CASE GcFlush(g) BY <1>6 DEF GcFlush, ViewSound
<1>7. ASSUME NEW h \in Hashes, GcScan(g, h) PROVE ViewSound(g, n)'
  <2>1. view[g][n] = snapshots[n].refs /\ view[g][n] # Absent
    BY <1>7, AbsentAssumption DEF GcScan, ViewSound
  <2>2. Collectable(g, h) => h \notin snapshots[n].refs
    BY <2>1 DEF Collectable, Referenced, ReadNames, HashesIn
  <2> QED BY <1>7, <2>2 DEF GcScan, ViewSound
<1>8. ASSUME NEW h \in Hashes,
             \/ GcDeleteBlob(g, h) \/ GcScanError(g, h)
             \/ GcDeleteError(g, h) \/ GcDeleteUnanswered(g, h)
      PROVE  ViewSound(g, n)'
  BY <1>8 DEF GcDeleteBlob, GcScanError, GcDeleteError, GcDeleteUnanswered, ViewSound, gcVars
<1>9. ASSUME NEW m \in Names, GcDeleteManifest(g, m) PROVE ViewSound(g, n)'
  <2>1. m # n
    BY <1>9 DEF GcDeleteManifest, DeleteManifest, Present, BucketTypeOK
  <2> QED BY <1>9, <2>1 DEF GcDeleteManifest, ViewSound
<1>10. ASSUME NEW m \in Names, m # n, GcSkipManifest(g, m) PROVE ViewSound(g, n)'
  BY <1>10 DEF GcSkipManifest, ViewSound
<1> QED
  BY <1>r, <1>s, <1>1, <1>2, <1>3, <1>4, <1>5, <1>6, <1>7, <1>8, <1>9, <1>10
  DEF GcKeeps, GcStep, GcAbort, GcNothingToPrune, GcManifestGone, GcFinish

(* The blobs of a manifest that is to be kept stay.                        *)
LEMMA BlobsKept ==
  ASSUME BucketTypeOK, GcTypeOK, NEW g \in GcRuns, NEW n \in Present, ViewSound(g, n), GcAny(g),
         snapshots[n].refs \subseteq Stored
  PROVE  snapshots[n].refs \subseteq Stored'
<1>1. ASSUME NEW h \in Hashes, GcDeleteBlob(g, h) \/ GcDeleteUnanswered(g, h)
      PROVE  snapshots[n].refs \subseteq Stored'
  <2>1. Stored' = Stored \ {h}
    BY <1>1 DEF GcDeleteBlob, GcDeleteUnanswered, DeleteBlob, Stored, BucketTypeOK
  <2>2. h \notin snapshots[n].refs
    BY <1>1 DEF GcDeleteBlob, GcDeleteUnanswered, Deleting, ViewSound
  <2> QED BY <2>1, <2>2
<1>2. CASE UNCHANGED blobs
  BY <1>2 DEF Stored
<1>3. UNCHANGED blobs \/ \E h \in Hashes : GcDeleteBlob(g, h) \/ GcDeleteUnanswered(g, h)
  BY DEF GcAny, GcStart, GcStep, GcAbort, GcReset, GcNothingToPrune, GcManifestGone, GcFinish,
     GcList, GcPlanScan, GcPlanRemoval, GcFlush, GcReadTarget, GcRead, GcScan, GcScanError,
     GcDeleteError, GcDeleteManifest, GcSkipManifest, bucketVars
<1> QED
  BY <1>1, <1>2, <1>3
=============================================================================
