-------------------------- MODULE BackupGc_proofs --------------------------
(***************************************************************************)
(* Proofs about BackupGc for any number of backups, collections, blobs and *)
(* manifests, any grace period and any moment at which a call fails: the   *)
(* types, and that no collection takes a blob from a manifest that is      *)
(* vouched for.                                                            *)
(***************************************************************************)
EXTENDS BackupGc, Gc_proofs

LEMMA TypeInit == Init => TypeOK
<1> SUFFICES ASSUME Init PROVE TypeOK
  OBVIOUS
<1> USE MaxTimeAssumption, MaxFaultsAssumption DEF Init
<1>1. BucketTypeOK
  BY DEF BucketInit, BucketTypeOK
<1>2. BackupTypeOK
  BY DEF BackupInit, BackupTypeOK, BackupPc
<1>3. GcTypeOK
  BY GcInitType
<1> QED
  BY <1>1, <1>2, <1>3 DEF TypeOK

(* The parts of the state that a step leaves alone keep their types.       *)
LEMMA TypeFrame ==
  ASSUME TypeOK
  PROVE  /\ UNCHANGED <<now, bucketVars>> => BucketTypeOK'
         /\ UNCHANGED backupVars /\ UNCHANGED now => BackupTypeOK'
         /\ UNCHANGED gcVars => GcTypeOK'
  BY DEF TypeOK, BucketTypeOK, BackupTypeOK, GcTypeOK, bucketVars, backupVars, gcVars

LEMMA BackupEndType ==
  ASSUME TypeOK, NEW b \in Backups, NEW outcome \in {"done", "failed"},
         BackupEnd(b, outcome)
  PROVE  BackupTypeOK'
  BY DEF TypeOK, BackupTypeOK, BackupEnd, BackupPc

(* The steps of a backup.                                                  *)
LEMMA BackupType ==
  ASSUME TypeOK, NEW b \in Backups, BackupNext(b)
  PROVE  TypeOK'
<1> USE MaxTimeAssumption, NameOfAssumption, PartListsAssumption
    DEF TypeOK, BucketTypeOK, BackupTypeOK, Manifest, BackupPc, Present, bucketVars,
        historyVars, Fault
<1>f. CASE BackupFail(b) /\ UNCHANGED <<now, gcVars>> /\ faults' \in 0..MaxFaults
             /\ UNCHANGED <<disturbed, condemned, crowded, before>>
  <2>1. BackupTypeOK'
    BY <1>f, BackupEndType DEF BackupFail
  <2> QED BY <1>f, <2>1 DEF BackupFail, BackupEnd, gcVars, GcTypeOK
<1>w. ASSUME NEW outcome \in {"done", "failed"}, BackupWrite(b, outcome),
             UNCHANGED <<now, gcVars, disturbed, condemned, crowded, before>>,
             faults' \in 0..MaxFaults
      PROVE TypeOK'
  <2>1. BackupTypeOK'
    BY <1>w, BackupEndType DEF BackupWrite
  <2> QED BY <1>w, <2>1 DEF BackupWrite, BackupEnd, WriteManifest, gcVars, GcTypeOK
<1>1. CASE Start(b)
  <2>1. BackupTypeOK'
    BY <1>1 DEF Start, BackupStart, OwnManifests
  <2> QED BY <1>1, <2>1 DEF Start, BackupStart, gcVars, GcTypeOK, Stored
<1>2. CASE ReadBase(b)
  <2>1. BackupTypeOK'
    BY <1>2 DEF ReadBase, BackupReadBase
  <2> QED BY <1>2, <2>1 DEF ReadBase, BackupReadBase, gcVars, GcTypeOK
<1>3. ASSUME NEW h \in Hashes, Head(b, h) PROVE TypeOK'
  <2>1. BackupTypeOK'
    BY <1>3 DEF Head, BackupHead
  <2> QED BY <1>3, <2>1, TypeFrame DEF Head, BackupHead
<1>4. CASE Staged(b)
  BY <1>4 DEF Staged, BackupStaged, gcVars, GcTypeOK
<1>5. ASSUME NEW h \in Hashes, Upload(b, h) PROVE TypeOK'
  BY <1>5 DEF Upload, BackupUpload, PutBlob, gcVars, GcTypeOK
<1>6. CASE Write(b) BY <1>6, <1>w DEF Write
<1>7. CASE WriteUnacknowledged(b)
  BY <1>7, <1>w, MaxFaultsAssumption DEF WriteUnacknowledged
<1>8. CASE NameTaken(b) BY <1>8, <1>f DEF NameTaken
<1>9. CASE BaseGone(b) BY <1>9, <1>f DEF BaseGone
<1>10. CASE Crash(b) BY <1>10, <1>f, MaxFaultsAssumption DEF Crash
<1> QED
  BY <1>1, <1>2, <1>3, <1>4, <1>5, <1>6, <1>7, <1>8, <1>9, <1>10 DEF BackupNext

(* What a step of a collection is to Gc, to the backups and to history.    *)
LEMMA GcNextIsAny ==
  ASSUME NEW g \in GcRuns, GcNext(g)
  PROVE  GcAny(g) /\ UNCHANGED <<now, backupVars, before>>
  BY DEF GcNext, Collect, CollectStep, Abort, RemoveManifest, SkipManifest, CallFails,
     DeleteUnanswered, GcAny, historyVars

LEMMA GcType ==
  ASSUME TypeOK, NEW g \in GcRuns, GcNext(g)
  PROVE  TypeOK'
<1>1. BucketTypeOK' /\ GcTypeOK' /\ BackupTypeOK'
  BY GcNextIsAny, GcAnyType DEF TypeOK, BackupTypeOK, backupVars
<1>2. before' = before
  BY GcNextIsAny
<1>3. /\ faults' \in 0..MaxFaults
      /\ disturbed' \subseteq Backups
      /\ condemned' \subseteq Names
      /\ crowded' \subseteq GcRuns
  BY MaxFaultsAssumption
  DEF TypeOK, GcNext, Collect, CollectStep, Abort, RemoveManifest, SkipManifest, CallFails,
      DeleteUnanswered, historyVars, Fault
<1> QED
  BY <1>1, <1>2, <1>3 DEF TypeOK

LEMMA TypeStep == TypeOK /\ [Next]_vars => TypeOK'
<1> SUFFICES ASSUME TypeOK, [Next]_vars PROVE TypeOK'
  OBVIOUS
<1> USE DEF TypeOK, BucketTypeOK, BackupTypeOK, GcTypeOK, bucketVars, backupVars, gcVars,
        historyVars
<1>1. CASE Tick BY <1>1, MaxTimeAssumption DEF Tick
<1>2. CASE UNCHANGED vars BY <1>2 DEF vars
<1> QED
  BY <1>1, <1>2, BackupType, GcType DEF Next

(* Every variable of the composed system keeps its type.                   *)
THEOREM TypeCorrect == Spec => []TypeOK
  BY TypeInit, TypeStep, PTL DEF Spec

-----------------------------------------------------------------------------
(* A backup that no collection has disturbed: none is active, and all that *)
(* it counts on is in the bucket.                                          *)
RunsSound ==
  \A b \in Backups :
    /\ bpc[b] = "idle" => known[b] \cup found[b] \cup uploaded[b] = {}
    /\ Running(b) /\ b \notin disturbed =>
         /\ ~CollectionRunning
         /\ known[b] \cup found[b] \cup uploaded[b] \subseteq Stored

(* What Gc_proofs says of one collection holds of every collection, and    *)
(* for every manifest that is vouched for.                                 *)
PlansSound == \A g \in GcRuns : PlanSound(g)
ViewsSound == \A g \in GcRuns, n \in Names : Vouched(n) => ViewSound(g, n)

RetentionInv == VouchedManifestsComplete /\ RunsSound /\ PlansSound /\ ViewsSound

LEMMA RetentionInit == Init => RetentionInv
  BY DEF Init, BucketInit, BackupInit, GcInit, RetentionInv, VouchedManifestsComplete,
     RunsSound, PlansSound, PlanSound, ViewsSound, Vouched, Present, Running

(* A step of a backup that leaves the bucket alone, and may only come to   *)
(* vouch for less, concerns the backups alone.                             *)
LEMMA BucketFrame ==
  ASSUME RetentionInv, UNCHANGED <<bucketVars, gcVars, condemned>>, disturbed \subseteq disturbed'
  PROVE  VouchedManifestsComplete' /\ PlansSound' /\ ViewsSound'
<1>1. \A n \in Names : Vouched(n)' => Vouched(n)
  BY DEF Vouched, Present, bucketVars
<1>2. VouchedManifestsComplete'
  BY <1>1 DEF RetentionInv, VouchedManifestsComplete, Stored, bucketVars
<1>3. PlansSound'
  BY DEF RetentionInv, PlansSound, PlanSound, gcVars
<1>4. ViewsSound'
  BY <1>1 DEF RetentionInv, ViewsSound, ViewSound, gcVars, bucketVars
<1> QED
  BY <1>2, <1>3, <1>4

(* A run that ends is no longer under way.                                 *)
LEMMA EndSound ==
  ASSUME TypeOK, RunsSound, NEW b \in Backups, NEW outcome \in {"done", "failed"},
         BackupEnd(b, outcome), UNCHANGED <<gcVars, disturbed>>
  PROVE  RunsSound'
  BY DEF RunsSound, BackupEnd, Running, CollectionRunning, Active, Stored, gcVars, TypeOK,
     BackupTypeOK

LEMMA BackupRetains ==
  ASSUME TypeOK, RetentionInv, NEW b \in Backups, BackupNext(b)
  PROVE  RetentionInv'
<1>t. /\ bpc \in [Backups -> BackupPc]
      /\ known \in [Backups -> SUBSET Hashes]
      /\ found \in [Backups -> SUBSET Hashes]
      /\ uploaded \in [Backups -> SUBSET Hashes]
      /\ blobs \in [Hashes -> Nat \cup {Absent}]
      /\ snapshots \in [Names -> Manifest \cup {Absent}]
      /\ now \in Nat
  BY MaxTimeAssumption DEF TypeOK, BucketTypeOK, BackupTypeOK
<1> USE <1>t DEF historyVars
<1>f. CASE BackupFail(b) /\ UNCHANGED <<now, gcVars, disturbed, condemned>>
  <2>1. RunsSound'
    BY <1>f, EndSound DEF BackupFail, RetentionInv
  <2> QED BY <1>f, <2>1, BucketFrame DEF BackupFail, BackupEnd, RetentionInv, bucketVars
<1>w. ASSUME NEW outcome \in {"done", "failed"}, BackupWrite(b, outcome),
             UNCHANGED <<now, gcVars, disturbed, condemned>>
      PROVE RetentionInv'
  <2>1. /\ snapshots' = [snapshots EXCEPT ![NameOf[b]] = [refs |-> parts[b], by |-> b]]
        /\ UNCHANGED blobs
    BY <1>w DEF BackupWrite, WriteManifest, BackupEnd
  <2>2. \A n \in Names \ {NameOf[b]} :
           /\ snapshots'[n] = snapshots[n]
           /\ Vouched(n)' => Vouched(n)
    BY <1>w, <2>1 DEF Vouched, Present
  <2>3. ASSUME Vouched(NameOf[b])'
        PROVE ~CollectionRunning /\ snapshots'[NameOf[b]].refs \subseteq Stored
    <3>1. snapshots'[NameOf[b]] = [refs |-> parts[b], by |-> b]
      BY <2>1, NameOfAssumption
    <3>2. Running(b) /\ b \notin disturbed
      BY <1>w, <2>3, <3>1 DEF Vouched, BackupWrite, Running
    <3>3. parts[b] \subseteq known[b] \cup found[b] \cup uploaded[b]
      BY <1>w DEF BackupWrite, NeedUpload
    <3> QED BY <3>1, <3>2, <3>3 DEF RetentionInv, RunsSound
  <2>4. VouchedManifestsComplete'
    BY <2>1, <2>2, <2>3 DEF RetentionInv, VouchedManifestsComplete, Stored
  <2>5. RunsSound'
    BY <1>w, EndSound DEF BackupWrite, RetentionInv
  <2>6. PlansSound'
    BY <1>w DEF RetentionInv, PlansSound, PlanSound, gcVars
  <2>7. ASSUME NEW g \in GcRuns, NEW n \in Names, Vouched(n)' PROVE ViewSound(g, n)'
    <3>1. CASE n = NameOf[b]
      BY <1>w, <2>3, <2>7, <3>1 DEF CollectionRunning, Active, ViewSound, gcVars
    <3>2. CASE n # NameOf[b]
      BY <1>w, <2>2, <2>7, <3>2 DEF RetentionInv, ViewsSound, ViewSound, gcVars
    <3> QED BY <3>1, <3>2
  <2> QED BY <2>4, <2>5, <2>6, <2>7 DEF RetentionInv, ViewsSound
<1>1. CASE Start(b)
  <2>1. RunsSound'
    BY <1>1 DEF Start, BackupStart, RetentionInv, RunsSound, Running, CollectionRunning,
       Active, Stored, gcVars, bucketVars
  <2> QED BY <1>1, <2>1, BucketFrame DEF Start, BackupStart, RetentionInv
<1>2. CASE ReadBase(b)
  <2>1. b \notin disturbed' => snapshots[base[b]].refs \subseteq Stored
    BY <1>2 DEF ReadBase, BackupReadBase, RetentionInv, VouchedManifestsComplete, Present
  <2>2. RunsSound'
    BY <1>2, <2>1 DEF ReadBase, BackupReadBase, RetentionInv, RunsSound, Running,
       CollectionRunning, Active, Stored, gcVars, bucketVars
  <2> QED BY <1>2, <2>2, BucketFrame DEF ReadBase, BackupReadBase, RetentionInv
<1>3. ASSUME NEW h \in Hashes, Head(b, h) PROVE RetentionInv'
  <2>1. RunsSound'
    BY <1>3 DEF Head, BackupHead, RetentionInv, RunsSound, Running, CollectionRunning,
       Active, Stored, gcVars, bucketVars
  <2> QED BY <1>3, <2>1, BucketFrame DEF Head, BackupHead, RetentionInv
<1>4. CASE Staged(b)
  <2>1. RunsSound'
    BY <1>4 DEF Staged, BackupStaged, RetentionInv, RunsSound, Running, CollectionRunning,
       Active, Stored, gcVars, bucketVars
  <2> QED BY <1>4, <2>1, BucketFrame DEF Staged, BackupStaged, RetentionInv
<1>5. ASSUME NEW h \in Hashes, Upload(b, h) PROVE RetentionInv'
  <2>1. Stored' = Stored \cup {h}
    BY <1>5, AbsentAssumption DEF Upload, BackupUpload, PutBlob, Stored
  <2>2. RunsSound'
    BY <1>5, <2>1 DEF Upload, BackupUpload, RetentionInv, RunsSound, Running,
       CollectionRunning, Active, gcVars
  <2>3. VouchedManifestsComplete' /\ ViewsSound'
    BY <1>5, <2>1 DEF Upload, BackupUpload, RetentionInv, VouchedManifestsComplete,
       ViewsSound, ViewSound, Vouched, Present, gcVars
  <2>4. PlansSound'
    BY <1>5 DEF Upload, RetentionInv, PlansSound, PlanSound, gcVars
  <2> QED BY <2>2, <2>3, <2>4 DEF RetentionInv
<1>6. CASE Write(b) BY <1>6, <1>w DEF Write
<1>7. CASE WriteUnacknowledged(b) BY <1>7, <1>w DEF WriteUnacknowledged
<1>8. CASE NameTaken(b) BY <1>8, <1>f DEF NameTaken
<1>9. CASE BaseGone(b) BY <1>9, <1>f DEF BaseGone
<1>10. CASE Crash(b) BY <1>10, <1>f DEF Crash
<1> QED
  BY <1>1, <1>2, <1>3, <1>4, <1>5, <1>6, <1>7, <1>8, <1>9, <1>10 DEF BackupNext

(* A step of a collection keeps what is vouched for, unless it deletes the *)
(* manifest or fails to.                                                   *)
LEMMA StillVouched ==
  ASSUME TypeOK, NEW g \in GcRuns, GcNext(g), NEW n \in Names, Vouched(n)'
  PROVE  Vouched(n) /\ snapshots'[n] = snapshots[n] /\ GcKeeps(g, n)
<1> USE DEF GcKeeps, Vouched, Present
<1>1. ASSUME NEW m \in Names, RemoveManifest(g, m)
      PROVE  Vouched(n) /\ snapshots'[n] = snapshots[n] /\ GcKeeps(g, n)
  BY <1>1 DEF RemoveManifest, GcDeleteManifest, DeleteManifest, TypeOK, BucketTypeOK
<1>2. ASSUME NEW m \in Names, SkipManifest(g, m)
      PROVE  Vouched(n) /\ snapshots'[n] = snapshots[n] /\ GcKeeps(g, n)
  BY <1>2 DEF SkipManifest, GcSkipManifest, bucketVars
<1>3. CASE Collect(g) \/ CollectStep(g) \/ Abort(g)
  <2>1. UNCHANGED snapshots
    BY <1>3 DEF Collect, GcStart, CollectStep, Abort, GcStep, GcAbort, GcReset, GcList,
       GcPlanScan, GcPlanRemoval, GcNothingToPrune, GcReadTarget, GcRead, GcManifestGone,
       GcFlush, GcFinish, GcScan, GcDeleteBlob, bucketVars
  <2> QED BY <1>3, <2>1 DEF Collect, CollectStep, Abort, historyVars
<1>4. ASSUME NEW h \in Hashes, CallFails(g, h) \/ DeleteUnanswered(g, h)
      PROVE  Vouched(n) /\ snapshots'[n] = snapshots[n] /\ GcKeeps(g, n)
  BY <1>4 DEF CallFails, DeleteUnanswered, GcScanError, GcDeleteError, GcDeleteUnanswered,
     bucketVars
<1> QED
  BY <1>1, <1>2, <1>3, <1>4 DEF GcNext

LEMMA CollectionRetains ==
  ASSUME TypeOK, RetentionInv, NEW g \in GcRuns, GcNext(g)
  PROVE  RetentionInv'
<1>t. BucketTypeOK /\ GcTypeOK
  BY DEF TypeOK
<1>a. GcAny(g) /\ UNCHANGED <<now, backupVars>>
  BY GcNextIsAny
<1>o. OthersKeep(g)
  BY <1>a, <1>t, OthersUntouched
<1>1. PlansSound'
  BY <1>a, <1>o, <1>t, PlanKept DEF RetentionInv, PlansSound, OthersKeep, PlanSound
<1>2. ASSUME NEW f \in GcRuns, NEW n \in Names, Vouched(n)' PROVE ViewSound(f, n)'
  <2>1. Vouched(n) /\ snapshots'[n] = snapshots[n] /\ GcKeeps(g, n) /\ n \in Present
    BY <1>2, StillVouched DEF Vouched
  <2>2. CASE f = g
    BY <1>t, <2>1, <2>2, ViewKept DEF RetentionInv, PlansSound, ViewsSound
  <2>3. CASE f # g
    BY <1>o, <2>1, <2>3 DEF RetentionInv, ViewsSound, ViewSound, OthersKeep
  <2> QED BY <2>2, <2>3
<1>3. ASSUME NEW n \in Names, Vouched(n)' PROVE snapshots'[n].refs \subseteq Stored'
  <2>1. Vouched(n) /\ snapshots'[n] = snapshots[n] /\ n \in Present
    BY <1>3, StillVouched DEF Vouched
  <2> QED
    BY <1>a, <1>t, <2>1, BlobsKept DEF RetentionInv, ViewsSound, VouchedManifestsComplete
<1>4. ASSUME NEW b \in Backups, Running(b) PROVE b \in disturbed'
  <2>1. CASE Collect(g)
    BY <1>4, <2>1 DEF Collect
  <2>2. CASE ~Collect(g)
    <3>1. CollectionRunning /\ UNCHANGED disturbed
      BY <2>2 DEF GcNext, CollectStep, Abort, RemoveManifest, SkipManifest, CallFails,
         DeleteUnanswered, GcStep, GcAbort, GcList, GcPlanScan, GcPlanRemoval,
         GcNothingToPrune, GcReadTarget, GcRead, GcManifestGone, GcFlush, GcFinish, GcScan,
         GcDeleteBlob, GcDeleteManifest, GcSkipManifest, GcScanError, GcDeleteError,
         GcDeleteUnanswered, Deleting, CollectionRunning, Active, historyVars
    <3> QED BY <1>4, <3>1 DEF RetentionInv, RunsSound
  <2> QED BY <2>1, <2>2
<1>5. RunsSound'
  BY <1>4, <1>a DEF RetentionInv, RunsSound, Running, backupVars
<1> QED
  BY <1>1, <1>2, <1>3, <1>5 DEF RetentionInv, ViewsSound, VouchedManifestsComplete

LEMMA RetentionStep == TypeOK /\ RetentionInv /\ [Next]_vars => RetentionInv'
<1> SUFFICES ASSUME TypeOK, RetentionInv, [Next]_vars PROVE RetentionInv'
  OBVIOUS
<1>1. CASE Tick \/ UNCHANGED vars
  BY <1>1 DEF Tick, vars, bucketVars, backupVars, gcVars, historyVars, RetentionInv,
     VouchedManifestsComplete, RunsSound, PlansSound, PlanSound, ViewsSound, ViewSound, Vouched,
     Present, Stored, Running, CollectionRunning, Active
<1> QED
  BY <1>1, BackupRetains, CollectionRetains DEF Next

(* No collection takes a blob from a manifest whose backup it did not      *)
(* overlap: gc-all, the removal of a snapshot and pruning may interleave,  *)
(* fail and crash at any call, with or without the lock, and whatever the  *)
(* grace period is.                                                        *)
THEOREM VouchedManifestsStayComplete == Spec => []VouchedManifestsComplete
<1>1. TypeOK /\ RetentionInv /\ [Next]_vars => (TypeOK /\ RetentionInv)'
  BY TypeStep, RetentionStep
<1>2. RetentionInv => VouchedManifestsComplete
  BY DEF RetentionInv
<1> QED
  BY TypeInit, RetentionInit, <1>1, <1>2, PTL DEF Spec
=============================================================================
