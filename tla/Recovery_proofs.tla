-------------------------- MODULE Recovery_proofs --------------------------
(***************************************************************************)
(* Proofs about Recovery for any snapshots, collections and times: its     *)
(* types, what gc-live keeps, and what a restore does beside collections.  *)
(***************************************************************************)
EXTENDS Recovery, Gc_proofs

(* What a restore may do once it has begun, failed calls included.         *)
RestoreAny ==
  \/ RestoreRead \/ RestoreManifestGone \/ RestoreCollected \/ RestoreAttached \/ RestoreCrash
  \/ \E h \in Hashes :
       \/ RestoreGet(h) \/ RestoreExtract(h) \/ RestoreExtractFails(h) \/ RestoreAttachFails(h)
       \/ \E result \in {"ok", "error"} : RestoreAttach(h, result)

(* A step belongs to a collection, to the restore, to a backup or to time, *)
(* and leaves the state of the others alone.                               *)
LEMMA GcNextIsAny ==
  ASSUME NEW g \in GcRuns, GcNext(g)
  PROVE  GcAny(g) /\ UNCHANGED <<now, stamp, restoreVars, spoiled, fresh, held>>
  BY DEF GcNext, Collect, CollectStep, Abort, RemoveManifest, SkipManifest, CallFails, GcAny,
     RetentionStart, RetentionStep, RetentionAbort, retentionVars, historyVars

LEMMA RestoreNextIsAny ==
  ASSUME RestoreNext
  PROVE  /\ RestoreAny \/ \E n \in Names : StartRestore(n)
         /\ UNCHANGED <<now, bucketVars, gcVars, retentionVars, condemned, removed>>
  BY DEF RestoreNext, RestoreStep, MeetsCut, RestoreFault, RestoreAny, StartRestore, RestoreStart,
     RestoreRead, RestoreManifestGone, RestoreCollected, RestoreAttached, RestoreCrash, RestoreGet,
     RestoreExtract, RestoreExtractFails, RestoreAttach, RestoreAttachFails, historyVars

-----------------------------------------------------------------------------
(* A restore attaches each part once at most, which bounds attached.       *)
AttachedOnce ==
  \A h \in Hashes :
    /\ attached[h] <= restores
    /\ \/ rpc \in {"read", "download"}
       \/ rpc = "attach" /\ outcome[h] = "none"
       => attached[h] < restores

TypeInv == TypeOK /\ AttachedOnce

LEMMA TypeInit == Init => TypeInv
<1> SUFFICES ASSUME Init PROVE TypeInv
  OBVIOUS
<1> USE MaxTimeAssumption, MaxFaultsAssumption, MaxRestoresAssumption DEF Init
<1>1. BucketTypeOK /\ GcTypeOK /\ RetentionTypeOK
  BY GcInitType DEF BucketInit, BucketTypeOK, RetentionInit, RetentionTypeOK
<1>2. /\ outcome \in [Hashes -> Outcome]
      /\ output \in [BOOLEAN -> [Hashes -> {"none", "partial"} \cup Ending]]
      /\ ending \in [Hashes -> Ending]
  BY DEF RestoreInit, NoOutcome, Outcome, Ending
<1>3. attached \in [Hashes -> 0..MaxRestores] /\ held = attached
  BY DEF RestoreInit
<1>4. RestoreTypeOK
  <2>1. restores \in 0..MaxRestores
    BY DEF RestoreInit
  <2>2. /\ rpc \in RestorePc
        /\ target \in Names \cup {Absent}
        /\ wanted \subseteq Hashes
    BY DEF RestoreInit, RestorePc
  <2>3. attaching \in BOOLEAN
    BY ZenonT(20) DEF RestoreInit
  <2> QED BY <1>2, <1>3, <2>1, <2>2, <2>3, ZenonT(20) DEF RestoreTypeOK
<1>5. AttachedOnce
  BY DEF RestoreInit, AttachedOnce
<1>6. faults \in 0..MaxFaults
  OBVIOUS
<1>7. spoiled \in BOOLEAN /\ fresh \in BOOLEAN /\ condemned \subseteq Names /\ removed \subseteq Names
  BY ZenonT(20)
<1> QED
  BY <1>1, <1>3, <1>4, <1>5, <1>6, <1>7, ZenonT(20) DEF TypeInv, TypeOK

LEMMA RestoreType ==
  ASSUME TypeInv, RestoreAny
  PROVE  RestoreTypeOK' /\ AttachedOnce'
<1> USE DEF TypeInv, TypeOK, RestoreTypeOK, AttachedOnce, RestorePc, Outcome, Ending
<1>1. CASE RestoreRead
  <2>1. snapshots[target] \in Manifest
    BY <1>1 DEF RestoreRead, BucketTypeOK, Present
  <2> QED BY <1>1, <2>1 DEF RestoreRead, Manifest
<1>2. CASE RestoreManifestGone \/ RestoreCrash
  BY <1>2 DEF RestoreManifestGone, RestoreCrash
<1>3. CASE RestoreCollected BY <1>3 DEF RestoreCollected, NoOutcome
<1>4. CASE RestoreAttached BY <1>4 DEF RestoreAttached
<1>5. ASSUME NEW h \in Hashes, RestoreGet(h) PROVE RestoreTypeOK' /\ AttachedOnce'
  BY <1>5 DEF RestoreGet
<1>6. ASSUME NEW h \in Hashes, RestoreExtract(h) PROVE RestoreTypeOK' /\ AttachedOnce'
  BY <1>6 DEF RestoreExtract, Extractable
<1>7. ASSUME NEW h \in Hashes, RestoreExtractFails(h) PROVE RestoreTypeOK' /\ AttachedOnce'
  BY <1>7 DEF RestoreExtractFails
<1>8. ASSUME NEW h \in Hashes, RestoreAttachFails(h) PROVE RestoreTypeOK' /\ AttachedOnce'
  BY <1>8 DEF RestoreAttachFails
<1>9. ASSUME NEW h \in Hashes, NEW result \in {"ok", "error"}, RestoreAttach(h, result)
      PROVE  RestoreTypeOK' /\ AttachedOnce'
  <2>1. restores \in Nat /\ restores <= MaxRestores
    BY MaxRestoresAssumption
  <2>2. attached[h] \in Nat /\ \A k \in Hashes : attached[k] \in Nat
    BY MaxRestoresAssumption
  <2>3. /\ attached' = [attached EXCEPT ![h] = @ + 1]
        /\ outcome' = [outcome EXCEPT ![h] = result]
        /\ output' = [output EXCEPT ![attaching][h] = "none"]
        /\ rpc = "attach" /\ outcome[h] = "none"
        /\ UNCHANGED <<rpc, target, attaching, wanted, ending, restores>>
    BY <1>9 DEF RestoreAttach
  <2>4. attached[h] < restores
    BY <2>3
  <2>5. attached[h] + 1 \in 0..MaxRestores
    BY ONLY MaxRestoresAssumption, <2>1, <2>2, <2>4
  <2>6. attached' \in [Hashes -> 0..MaxRestores]
    BY <2>3, <2>5
  <2>7. AttachedOnce'
    BY <2>1, <2>2, <2>3
  <2> QED BY <2>3, <2>6, <2>7
<1> QED
  BY <1>1, <1>2, <1>3, <1>4, <1>5, <1>6, <1>7, <1>8, <1>9 DEF RestoreAny

LEMMA TypeStep == TypeInv /\ [Next]_vars => TypeInv'
<1> SUFFICES ASSUME TypeInv, [Next]_vars PROVE TypeInv'
  OBVIOUS
<1>t. BucketTypeOK /\ GcTypeOK /\ RetentionTypeOK /\ RestoreTypeOK
  BY DEF TypeInv, TypeOK
<1>1. CASE Tick \/ UNCHANGED vars
  BY <1>1, MaxTimeAssumption
  DEF Tick, vars, TypeInv, TypeOK, BucketTypeOK, GcTypeOK, RetentionTypeOK, RestoreTypeOK,
      AttachedOnce, bucketVars, gcVars, retentionVars, restoreVars, historyVars
<1>2. ASSUME NEW n \in Names, Take(n) PROVE TypeInv'
  <2>1. BucketTypeOK'
    BY <1>2, <1>t, ContentAssumption, MaxTimeAssumption
    DEF Take, WriteManifest, BucketTypeOK, Manifest
  <2>2. RetentionTypeOK'
    BY <1>2, <1>t, MaxTimeAssumption DEF Take, RetentionTypeOK, BucketTypeOK
  <2>3. ending' \in [Hashes -> Ending]
    BY <1>2, <1>t DEF Take, RestoreTypeOK
  <2>4. faults' \in 0..MaxFaults
    BY <1>2, MaxFaultsAssumption DEF Take, Fault, TypeInv, TypeOK
  <2>5. condemned' \subseteq Names
    BY <1>2 DEF Take, TypeInv, TypeOK
  <2> QED
    BY <1>2, <1>t, <2>1, <2>2, <2>3, <2>4, <2>5
    DEF Take, TypeInv, TypeOK, GcTypeOK, RestoreTypeOK, AttachedOnce, gcVars
<1>3. ASSUME NEW g \in GcRuns, GcNext(g) PROVE TypeInv'
  <2>1. BucketTypeOK' /\ GcTypeOK'
    BY <1>3, <1>t, GcNextIsAny, GcAnyType
  <2>2. asOf' \in [GcRuns -> Nat]
    BY <1>3, <1>t, MaxTimeAssumption
    DEF GcNext, Collect, CollectStep, Abort, RemoveManifest, SkipManifest, CallFails,
        RetentionStart, RetentionStep, RetentionAbort, RetentionTypeOK, BucketTypeOK, retentionVars
  <2>3. removed' \subseteq Names
    BY <1>3, <1>t, <2>1
    DEF GcNext, Collect, CollectStep, Abort, RemoveManifest, SkipManifest, CallFails,
        TypeInv, TypeOK, GcTypeOK, historyVars
  <2>4. faults' \in 0..MaxFaults /\ condemned' \subseteq Names
    BY <1>3, MaxFaultsAssumption
    DEF GcNext, Collect, CollectStep, Abort, RemoveManifest, SkipManifest, CallFails, Fault,
        TypeInv, TypeOK, historyVars
  <2> QED
    BY <1>3, <1>t, <2>1, <2>2, <2>3, <2>4, GcNextIsAny
    DEF TypeInv, TypeOK, RetentionTypeOK, RestoreTypeOK, AttachedOnce, restoreVars
<1>4. CASE RestoreNext
  <2>1. /\ UNCHANGED <<now, bucketVars, gcVars, retentionVars, condemned, removed>>
        /\ RestoreAny \/ \E n \in Names : StartRestore(n)
    BY <1>4, RestoreNextIsAny
  <2>2. RestoreTypeOK' /\ AttachedOnce'
    <3>1. ASSUME NEW n \in Names, StartRestore(n) PROVE RestoreTypeOK' /\ AttachedOnce'
      BY <3>1, MaxRestoresAssumption
      DEF StartRestore, RestoreStart, TypeInv, TypeOK, RestoreTypeOK, AttachedOnce, RestorePc,
          NoOutcome, Outcome
    <3> QED BY <2>1, <3>1, RestoreType
  <2>3. faults' \in 0..MaxFaults
    BY <1>4, MaxFaultsAssumption
    DEF RestoreNext, RestoreStep, MeetsCut, RestoreFault, StartRestore, Fault, TypeInv, TypeOK,
        historyVars
  <2>4. /\ spoiled' \in BOOLEAN
        /\ fresh' \in BOOLEAN
        /\ held' \in [Hashes -> 0..MaxRestores]
    <3>1. ASSUME NEW n \in Names, StartRestore(n)
          PROVE  spoiled' \in BOOLEAN /\ fresh' \in BOOLEAN /\ held' = attached
      BY <3>1 DEF StartRestore, OutputEmpty
    <3>2. CASE RestoreStep
      BY <3>2 DEF RestoreStep, TypeInv, TypeOK, historyVars
    <3>3. CASE MeetsCut \/ RestoreFault
      BY <3>3 DEF MeetsCut, RestoreFault, TypeInv, TypeOK
    <3> QED BY <1>4, <1>t, <3>1, <3>2, <3>3 DEF RestoreNext, RestoreTypeOK
  <2> QED
    BY <1>t, <2>1, <2>2, <2>3, <2>4
    DEF TypeInv, TypeOK, BucketTypeOK, GcTypeOK, RetentionTypeOK, bucketVars, gcVars,
        retentionVars
<1> QED
  BY <1>1, <1>2, <1>3, <1>4 DEF Next

(* Every variable of Recovery keeps its type; in particular a restore      *)
(* attaches each of its parts at most once.                                *)
THEOREM TypeCorrect == Spec => []TypeOK
<1>1. TypeInv => TypeOK
  BY DEF TypeInv
<1> QED
  BY TypeInit, TypeStep, <1>1, PTL DEF Spec

-----------------------------------------------------------------------------
(* What a collection is about to remove was named by a user, or was past   *)
(* all_cutoff when gc-live read the clock.                                 *)
VictimsDue(g) ==
  /\ Kind[g] = "rm" => victims[g] \subseteq removed
  /\ gpc[g] = "remove" /\ Kind[g] # "rm" =>
       \A n \in victims[g] : stamp[n] < asOf[g] - RetainAll

(* What is no longer there was removed by a user or is past all_cutoff.    *)
GoneInTime ==
  \A n \in Taken : n \in Present \/ n \in removed \/ stamp[n] < now - RetainAll

KeptInv ==
  /\ \A g \in GcRuns : asOf[g] <= now /\ VictimsDue(g)
  /\ GoneInTime

LEMMA KeptInit == Init => KeptInv
  BY DEF Init, GcInit, BucketInit, RetentionInit, KeptInv, VictimsDue, GoneInTime, Taken

(* The numbers that the comparisons are about.                             *)
LEMMA Times ==
  ASSUME TypeInv
  PROVE  /\ now \in Nat /\ RetainAll \in Nat
         /\ \A g \in GcRuns : asOf[g] \in Nat
         /\ \A n \in Taken : stamp[n] \in Nat
  BY MaxTimeAssumption, RetainAllAssumption
  DEF TypeInv, TypeOK, BucketTypeOK, RetentionTypeOK, Taken

(* A step after which a collection has the same victims or none.           *)
LEMMA VictimsStayDue ==
  ASSUME TypeInv, NEW g \in GcRuns, VictimsDue(g), removed \subseteq removed', UNCHANGED stamp,
         victims'[g] \subseteq victims[g],
         gpc'[g] = "remove" => gpc[g] = "remove" /\ asOf'[g] = asOf[g]
  PROVE  VictimsDue(g)'
  BY DEF VictimsDue

(* Of the manifests, a collection does no more than to remove one.         *)
LEMMA GcNextManifests ==
  ASSUME NEW g \in GcRuns, GcNext(g)
  PROVE  UNCHANGED snapshots \/ \E m \in Names : RemoveManifest(g, m)
  BY DEF GcNext, Collect, CollectStep, Abort, SkipManifest, CallFails, RetentionStart,
     RetentionStep, RetentionAbort, GcStart, GcAbort, GcStep, GcReset, GcList, GcPlanScan,
     GcPlanRemoval, GcNothingToPrune, GcReadTarget, GcRead, GcManifestGone, GcFinish, GcFlush,
     GcScan, GcDeleteBlob, GcSkipManifest, GcScanError, GcDeleteError, GcDeleteUnanswered,
     bucketVars

(* A run that is about to remove manifests was so before, and then they    *)
(* were among its victims, or it has just planned.                         *)
LEMMA PlansOnly ==
  ASSUME GcTypeOK, NEW g \in GcRuns, GcNext(g), gpc'[g] = "remove"
  PROVE  \/ gpc[g] = "read" /\ CollectStep(g) /\ GcPlanRemoval(g)
         \/ gpc[g] = "remove" /\ victims'[g] \subseteq victims[g]
<1> USE DEF GcTypeOK
<1>1. ~GcReset(g)
  BY DEF GcReset
<1>2. CASE Collect(g)
  BY <1>2 DEF Collect, RetentionStart, GcStart
<1>3. CASE CollectStep(g)
  BY <1>1, <1>3
  DEF CollectStep, RetentionStep, GcStep, GcList, GcPlanScan, GcPlanRemoval, GcNothingToPrune,
      GcReadTarget, GcRead, GcManifestGone, GcFlush, GcFinish, GcScan, GcDeleteBlob
<1>4. ASSUME NEW n \in Names, RemoveManifest(g, n) \/ SkipManifest(g, n)
      PROVE  gpc[g] = "remove" /\ victims'[g] \subseteq victims[g]
  BY <1>4 DEF RemoveManifest, SkipManifest, GcDeleteManifest, GcSkipManifest
<1>5. ASSUME NEW h \in Hashes, CallFails(g, h)
      PROVE  gpc[g] = "remove" /\ victims'[g] \subseteq victims[g]
  BY <1>5 DEF CallFails, GcScanError, GcDeleteError, GcDeleteUnanswered, gcVars
<1> QED
  BY <1>1, <1>2, <1>3, <1>4, <1>5 DEF GcNext, Abort, RetentionAbort, GcAbort

(* A backup takes the first name that is free, and its manifest is there.  *)
LEMMA TakeWrites ==
  ASSUME TypeInv, NEW n \in Names, Take(n)
  PROVE  /\ n \in Present' /\ n \in Taken'
         /\ \A m \in Names \ {n} : stamp'[m] = stamp[m] /\ snapshots'[m] = snapshots[m]
<1>1. PICK b \in Backups : snapshots' = [snapshots EXCEPT ![n] = [refs |-> Content[n], by |-> b]]
  BY DEF Take, WriteManifest
<1>2. PICK t \in 0..now : stamp' = [stamp EXCEPT ![n] = t]
  BY DEF Take
<1>3. [refs |-> Content[n], by |-> b] \in Manifest
  BY ContentAssumption DEF Manifest
<1>4. n \in Present'
  BY <1>1, <1>3, AbsentAssumption DEF Present, Manifest, TypeInv, TypeOK, BucketTypeOK
<1>5. n \in Taken'
  BY <1>2, AbsentAssumption, MaxTimeAssumption
  DEF Taken, TypeInv, TypeOK, BucketTypeOK, RetentionTypeOK
<1> QED
  BY <1>1, <1>2, <1>4, <1>5

LEMMA CollectionKeeps ==
  ASSUME TypeInv, KeptInv, NEW g \in GcRuns, GcNext(g)
  PROVE  KeptInv'
<1>t. BucketTypeOK /\ GcTypeOK /\ RetentionTypeOK
  BY DEF TypeInv, TypeOK
<1>a. GcAny(g) /\ UNCHANGED <<now, stamp>>
  BY GcNextIsAny
<1>o. OthersKeep(g)
  BY <1>a, <1>t, OthersUntouched
<1>r. removed \subseteq removed'
  BY DEF GcNext, Collect, CollectStep, Abort, RemoveManifest, SkipManifest, CallFails, historyVars
<1>1. /\ \A f \in GcRuns \ {g} : asOf'[f] = asOf[f]
      /\ asOf'[g] <= now
      /\ gpc'[g] = "remove" => asOf'[g] = asOf[g]
  <2>1. CASE Collect(g)
    <3>1. PICK t \in 0..now : asOf' = [asOf EXCEPT ![g] = t]
      BY <2>1 DEF Collect, RetentionStart
    <3>2. gpc'[g] # "remove"
      BY <2>1, <1>t DEF Collect, RetentionStart, GcStart, GcTypeOK
    <3> QED BY <1>t, <3>1, <3>2, Times DEF RetentionTypeOK
  <2>2. CASE CollectStep(g)
    BY <2>2, <1>t, Times DEF CollectStep, RetentionStep, KeptInv, RetentionTypeOK
  <2>3. CASE Abort(g)
    BY <2>3, <1>t, Times DEF Abort, RetentionAbort, GcAbort, GcReset, RetentionTypeOK, GcTypeOK
  <2>4. CASE UNCHANGED asOf
    BY <2>4, <1>t DEF KeptInv
  <2> QED
    BY <2>1, <2>2, <2>3, <2>4
    DEF GcNext, RemoveManifest, SkipManifest, CallFails, retentionVars
<1>2. ASSUME NEW f \in GcRuns \ {g} PROVE VictimsDue(f)'
  BY <1>a, <1>o, <1>r, <1>1 DEF KeptInv, OthersKeep, VictimsDue
<1>3. VictimsDue(g)'
  <2>1. CASE Collect(g)
    BY <2>1, <1>t DEF Collect, RetentionStart, GcStart, GcTypeOK, KeptInv, VictimsDue
  <2>2. CASE CollectStep(g) /\ GcPlanRemoval(g)
    <3>1. Kind[g] = "rm" => victims'[g] = victims[g]
      BY <2>2, <1>t DEF GcPlanRemoval, GcTypeOK
    <3>2. ASSUME Kind[g] # "rm" PROVE \A n \in victims'[g] : stamp[n] < asOf[g] - RetainAll
      <4>1. Kind[g] = "prune" /\ gpc[g] = "read" /\ toRead[g] = {}
        BY <2>2, <3>2, KindAssumption DEF GcPlanRemoval
      <4>2. victims'[g] \in PruneSets(ReadNames(g) \cap LiveNames, asOf[g])
        BY <2>2, <4>1 DEF CollectStep, RetentionStep
      <4> QED BY <4>2 DEF PruneSets, BeyondAll
    <3> QED BY <1>a, <1>r, <1>1, <3>1, <3>2 DEF KeptInv, VictimsDue
  <2>3. ASSUME victims'[g] \subseteq victims[g], gpc'[g] = "remove" => gpc[g] = "remove"
        PROVE  VictimsDue(g)'
    BY <2>3, <1>a, <1>r, <1>1, VictimsStayDue DEF KeptInv
  <2>4. CASE GcReset(g)
    BY <2>3, <2>4, <1>t DEF GcReset, GcTypeOK
  <2>5. ASSUME NEW n \in Names, GcReadTarget(g, n) \/ GcRead(g, n)
        PROVE  VictimsDue(g)'
    BY <2>3, <2>5, <1>t DEF GcReadTarget, GcRead, GcTypeOK
  <2>6. ASSUME NEW n \in Names, GcDeleteManifest(g, n) \/ GcSkipManifest(g, n)
        PROVE  VictimsDue(g)'
    BY <2>3, <2>6, <1>t DEF GcDeleteManifest, GcSkipManifest, GcTypeOK
  <2>7. ASSUME NEW h \in Hashes,
               \/ GcScan(g, h) \/ GcDeleteBlob(g, h)
               \/ GcScanError(g, h) \/ GcDeleteError(g, h) \/ GcDeleteUnanswered(g, h)
        PROVE  VictimsDue(g)'
    BY <2>3, <2>7 DEF GcScan, GcDeleteBlob, GcScanError, GcDeleteError, GcDeleteUnanswered, gcVars
  <2>8. CASE GcList(g) \/ GcPlanScan(g) \/ GcFlush(g)
    BY <2>3, <2>8, <1>t DEF GcList, GcPlanScan, GcFlush, GcTypeOK
  <2>9. CASE CollectStep(g)
    BY <2>2, <2>4, <2>5, <2>7, <2>8, <2>9
    DEF CollectStep, RetentionStep, GcStep, GcNothingToPrune, GcManifestGone, GcFinish
  <2> QED
    BY <2>1, <2>4, <2>6, <2>7, <2>9
    DEF GcNext, Abort, RetentionAbort, GcAbort, RemoveManifest, SkipManifest, CallFails
<1>4. GoneInTime'
  <2>1. CASE UNCHANGED snapshots
    BY <2>1, <1>a, <1>r DEF KeptInv, GoneInTime, Taken, Present
  <2>2. ASSUME NEW m \in Names, RemoveManifest(g, m) PROVE GoneInTime'
    <3>1. m \in Taken => m \in removed \/ stamp[m] < now - RetainAll
      BY <2>2, Times DEF RemoveManifest, GcDeleteManifest, KeptInv, VictimsDue
    <3>2. \A n \in Present \ {m} : n \in Present'
      BY <2>2, <1>t DEF RemoveManifest, GcDeleteManifest, DeleteManifest, Present, BucketTypeOK
    <3> QED BY <1>a, <1>r, <3>1, <3>2 DEF KeptInv, GoneInTime, Taken
  <2> QED BY <2>1, <2>2, GcNextManifests
<1> QED
  BY <1>a, <1>1, <1>2, <1>3, <1>4 DEF KeptInv

LEMMA KeptStep == TypeInv /\ KeptInv /\ [Next]_vars => KeptInv'
<1> SUFFICES ASSUME TypeInv, KeptInv, [Next]_vars PROVE KeptInv'
  OBVIOUS
<1>1. CASE Tick
  <2>1. now' = now + 1
    BY <1>1 DEF Tick
  <2>2. UNCHANGED <<snapshots, gpc, victims, stamp, asOf, removed>>
    BY <1>1 DEF Tick, bucketVars, gcVars, retentionVars, historyVars
  <2>3. \A g \in GcRuns : asOf'[g] <= now' /\ VictimsDue(g)'
    BY <2>1, <2>2, Times DEF KeptInv, VictimsDue
  <2>4. GoneInTime'
    BY <2>1, <2>2, Times DEF KeptInv, GoneInTime, Taken, Present
  <2> QED BY <2>3, <2>4 DEF KeptInv
<1>2. ASSUME NEW n \in Names, Take(n) PROVE KeptInv'
  <2>1. UNCHANGED <<now, gcVars, asOf, removed>>
    BY <1>2 DEF Take
  <2>2. \A g \in GcRuns : gpc[g] = "idle"
    BY <1>2 DEF Take, Active
  <2>3. \A g \in GcRuns : asOf'[g] <= now' /\ VictimsDue(g)'
    BY <2>1, <2>2 DEF KeptInv, VictimsDue, gcVars
  <2>4. /\ n \in Present'
        /\ \A m \in Names \ {n} : stamp'[m] = stamp[m] /\ snapshots'[m] = snapshots[m]
    BY <1>2, TakeWrites
  <2> QED BY <2>1, <2>3, <2>4 DEF KeptInv, GoneInTime, Taken, Present
<1>3. CASE RestoreNext \/ UNCHANGED vars
  <2>1. UNCHANGED <<now, bucketVars, gcVars, retentionVars, removed>>
    BY <1>3, RestoreNextIsAny DEF vars, historyVars
  <2> QED
    BY <2>1
    DEF KeptInv, VictimsDue, GoneInTime, Taken, Present, bucketVars, gcVars, retentionVars
<1> QED
  BY <1>1, <1>2, <1>3, CollectionKeeps DEF Next

(* gc-live keeps every snapshot younger than retain_all, however many      *)
(* collections of any kind there are, however long each waits between      *)
(* reading the clock and pruning, and whatever fails.                      *)
THEOREM RecentStays == Spec => []RecentKept
<1>1. TypeInv /\ KeptInv /\ [Next]_vars => (TypeInv /\ KeptInv)'
  BY TypeStep, KeptStep
<1>2. TypeInv /\ KeptInv => RecentKept
  BY Times DEF KeptInv, GoneInTime, RecentKept, Entrusted
<1> QED
  BY TypeInit, KeptInit, <1>1, <1>2, PTL DEF Spec

-----------------------------------------------------------------------------
(* gc/.lock at work: no two gc-live run at once.  (GcLock shows when it    *)
(* cannot promise that.)  Removals on demand may run beside, and any       *)
(* number of gc-live one after the other.                                  *)
OnePruning ==
  \A f, g \in GcRuns :
    Kind[f] = "prune" /\ Kind[g] = "prune" /\ Active(f) /\ Active(g) => f = g

(* A gc-live has read manifests that are still there, unless a user had    *)
(* them removed.                                                           *)
ReadTaken(g) ==
  /\ gpc[g] = "remove" => Kind[g] # "all"
  /\ Kind[g] = "prune" =>
       /\ gpc[g] # "target"
       /\ gpc[g] \in {"idle", "list"} => ReadNames(g) = {}
       /\ gpc[g] = "read" => ReadNames(g) \subseteq Taken \cap (Present \cup removed)

(* The snapshots that DayKept is about.                                    *)
NewestOfDay(n) ==
  /\ n \in Taken
  /\ stamp[n] >= now - RetainDaily
  /\ \A m \in Taken : SameDay(m, n) => m \notin removed /\ stamp[m] <= stamp[n]

(* No gc-live is about to remove m.                                        *)
Spared(m) ==
  \A g \in GcRuns : Kind[g] = "prune" /\ gpc[g] = "remove" => m \notin victims[g]

(* A day's newest, or one as new, is there and is going to stay.           *)
DaySpared ==
  RetainDaily # NoDaily =>
    \A n \in Names : NewestOfDay(n) =>
      \E m \in Present : SameDay(m, n) /\ stamp[m] = stamp[n] /\ Spared(m)

DayInv ==
  /\ Present \subseteq Taken
  /\ \A g \in GcRuns : ReadTaken(g)
  /\ DaySpared

LEMMA DayInit == Init => DayInv
<1> SUFFICES ASSUME Init PROVE DayInv
  OBVIOUS
<1>1. Present = {} /\ Taken = {}
  BY DEF Init, BucketInit, RetentionInit, Present, Taken
<1>2. \A g \in GcRuns : ReadNames(g) = {} /\ gpc[g] = "idle"
  BY DEF Init, GcInit, ReadNames, NothingRead
<1> QED
  BY <1>1, <1>2 DEF DayInv, ReadTaken, DaySpared, NewestOfDay

(* A plan of gc-live that removes a snapshot as new as its day's newest    *)
(* keeps another of that day that is as new.                               *)
LEMMA PlanSparesOne ==
  ASSUME TypeInv, KeptInv, NEW g \in GcRuns, RetainDaily # NoDaily,
         ReadNames(g) \subseteq Taken \cap (Present \cup removed),
         NEW V \in PruneSets(ReadNames(g) \cap LiveNames, asOf[g]),
         NEW n \in Names, NewestOfDay(n),
         NEW m \in Present, SameDay(m, n), stamp[m] = stamp[n], m \in Taken
  PROVE  \E k \in Present : SameDay(k, n) /\ stamp[k] = stamp[n] /\ k \notin V
<1> DEFINE S == ReadNames(g) \cap LiveNames
<1>1. PICK K \in SUBSET S : OneOfEachDay(K, WithinDaily(S, asOf[g])) /\ V = BeyondAll(S, asOf[g]) \ K
  BY DEF PruneSets
<1>2. CASE m \notin V
  BY <1>2
<1>3. CASE m \in V
  <2>1. RetainDaily \in Nat /\ now \in Nat /\ asOf[g] \in Nat /\ asOf[g] <= now
    BY Times, RetainDailyAssumption DEF KeptInv
  <2>2. stamp[m] \in Nat /\ stamp[m] >= now - RetainDaily
    BY Times DEF NewestOfDay
  <2>3. stamp[m] >= asOf[g] - RetainDaily
    BY <2>1, <2>2
  <2>4. m \in WithinDaily(S, asOf[g])
    BY <1>1, <1>3, <2>3 DEF WithinDaily
  <2>5. PICK k \in K : SameDay(k, m) /\ stamp[m] <= stamp[k]
    <3>1. PICK k \in K : SameDay(k, m)
      BY <1>1, <2>4 DEF OneOfEachDay
    <3>2. SameDay(m, k)
      BY <3>1 DEF SameDay
    <3> QED BY <1>1, <2>4, <3>1, <3>2 DEF OneOfEachDay
  <2>6. k \in Taken /\ k \in Present \cup removed /\ k \notin V
    BY <1>1
  <2>7. SameDay(k, n)
    BY <2>5 DEF SameDay
  <2>8. k \notin removed /\ stamp[k] <= stamp[n]
    BY <2>6, <2>7 DEF NewestOfDay
  <2>9. stamp[k] = stamp[n]
    BY <2>2, <2>5, <2>6, <2>8, Times
  <2> QED BY <2>6, <2>7, <2>8, <2>9
<1> QED BY <1>2, <1>3

(* What a gc-live has read, after a step of its own.                       *)
LEMMA ReadsTaken ==
  ASSUME TypeInv, NEW g \in GcRuns, ReadTaken(g), Present \subseteq Taken, GcNext(g)
  PROVE  ReadTaken(g)'
<1>t. BucketTypeOK /\ GcTypeOK /\ Taken' = Taken /\ removed \subseteq removed'
  <2>1. UNCHANGED stamp
    BY GcNextIsAny
  <2> QED
    BY <2>1 DEF TypeInv, TypeOK, Taken, GcNext, Collect, CollectStep, Abort, RemoveManifest,
       SkipManifest, CallFails, historyVars
<1>s. UNCHANGED snapshots \/ \E m \in Names : RemoveManifest(g, m)
  BY GcNextManifests
<1>r. CASE GcReset(g)
  <2>1. gpc'[g] = "idle" /\ ReadNames(g)' = {}
    BY <1>r, <1>t DEF GcReset, GcTypeOK, ReadNames, NothingRead
  <2> QED BY <2>1 DEF ReadTaken
<1>1. CASE GcStart(g)
  BY <1>1, <1>t, KindAssumption DEF GcStart, GcTypeOK, ReadTaken, ReadNames
<1>2. CASE GcList(g) \/ GcPlanRemoval(g) \/ GcPlanScan(g)
  BY <1>2, <1>t DEF GcList, GcPlanRemoval, GcPlanScan, GcTypeOK, ReadTaken, ReadNames
<1>3. ASSUME NEW n \in Names, GcRead(g, n) PROVE ReadTaken(g)'
  <2>1. /\ gpc[g] = "read" /\ gpc' = gpc /\ n \in Present /\ Present' = Present
        /\ \A m \in Names \ {n} : view'[g][m] = view[g][m]
    BY <1>3, <1>t DEF GcRead, GcTypeOK, bucketVars, Present
  <2>2. ReadNames(g)' \subseteq ReadNames(g) \cup {n}
    BY <2>1 DEF ReadNames
  <2> QED BY <1>t, <2>1, <2>2 DEF ReadTaken
<1>4. CASE UNCHANGED <<gpc, view, snapshots>>
  BY <1>4, <1>t DEF ReadTaken, ReadNames, Present
<1>5. ASSUME NEW n \in Names, GcReadTarget(g, n) PROVE ReadTaken(g)'
  <2>1. gpc[g] = "target" /\ gpc'[g] = "list"
    BY <1>5, <1>t DEF GcReadTarget, GcTypeOK
  <2> QED BY <2>1 DEF ReadTaken
<1>6. ASSUME NEW n \in Names, GcDeleteManifest(g, n) PROVE ReadTaken(g)'
  BY <1>6, <1>t DEF GcDeleteManifest, GcTypeOK, ReadTaken
<1> QED
  BY <1>r, <1>1, <1>2, <1>3, <1>4, <1>5, <1>6
  DEF GcNext, Collect, CollectStep, Abort, RemoveManifest, SkipManifest, CallFails,
      RetentionStart, RetentionStep, RetentionAbort, GcStep, GcAbort, GcNothingToPrune,
      GcManifestGone, GcFinish, GcFlush, GcScan, GcDeleteBlob, GcSkipManifest, GcScanError,
      GcDeleteError, GcDeleteUnanswered, bucketVars, gcVars

(* What a gc-live has read, after a step of another collection.            *)
LEMMA OthersReadTaken ==
  ASSUME TypeInv, KeptInv, NEW g \in GcRuns, NEW f \in GcRuns \ {g}, ReadTaken(f),
         OnePruning', ReadTaken(g), GcNext(g)
  PROVE  ReadTaken(f)'
<1>t. BucketTypeOK /\ GcTypeOK /\ Taken' = Taken /\ removed \subseteq removed'
  <2>1. UNCHANGED stamp
    BY GcNextIsAny
  <2> QED
    BY <2>1 DEF TypeInv, TypeOK, Taken, GcNext, Collect, CollectStep, Abort, RemoveManifest,
       SkipManifest, CallFails, historyVars
<1>o. gpc'[f] = gpc[f] /\ ReadNames(f)' = ReadNames(f)
  BY <1>t, GcNextIsAny, OthersUntouched DEF OthersKeep, ReadNames
<1>1. CASE UNCHANGED snapshots
  BY <1>1, <1>t, <1>o DEF ReadTaken, Present
<1>2. ASSUME NEW m \in Names, RemoveManifest(g, m), Kind[f] = "prune", gpc[f] = "read"
      PROVE  ReadTaken(f)'
  <2>1. gpc[g] = "remove" /\ gpc'[g] = "remove" /\ m \in victims[g]
    BY <1>2, <1>t DEF RemoveManifest, GcDeleteManifest
  <2>2. Kind[g] = "rm"
    BY <1>2, <1>o, <2>1, KindAssumption DEF OnePruning, Active, ReadTaken
  <2>3. m \in removed
    BY <2>1, <2>2 DEF KeptInv, VictimsDue
  <2>4. \A n \in Present \ {m} : n \in Present'
    BY <1>2, <1>t DEF RemoveManifest, GcDeleteManifest, DeleteManifest, Present, BucketTypeOK
  <2> QED BY <1>2, <1>o, <1>t, <2>3, <2>4 DEF ReadTaken
<1>3. ASSUME ~(Kind[f] = "prune" /\ gpc[f] = "read") PROVE ReadTaken(f)'
  BY <1>3, <1>o DEF ReadTaken
<1> QED
  BY <1>1, <1>2, <1>3, GcNextManifests

(* Whether a snapshot is its day's newest does not change but with time,   *)
(* removals and newer ones.                                                *)
LEMMA WasNewest ==
  ASSUME UNCHANGED <<now, stamp>>, removed \subseteq removed', NEW n \in Names, NewestOfDay(n)'
  PROVE  NewestOfDay(n)
  BY DEF NewestOfDay, Taken, SameDay

LEMMA CollectionSpares ==
  ASSUME TypeInv, KeptInv, DayInv, OnePruning, OnePruning', NEW g \in GcRuns, GcNext(g)
  PROVE  DaySpared'
<1>t. BucketTypeOK /\ GcTypeOK /\ UNCHANGED <<now, stamp>> /\ removed \subseteq removed'
  BY GcNextIsAny DEF TypeInv, TypeOK, GcNext, Collect, CollectStep, Abort, RemoveManifest,
     SkipManifest, CallFails, historyVars
<1>o. OthersKeep(g)
  BY <1>t, GcNextIsAny, OthersUntouched
<1> SUFFICES ASSUME RetainDaily # NoDaily, NEW n \in Names, NewestOfDay(n)'
             PROVE  \E m \in Present' : SameDay(m, n) /\ stamp[m] = stamp[n] /\ Spared(m)'
  BY <1>t DEF DaySpared, SameDay
<1>n. NewestOfDay(n)
  BY <1>t, WasNewest
<1>m. PICK m \in Present : SameDay(m, n) /\ stamp[m] = stamp[n] /\ Spared(m)
  BY <1>n DEF DayInv, DaySpared
<1>d. m \in Taken /\ m \notin removed
  BY <1>n, <1>m DEF DayInv, NewestOfDay
<1>1. CASE Kind[g] = "prune" /\ gpc[g] = "read" /\ gpc'[g] = "remove"
  <2>1. CollectStep(g) /\ GcPlanRemoval(g)
    BY <1>1, <1>t, PlansOnly
  <2>2. victims'[g] \in PruneSets(ReadNames(g) \cap LiveNames, asOf[g])
    BY <1>1, <2>1 DEF CollectStep, RetentionStep, GcPlanRemoval
  <2>3. PICK k \in Present : SameDay(k, n) /\ stamp[k] = stamp[n] /\ k \notin victims'[g]
    BY <1>1, <1>n, <1>m, <1>d, <2>2, PlanSparesOne DEF DayInv, ReadTaken
  <2>4. Present' = Present
    BY <2>1 DEF GcPlanRemoval, bucketVars, Present
  <2>5. \A f \in GcRuns : Kind[f] = "prune" /\ gpc'[f] = "remove" => f = g
    BY <1>1 DEF OnePruning, Active
  <2> QED BY <2>3, <2>4, <2>5 DEF Spared
<1>2. CASE ~(Kind[g] = "prune" /\ gpc[g] = "read" /\ gpc'[g] = "remove")
  <2>1. Kind[g] = "prune" /\ gpc'[g] = "remove" =>
          gpc[g] = "remove" /\ victims'[g] \subseteq victims[g]
    BY <1>2, <1>t, PlansOnly DEF DayInv
  <2>2. Spared(m)'
    BY <1>m, <1>o, <2>1 DEF Spared, OthersKeep
  <2>3. m \in Present'
    <3>1. ASSUME NEW k \in Names, RemoveManifest(g, k) PROVE m \in Present'
      <4>1. gpc[g] = "remove" /\ k \in victims[g]
        BY <3>1 DEF RemoveManifest, GcDeleteManifest
      <4>2. Kind[g] # "all"
        BY <4>1 DEF DayInv, ReadTaken
      <4>3. m # k
        BY <1>m, <1>d, <4>1, <4>2, KindAssumption DEF Spared, KeptInv, VictimsDue
      <4> QED
        BY <1>t, <3>1, <4>3 DEF RemoveManifest, GcDeleteManifest, DeleteManifest, Present, BucketTypeOK
    <3> QED BY <3>1, GcNextManifests DEF Present
  <2> QED BY <1>m, <2>2, <2>3
<1> QED BY <1>1, <1>2

(* A backup: of its day it is the newest, and there; those of other days,  *)
(* and those it is not newer than, are as they were.                       *)
LEMMA TakeSpares ==
  ASSUME TypeInv, DayInv, NEW n \in Names, Take(n)
  PROVE  DayInv'
<1>1. /\ n \notin Taken /\ n \in Present' /\ n \in Taken' /\ UNCHANGED <<now, gcVars, removed>>
      /\ \A m \in Names \ {n} : stamp'[m] = stamp[m] /\ snapshots'[m] = snapshots[m]
      /\ \A g \in GcRuns : gpc[g] = "idle"
  BY TakeWrites DEF Take, Active
<1>2. Taken' = Taken \cup {n} /\ Present' = Present \cup {n}
  BY <1>1 DEF Taken, Present
<1>3. \A g \in GcRuns : ReadTaken(g)' /\ gpc'[g] = "idle"
  BY <1>1 DEF DayInv, ReadTaken, ReadNames, gcVars
<1>4. \A k, m \in Taken : stamp'[k] = stamp[k] /\ (SameDay(k, m)' <=> SameDay(k, m))
  BY <1>1 DEF Taken, SameDay
<1>5. ASSUME RetainDaily # NoDaily, NEW k \in Names, NewestOfDay(k)'
      PROVE  \E m \in Present' : SameDay(m, k)' /\ stamp'[m] = stamp'[k] /\ Spared(m)'
  <2>1. CASE k = n
    BY <1>1, <1>3, <2>1 DEF Spared, SameDay
  <2>2. CASE k # n
    <3>1. k \in Taken
      BY <1>2, <1>5, <2>2 DEF NewestOfDay
    <3>2. NewestOfDay(k)
      BY <1>1, <1>2, <1>4, <1>5, <3>1 DEF NewestOfDay
    <3>3. PICK m \in Present : SameDay(m, k) /\ stamp[m] = stamp[k]
      BY <1>5, <3>2 DEF DayInv, DaySpared
    <3>4. m \in Taken
      BY DEF DayInv
    <3> QED BY <1>2, <1>3, <1>4, <3>1, <3>3, <3>4 DEF Spared
  <2> QED BY <2>1, <2>2
<1> QED
  BY <1>1, <1>2, <1>3, <1>5 DEF DayInv, DaySpared

LEMMA DayStep ==
  TypeInv /\ KeptInv /\ DayInv /\ OnePruning /\ OnePruning' /\ [Next]_vars => DayInv'
<1> SUFFICES ASSUME TypeInv, KeptInv, DayInv, OnePruning, OnePruning', [Next]_vars
             PROVE  DayInv'
  OBVIOUS
<1>1. ASSUME NEW n \in Names, Take(n) PROVE DayInv'
  BY <1>1, TakeSpares
<1>2. ASSUME NEW g \in GcRuns, GcNext(g) PROVE DayInv'
  <2>1. Present' \subseteq Taken'
    <3>1. UNCHANGED stamp /\ BucketTypeOK
      BY <1>2, GcNextIsAny DEF TypeInv, TypeOK
    <3>2. Present' \subseteq Present
      BY <1>2, <3>1, GcNextManifests
      DEF RemoveManifest, GcDeleteManifest, DeleteManifest, Present, BucketTypeOK
    <3> QED BY <3>1, <3>2 DEF DayInv, Taken
  <2>2. \A f \in GcRuns : ReadTaken(f)'
    BY <1>2, ReadsTaken, OthersReadTaken DEF DayInv
  <2> QED BY <1>2, <2>1, <2>2, CollectionSpares DEF DayInv
<1>3. CASE Tick \/ RestoreNext \/ UNCHANGED vars
  <2>1. UNCHANGED <<snapshots, gcVars, stamp, removed>> /\ now' \in Nat /\ now <= now'
    BY <1>3, RestoreNextIsAny, Times DEF Tick, vars, bucketVars, retentionVars, historyVars
  <2>2. Present' = Present /\ Taken' = Taken /\ \A g \in GcRuns : ReadTaken(g)'
    BY <2>1 DEF DayInv, ReadTaken, ReadNames, Present, Taken, gcVars
  <2>3. ASSUME RetainDaily # NoDaily, NEW n \in Names, NewestOfDay(n)' PROVE NewestOfDay(n)
    <3>1. n \in Taken /\ stamp[n] >= now' - RetainDaily
      BY <2>1, <2>2, <2>3 DEF NewestOfDay
    <3>2. stamp[n] >= now - RetainDaily
      BY <2>1, <2>3, <3>1, Times, RetainDailyAssumption
    <3> QED BY <2>1, <2>2, <2>3, <3>1, <3>2 DEF NewestOfDay, SameDay
  <2>4. DaySpared'
    BY <2>1, <2>2, <2>3 DEF DayInv, DaySpared, Spared, SameDay, gcVars
  <2> QED BY <2>2, <2>4 DEF DayInv
<1> QED
  BY <1>1, <1>2, <1>3 DEF Next

(* While the lock keeps gc-live from running beside itself, a day of the   *)
(* daily period keeps its newest snapshot, or one of the same time, from   *)
(* one pruning to the next, whatever is removed on demand meanwhile,       *)
(* however long each gc-live waits between reading the clock and pruning,  *)
(* and whatever fails.                                                     *)
THEOREM DayStays == Spec /\ []OnePruning => []DayKept
<1>1. /\ TypeInv /\ KeptInv /\ DayInv /\ OnePruning /\ OnePruning' /\ [Next]_vars
      => (TypeInv /\ KeptInv /\ DayInv)'
  BY TypeStep, KeptStep, DayStep
<1>2. DayInv => DayKept
  BY DEF DayInv, DaySpared, DayKept, NewestOfDay, Taken
<1> QED
  BY TypeInit, KeptInit, DayInit, <1>1, <1>2, PTL DEF Spec

-----------------------------------------------------------------------------
(* The snapshots that NewestKept is about.                                 *)
SoleNewest(n) ==
  /\ n \in Entrusted
  /\ stamp[n] >= now - RetainDaily
  /\ \A m \in Taken \ {n} : SameDay(m, n) => stamp[m] < stamp[n]

(* No collection, however many there are, is going to prune one of these:  *)
(* what else of that day it has read, there still or not, was older.       *)
SoleInv ==
  /\ Present \subseteq Taken
  /\ \A g \in GcRuns : ReadNames(g) \subseteq Taken /\ (gpc[g] = "remove" => Kind[g] # "all")
  /\ RetainDaily # NoDaily =>
       \A n \in Names : SoleNewest(n) => n \in Present /\ Spared(n)

LEMMA SoleInit == Init => SoleInv
<1> SUFFICES ASSUME Init PROVE SoleInv
  OBVIOUS
<1>1. Present = {} /\ Taken = {}
  BY DEF Init, BucketInit, RetentionInit, Present, Taken
<1>2. \A g \in GcRuns : ReadNames(g) = {} /\ gpc[g] = "idle"
  BY DEF Init, GcInit, ReadNames, NothingRead
<1> QED
  BY <1>1, <1>2 DEF SoleInv, SoleNewest, Entrusted

LEMMA PlanSparesNewest ==
  ASSUME TypeInv, KeptInv, NEW g \in GcRuns, RetainDaily # NoDaily, ReadNames(g) \subseteq Taken,
         NEW V \in PruneSets(ReadNames(g) \cap LiveNames, asOf[g]), NEW n \in Names, SoleNewest(n)
  PROVE  n \notin V
<1> DEFINE S == ReadNames(g) \cap LiveNames
<1>1. PICK K \in SUBSET S : OneOfEachDay(K, WithinDaily(S, asOf[g])) /\ V = BeyondAll(S, asOf[g]) \ K
  BY DEF PruneSets
<1> SUFFICES ASSUME n \in BeyondAll(S, asOf[g]) PROVE n \in K
  BY <1>1
<1>2. /\ RetainDaily \in Nat /\ now \in Nat /\ asOf[g] \in Nat /\ asOf[g] <= now
      /\ stamp[n] \in Nat /\ stamp[n] >= now - RetainDaily
  BY Times, RetainDailyAssumption DEF KeptInv, SoleNewest, Entrusted
<1>3. n \in WithinDaily(S, asOf[g])
  BY <1>2 DEF WithinDaily
<1>4. PICK k \in K : SameDay(k, n)
  BY <1>1, <1>3 DEF OneOfEachDay
<1>5. SameDay(n, k)
  BY <1>4 DEF SameDay
<1>6. stamp[n] <= stamp[k]
  BY <1>1, <1>3, <1>5 DEF OneOfEachDay
<1>7. k \in Taken /\ stamp[k] \in Nat
  BY Times
<1>8. k = n
  BY <1>2, <1>4, <1>6, <1>7 DEF SoleNewest
<1> QED BY <1>8

(* What the collections have read was once taken.                          *)
LEMMA ReadsStayTaken ==
  ASSUME TypeInv, SoleInv, NEW g \in GcRuns, GcNext(g)
  PROVE  \A f \in GcRuns : ReadNames(f)' \subseteq Taken' /\ (gpc'[f] = "remove" => Kind[f] # "all")
<1>t. GcTypeOK /\ Taken' = Taken
  <2>1. UNCHANGED stamp
    BY GcNextIsAny
  <2> QED BY <2>1 DEF TypeInv, TypeOK, Taken
<1>1. ASSUME NEW f \in GcRuns \ {g}
      PROVE  ReadNames(f)' \subseteq Taken' /\ (gpc'[f] = "remove" => Kind[f] # "all")
  <2>1. gpc'[f] = gpc[f] /\ ReadNames(f)' = ReadNames(f)
    BY <1>t, GcNextIsAny, OthersUntouched DEF OthersKeep, ReadNames
  <2> QED BY <1>t, <2>1 DEF SoleInv
<1>2. gpc'[g] = "remove" => Kind[g] # "all"
  BY <1>t, PlansOnly DEF SoleInv, GcPlanRemoval
<1>3. ReadNames(g)' \subseteq Taken'
  <2>1. CASE GcReset(g)
    BY <2>1, <1>t DEF GcReset, GcTypeOK, ReadNames, NothingRead
  <2>2. ASSUME NEW n \in Names, GcRead(g, n) \/ GcReadTarget(g, n)
        PROVE  ReadNames(g)' \subseteq Taken'
    <3>1. n \in Present /\ \A m \in Names \ {n} : view'[g][m] = view[g][m]
      BY <2>2, <1>t DEF GcRead, GcReadTarget, GcTypeOK
    <3>2. ReadNames(g)' \subseteq ReadNames(g) \cup {n}
      BY <3>1 DEF ReadNames
    <3> QED BY <1>t, <3>1, <3>2 DEF SoleInv
  <2>3. CASE UNCHANGED view
    BY <2>3, <1>t DEF SoleInv, ReadNames
  <2> QED
    BY <2>1, <2>2, <2>3
    DEF GcNext, Collect, CollectStep, Abort, RemoveManifest, SkipManifest, CallFails,
        RetentionStart, RetentionStep, RetentionAbort, GcStart, GcStep, GcAbort, GcList,
        GcPlanScan, GcPlanRemoval, GcNothingToPrune, GcManifestGone, GcFinish, GcFlush, GcScan,
        GcDeleteBlob, GcDeleteManifest, GcSkipManifest, GcScanError, GcDeleteError,
        GcDeleteUnanswered, gcVars
<1> QED BY <1>1, <1>2, <1>3

LEMMA CollectionSparesNewest ==
  ASSUME TypeInv, KeptInv, SoleInv, NEW g \in GcRuns, GcNext(g)
  PROVE  SoleInv'
<1>t. BucketTypeOK /\ GcTypeOK /\ UNCHANGED <<now, stamp>> /\ removed \subseteq removed'
  BY GcNextIsAny DEF TypeInv, TypeOK, GcNext, Collect, CollectStep, Abort, RemoveManifest,
     SkipManifest, CallFails, historyVars
<1>o. OthersKeep(g)
  BY <1>t, GcNextIsAny, OthersUntouched
<1>p. Present' \subseteq Present
  BY <1>t, GcNextManifests
  DEF RemoveManifest, GcDeleteManifest, DeleteManifest, Present, BucketTypeOK
<1>1. ASSUME RetainDaily # NoDaily, NEW n \in Names, SoleNewest(n)'
      PROVE  n \in Present' /\ Spared(n)'
  <2>1. SoleNewest(n)
    BY <1>1, <1>t DEF SoleNewest, Entrusted, Taken, SameDay
  <2>2. n \in Present /\ Spared(n) /\ n \notin removed
    BY <1>1, <2>1 DEF SoleInv, SoleNewest, Entrusted
  <2>3. Kind[g] = "prune" /\ gpc'[g] = "remove" => n \notin victims'[g]
    <3>1. CASE gpc[g] = "read" /\ CollectStep(g) /\ GcPlanRemoval(g) /\ Kind[g] = "prune"
      <4>1. victims'[g] \in PruneSets(ReadNames(g) \cap LiveNames, asOf[g])
        BY <3>1 DEF CollectStep, RetentionStep, GcPlanRemoval
      <4> QED BY <1>1, <2>1, <4>1, PlanSparesNewest DEF SoleInv
    <3>2. CASE gpc[g] = "remove" /\ victims'[g] \subseteq victims[g]
      BY <2>2, <3>2 DEF Spared
    <3> QED BY <1>t, <3>1, <3>2, PlansOnly
  <2>4. Spared(n)'
    BY <1>o, <2>2, <2>3 DEF Spared, OthersKeep
  <2>5. ASSUME NEW k \in Names, RemoveManifest(g, k) PROVE n \in Present'
    <3>1. gpc[g] = "remove" /\ k \in victims[g] /\ Kind[g] # "all"
      BY <2>5 DEF RemoveManifest, GcDeleteManifest, SoleInv
    <3>2. n # k
      BY <2>2, <3>1, KindAssumption DEF Spared, KeptInv, VictimsDue
    <3> QED
      BY <1>t, <2>2, <2>5, <3>2
      DEF RemoveManifest, GcDeleteManifest, DeleteManifest, Present, BucketTypeOK
  <2>6. n \in Present'
    BY <2>2, <2>5, GcNextManifests DEF Present
  <2> QED BY <2>4, <2>6
<1>2. Present' \subseteq Taken'
  BY <1>t, <1>p DEF SoleInv, Taken
<1> QED
  BY <1>1, <1>2, ReadsStayTaken DEF SoleInv

LEMMA TakeSparesNewest ==
  ASSUME TypeInv, SoleInv, NEW n \in Names, Take(n)
  PROVE  SoleInv'
<1>1. /\ n \notin Taken /\ n \in Present' /\ n \in Taken' /\ UNCHANGED <<now, gcVars, removed>>
      /\ \A m \in Names \ {n} : stamp'[m] = stamp[m] /\ snapshots'[m] = snapshots[m]
      /\ \A g \in GcRuns : gpc[g] = "idle"
  BY TakeWrites DEF Take, Active
<1>2. Taken' = Taken \cup {n} /\ Present' = Present \cup {n}
  BY <1>1 DEF Taken, Present
<1>3. \A g \in GcRuns : ReadNames(g)' = ReadNames(g) /\ gpc'[g] = "idle"
  BY <1>1 DEF ReadNames, gcVars
<1>4. \A k, m \in Taken : stamp'[k] = stamp[k] /\ (SameDay(k, m)' <=> SameDay(k, m))
  BY <1>1 DEF Taken, SameDay
<1>5. ASSUME RetainDaily # NoDaily, NEW k \in Names, SoleNewest(k)', k # n
      PROVE  k \in Present'
  <2>1. k \in Taken
    BY <1>2, <1>5 DEF SoleNewest, Entrusted
  <2>2. SoleNewest(k)
    BY <1>1, <1>2, <1>4, <1>5, <2>1 DEF SoleNewest, Entrusted
  <2> QED BY <1>2, <1>5, <2>2 DEF SoleInv
<1> QED
  BY <1>1, <1>2, <1>3, <1>5 DEF SoleInv, Spared

LEMMA SoleStep == TypeInv /\ KeptInv /\ SoleInv /\ [Next]_vars => SoleInv'
<1> SUFFICES ASSUME TypeInv, KeptInv, SoleInv, [Next]_vars PROVE SoleInv'
  OBVIOUS
<1>1. CASE Tick \/ RestoreNext \/ UNCHANGED vars
  <2>1. UNCHANGED <<snapshots, gcVars, stamp, removed>> /\ now' \in Nat /\ now <= now'
    BY <1>1, RestoreNextIsAny, Times DEF Tick, vars, bucketVars, retentionVars, historyVars
  <2>2. /\ Present' = Present /\ Taken' = Taken
        /\ \A g \in GcRuns : ReadNames(g)' = ReadNames(g) /\ gpc'[g] = gpc[g]
    BY <2>1 DEF ReadNames, Present, Taken, gcVars
  <2>3. ASSUME RetainDaily # NoDaily, NEW n \in Names, SoleNewest(n)' PROVE SoleNewest(n)
    <3>1. n \in Taken /\ stamp[n] >= now' - RetainDaily
      BY <2>1, <2>2, <2>3 DEF SoleNewest, Entrusted
    <3>2. stamp[n] >= now - RetainDaily
      BY <2>1, <2>3, <3>1, Times, RetainDailyAssumption
    <3> QED BY <2>1, <2>2, <2>3, <3>1, <3>2 DEF SoleNewest, Entrusted, SameDay
  <2> QED BY <2>1, <2>2, <2>3 DEF SoleInv, Spared, gcVars
<1> QED
  BY <1>1, CollectionSparesNewest, TakeSparesNewest DEF Next

(* A snapshot that is alone its day's newest stays until it is older than  *)
(* the daily period, though any number of gc-live and of removals run at   *)
(* once, as the lock cannot prevent: what they may disagree about is which *)
(* of several snapshots with one time to keep.                             *)
THEOREM NewestStays == Spec => []NewestKept
<1>1. TypeInv /\ KeptInv /\ SoleInv /\ [Next]_vars => (TypeInv /\ KeptInv /\ SoleInv)'
  BY TypeStep, KeptStep, SoleStep
<1>2. SoleInv => NewestKept
  BY DEF SoleInv, SoleNewest, NewestKept, Entrusted, Taken
<1> QED
  BY TypeInit, KeptInit, SoleInit, <1>1, <1>2, PTL DEF Spec

-----------------------------------------------------------------------------
(* The snapshots that nothing has happened to.                             *)
Kept(n) == n \in Present /\ n \notin condemned

(* Every collection is sound about these, so that their blobs are there.   *)
StoreInv ==
  /\ \A g \in GcRuns : PlanSound(g)
  /\ \A g \in GcRuns, n \in Names : Kept(n) => ViewSound(g, n)
  /\ \A n \in Names : Kept(n) => snapshots[n].refs \subseteq Stored

(* What the present restore has met with, if nothing else struck it: no    *)
(* error, as long as its snapshot is one of these.                         *)
RestoreSound ==
  /\ rpc # "idle" => target \in Taken
  /\ ~spoiled /\ Kept(target) =>
       /\ rpc # "failed"
       /\ rpc = "download" => wanted \subseteq snapshots[target].refs
       /\ rpc \in {"download", "attach"} => \A h \in wanted : outcome[h] # "error"
       /\ rpc = "read" => \A h \in Hashes : outcome[h] # "error"

LEMMA StoreInit == Init => StoreInv /\ RestoreSound
  BY DEF Init, GcInit, BucketInit, RestoreInit, StoreInv, RestoreSound, PlanSound, Kept, Present

(* A snapshot that still is one of these was one before, and as it was,    *)
(* unless the step is the backup that took it.                             *)
LEMMA StillKept ==
  ASSUME TypeInv, NEW g \in GcRuns, GcNext(g), NEW n \in Names, Kept(n)'
  PROVE  Kept(n) /\ snapshots'[n] = snapshots[n] /\ GcKeeps(g, n)
<1>t. BucketTypeOK
  BY DEF TypeInv, TypeOK
<1> USE DEF GcKeeps, Kept, Present
<1>1. ASSUME NEW m \in Names, RemoveManifest(g, m)
      PROVE  Kept(n) /\ snapshots'[n] = snapshots[n] /\ GcKeeps(g, n)
  BY <1>1, <1>t DEF RemoveManifest, GcDeleteManifest, DeleteManifest, BucketTypeOK, historyVars
<1>2. ASSUME NEW m \in Names, SkipManifest(g, m)
      PROVE  Kept(n) /\ snapshots'[n] = snapshots[n] /\ GcKeeps(g, n)
  BY <1>2 DEF SkipManifest, GcSkipManifest, bucketVars
<1>3. CASE Collect(g) \/ CollectStep(g) \/ Abort(g)
  <2>1. UNCHANGED snapshots
    BY <1>3 DEF Collect, CollectStep, Abort, RetentionStart, RetentionStep, RetentionAbort,
       GcStart, GcStep, GcAbort, GcReset, GcList, GcPlanScan, GcPlanRemoval, GcNothingToPrune,
       GcReadTarget, GcRead, GcManifestGone, GcFlush, GcFinish, GcScan, GcDeleteBlob, bucketVars
  <2> QED
    BY <1>3, <2>1
    DEF Collect, CollectStep, Abort, RetentionStart, RetentionStep, RetentionAbort, historyVars
<1>4. ASSUME NEW h \in Hashes, CallFails(g, h)
      PROVE  Kept(n) /\ snapshots'[n] = snapshots[n] /\ GcKeeps(g, n)
  BY <1>4 DEF CallFails, GcScanError, GcDeleteError, GcDeleteUnanswered, bucketVars
<1> QED
  BY <1>1, <1>2, <1>3, <1>4 DEF GcNext

LEMMA CollectionStores ==
  ASSUME TypeInv, StoreInv, NEW g \in GcRuns, GcNext(g)
  PROVE  StoreInv'
<1>t. BucketTypeOK /\ GcTypeOK
  BY DEF TypeInv, TypeOK
<1>a. GcAny(g) /\ UNCHANGED now
  BY GcNextIsAny
<1>o. OthersKeep(g)
  BY <1>a, <1>t, OthersUntouched
<1>1. \A f \in GcRuns : PlanSound(f)'
  BY <1>a, <1>o, <1>t, PlanKept DEF StoreInv, OthersKeep, PlanSound
<1>2. ASSUME NEW f \in GcRuns, NEW n \in Names, Kept(n)' PROVE ViewSound(f, n)'
  <2>1. Kept(n) /\ snapshots'[n] = snapshots[n] /\ GcKeeps(g, n) /\ n \in Present
    BY <1>2, StillKept DEF Kept
  <2>2. CASE f = g
    BY <1>t, <2>1, <2>2, ViewKept DEF StoreInv
  <2>3. CASE f # g
    BY <1>o, <2>1, <2>3 DEF StoreInv, ViewSound, OthersKeep
  <2> QED BY <2>2, <2>3
<1>3. ASSUME NEW n \in Names, Kept(n)' PROVE snapshots'[n].refs \subseteq Stored'
  <2>1. Kept(n) /\ snapshots'[n] = snapshots[n] /\ n \in Present
    BY <1>3, StillKept DEF Kept
  <2> QED BY <1>a, <1>t, <2>1, BlobsKept DEF StoreInv
<1> QED
  BY <1>1, <1>2, <1>3 DEF StoreInv

(* A backup stores what it does not find, and passes on what the snapshot  *)
(* before it lacks.                                                        *)
LEMMA BackupStores ==
  ASSUME TypeInv, StoreInv, NEW n \in Names, Take(n)
  PROVE  StoreInv'
<1>t. BucketTypeOK
  BY DEF TypeInv, TypeOK
<1>1. /\ \A g \in GcRuns : gpc'[g] = "idle" /\ PlanSound(g)'
      /\ condemned \subseteq condemned'
  BY DEF Take, Active, gcVars, StoreInv, PlanSound
<1>2. PICK b \in Backups : snapshots' = [snapshots EXCEPT ![n] = [refs |-> Content[n], by |-> b]]
  BY DEF Take, WriteManifest
<1>3. PICK r \in Replicas, found \in SUBSET Stored :
        /\ blobs' = [h \in Hashes |-> IF h \in Content[n] \ (KnownHashes(r) \cup found)
                                      THEN now ELSE blobs[h]]
        /\ condemned' = IF \E m \in condemned : IsLatest(r, m)
                        THEN condemned \cup {n} ELSE condemned
  BY DEF Take
<1>4. now \in Nat /\ Content[n] \subseteq Hashes
  BY <1>t, ContentAssumption, MaxTimeAssumption DEF BucketTypeOK
<1>5. Stored' = Stored \cup (Content[n] \ (KnownHashes(r) \cup found))
  BY <1>3, <1>4, AbsentAssumption DEF Stored
<1>6. ASSUME Kept(n)' PROVE snapshots'[n].refs \subseteq Stored'
  <2>1. \A m \in Names : IsLatest(r, m) => m \notin condemned
    BY <1>3, <1>6 DEF Kept
  <2>2. \A m \in Names : IsLatest(r, m) => snapshots[m].refs \subseteq Stored
    BY <2>1 DEF StoreInv, Kept, IsLatest
  <2>3. KnownHashes(r) \subseteq Stored
    BY <2>2 DEF KnownHashes, Present
  <2>4. snapshots'[n].refs = Content[n]
    BY <1>2, <1>t DEF BucketTypeOK
  <2> QED BY <1>4, <1>5, <2>3, <2>4
<1>7. ASSUME NEW m \in Names \ {n}, Kept(m)' PROVE snapshots'[m].refs \subseteq Stored'
  <2>1. snapshots'[m] = snapshots[m]
    BY <1>2, <1>t DEF BucketTypeOK
  <2>2. Kept(m)
    BY <1>1, <1>7, <2>1 DEF Kept, Present
  <2> QED BY <1>5, <2>1, <2>2 DEF StoreInv
<1>8. \A g \in GcRuns, m \in Names : ViewSound(g, m)'
  BY <1>1 DEF ViewSound
<1> QED
  BY <1>1, <1>6, <1>7, <1>8 DEF StoreInv

(* Beside the restore, a snapshot can only cease to be one of these.       *)
LEMMA RestoreUntouched ==
  ASSUME TypeInv, RestoreSound, UNCHANGED <<rpc, target, wanted, outcome, spoiled>>,
         \A n \in Taken : n \in Taken' /\ (Kept(n)' => Kept(n) /\ snapshots'[n] = snapshots[n])
  PROVE  RestoreSound'
<1>1. rpc' # "idle" => target' \in Taken'
  BY DEF RestoreSound
<1>2. ASSUME ~spoiled', Kept(target)', rpc # "idle"
      PROVE  ~spoiled /\ Kept(target) /\ snapshots'[target] = snapshots[target]
  <2>1. target \in Taken /\ target' = target
    BY <1>2 DEF RestoreSound
  <2>2. Kept(target)'
    BY <1>2
  <2>3. Kept(target) /\ snapshots'[target] = snapshots[target]
    BY <2>1, <2>2 DEF Kept, Present
  <2>4. ~spoiled
    BY <1>2, ZenonT(20)
  <2> QED BY <2>3, <2>4, ZenonT(20)
<1> QED
  BY <1>1, <1>2 DEF RestoreSound

LEMMA RestoreMeets ==
  ASSUME TypeInv, StoreInv, RestoreSound, RestoreNext
  PROVE  RestoreSound'
<1>a. /\ UNCHANGED <<bucketVars, retentionVars, condemned>>
      /\ Taken' = Taken /\ Kept(target)' = (target' \in Present /\ target' \notin condemned)
  BY RestoreNextIsAny DEF bucketVars, retentionVars, Taken, Kept, Present
<1>1. ASSUME NEW n \in Names, StartRestore(n) PROVE RestoreSound'
  BY <1>1, <1>a DEF StartRestore, RestoreStart, NoOutcome, RestoreSound, Taken
<1>2. CASE MeetsCut \/ RestoreFault
  <2>1. spoiled' = TRUE
    BY <1>2 DEF MeetsCut, RestoreFault
  <2>2. target' = target /\ (rpc' # "idle" => rpc # "idle")
    BY <1>2 DEF MeetsCut, RestoreFault, RestoreCrash, Restoring, RestoreExtractFails,
       RestoreAttach, RestoreAttachFails
  <2> QED BY <1>a, <2>1, <2>2 DEF RestoreSound
<1>3. CASE RestoreStep
  <2>1. spoiled' = spoiled /\ target' = target
    BY <1>3 DEF RestoreStep, RestoreRead, RestoreManifestGone, RestoreCollected,
       RestoreAttached, RestoreGet, RestoreExtract, RestoreAttach, historyVars
  <2>2. rpc # "idle"
    BY <1>3 DEF RestoreStep, RestoreRead, RestoreManifestGone, RestoreCollected,
       RestoreAttached, RestoreGet, RestoreExtract, RestoreAttach
  <2>3. target \in Taken
    BY <2>2 DEF RestoreSound
  <2> SUFFICES ASSUME ~spoiled, target \in Present, Kept(target)
               PROVE  /\ rpc' # "failed"
                      /\ rpc' = "download" => wanted' \subseteq snapshots[target].refs
                      /\ rpc' \in {"download", "attach"} =>
                            \A h \in wanted' : outcome'[h] # "error"
                      /\ rpc' = "read" => \A h \in Hashes : outcome'[h] # "error"
    BY <1>a, <2>1, <2>3, ZenonT(30) DEF RestoreSound, Kept, bucketVars
  <2>4. /\ rpc = "download" => wanted \subseteq snapshots[target].refs
        /\ rpc \in {"download", "attach"} => \A h \in wanted : outcome[h] # "error"
        /\ rpc = "read" => \A h \in Hashes : outcome[h] # "error"
        /\ wanted \subseteq Hashes /\ outcome \in [Hashes -> Outcome]
    BY DEF RestoreSound, TypeInv, TypeOK, RestoreTypeOK
  <2>5. CASE RestoreRead
    <3>1. snapshots[target].refs \subseteq Hashes
      BY DEF TypeInv, TypeOK, BucketTypeOK, Manifest, Present
    <3> QED BY <2>4, <2>5, <3>1 DEF RestoreRead
  <2>6. CASE RestoreManifestGone
    BY <2>6 DEF RestoreManifestGone
  <2>7. CASE RestoreCollected
    BY <2>4, <2>7 DEF RestoreCollected, NoOutcome
  <2>8. CASE RestoreAttached
    BY <2>4, <2>8 DEF RestoreAttached
  <2>9. ASSUME NEW h \in Hashes, RestoreGet(h) \/ RestoreExtract(h) \/ RestoreAttach(h, "ok")
        PROVE  /\ UNCHANGED <<rpc, wanted>> /\ rpc \in {"download", "attach"}
               /\ \A k \in wanted : outcome'[k] # "error"
    <3>1. CASE RestoreGet(h)
      <4>1. h \in Stored
        BY <2>4, <3>1 DEF RestoreGet, StoreInv, Present
      <4>2. ending[h] # "error"
        BY DEF TypeInv, TypeOK, RestoreTypeOK, Ending
      <4> QED BY <2>4, <3>1, <4>1, <4>2 DEF RestoreGet
    <3>2. CASE RestoreExtract(h)
      BY <2>4, <3>2 DEF RestoreExtract
    <3>3. CASE RestoreAttach(h, "ok")
      BY <2>4, <3>3 DEF RestoreAttach
    <3> QED BY <2>9, <3>1, <3>2, <3>3
  <2> QED
    BY <1>3, <2>4, <2>5, <2>6, <2>7, <2>8, <2>9 DEF RestoreStep
<1> QED
  BY <1>1, <1>2, <1>3 DEF RestoreNext

LEMMA StoreStep ==
  TypeInv /\ StoreInv /\ RestoreSound /\ [Next]_vars => StoreInv' /\ RestoreSound'
<1> SUFFICES ASSUME TypeInv, StoreInv, RestoreSound, [Next]_vars
             PROVE  StoreInv' /\ RestoreSound'
  OBVIOUS
<1>1. ASSUME NEW n \in Names, Take(n) PROVE StoreInv' /\ RestoreSound'
  <2>1. /\ UNCHANGED <<rpc, target, wanted, outcome, spoiled>>
        /\ n \notin Taken /\ condemned \subseteq condemned'
    BY <1>1 DEF Take
  <2>2. \A m \in Names \ {n} : stamp'[m] = stamp[m] /\ snapshots'[m] = snapshots[m]
    BY <1>1 DEF Take, WriteManifest, TypeInv, TypeOK, BucketTypeOK, RetentionTypeOK
  <2>3. \A m \in Taken :
          m \in Taken' /\ (Kept(m)' => Kept(m) /\ snapshots'[m] = snapshots[m])
    BY <2>1, <2>2 DEF Taken, Kept, Present
  <2> QED BY <1>1, <2>1, <2>3, BackupStores, RestoreUntouched
<1>2. ASSUME NEW g \in GcRuns, GcNext(g) PROVE StoreInv' /\ RestoreSound'
  <2>1. UNCHANGED <<stamp, restoreVars, spoiled>>
    BY <1>2, GcNextIsAny
  <2>2. \A m \in Taken :
          m \in Taken' /\ (Kept(m)' => Kept(m) /\ snapshots'[m] = snapshots[m])
    BY <1>2, <2>1, StillKept DEF Taken
  <2> QED BY <1>2, <2>1, <2>2, CollectionStores, RestoreUntouched DEF restoreVars
<1>3. CASE RestoreNext
  <2>1. UNCHANGED <<bucketVars, gcVars, condemned>>
    BY <1>3, RestoreNextIsAny
  <2>2. StoreInv'
    BY <2>1 DEF StoreInv, Kept, Present, Stored, PlanSound, ViewSound, bucketVars, gcVars
  <2> QED BY <1>3, <2>2, RestoreMeets
<1>4. CASE Tick \/ UNCHANGED vars
  <2>1. UNCHANGED <<bucketVars, gcVars, retentionVars, restoreVars, historyVars>>
    BY <1>4 DEF Tick, vars
  <2>2. StoreInv'
    BY <2>1 DEF StoreInv, Kept, Present, Stored, PlanSound, ViewSound, bucketVars, gcVars,
       historyVars
  <2>3. \A m \in Taken :
          m \in Taken' /\ (Kept(m)' => Kept(m) /\ snapshots'[m] = snapshots[m])
    BY <2>1 DEF Taken, Kept, Present, bucketVars, retentionVars, historyVars
  <2> QED BY <2>1, <2>2, <2>3, RestoreUntouched DEF restoreVars, historyVars
<1> QED
  BY <1>1, <1>2, <1>3, <1>4 DEF Next

(* A restore none of whose own calls failed, and none of whose archives    *)
(* was cut, fails only if its snapshot is gone, or pruning failed to       *)
(* delete its manifest or one it relies on: whatever collections run       *)
(* beside it, any number of them and at once, remove other snapshots that  *)
(* share its blobs without harm to it.                                     *)
THEOREM RestoreFailsRightly == Spec => []RestoreFailsForAReason
<1>1. TypeInv /\ StoreInv /\ RestoreSound /\ [Next]_vars
      => (TypeInv /\ StoreInv /\ RestoreSound)'
  BY TypeStep, StoreStep
<1>2. RestoreSound => RestoreFailsForAReason
  BY DEF RestoreSound, RestoreFailsForAReason, Kept
<1> QED
  BY TypeInit, StoreInit, <1>1, <1>2, PTL DEF Spec

-----------------------------------------------------------------------------
(* What the restore has chosen and not attached it has extracted, and will *)
(* not attach before it has extracted it all; fresh or not, it writes only *)
(* what it has chosen, where --attach says.                                *)
Chosen ==
  /\ rpc = "read" => wanted = {}
  /\ Restoring => \A h \in Hashes \ wanted : outcome[h] = "none"
  /\ \A h \in Hashes \ wanted : attached[h] = held[h]

Downloads ==
  rpc \in {"read", "download"} =>
    \A h \in Hashes :
      /\ attached[h] = held[h]
      /\ h \in wanted /\ outcome[h] = "ok" => output[attaching][h] = "whole"

Attaches ==
  rpc = "attach" =>
    /\ attaching = TRUE
    /\ \A h \in wanted :
         CASE outcome[h] = "none" -> attached[h] = held[h] /\ output[TRUE][h] = "whole"
           [] outcome[h] = "ok"   -> attached[h] = held[h] + 1 /\ output[TRUE][h] = "none"
           [] OTHER -> attached[h] = held[h] + 1 \/ output[TRUE][h] = "whole"

Elsewhere ==
  fresh = TRUE => \A a \in BOOLEAN, h \in Hashes :
             a # attaching \/ h \notin wanted => output[a][h] = "none"

AttachInv ==
  Chosen /\ Downloads /\ Attaches /\ Elsewhere /\ AttachedTogether /\ RestoredExactly

(* The effect of a step on the directories: one part's at most.            *)
LEMMA OneDirectory ==
  ASSUME RestoreTypeOK, NEW h \in Hashes, NEW v,
         output' = [output EXCEPT ![attaching][h] = v]
  PROVE  /\ output'[attaching][h] = v
         /\ \A k \in Hashes \ {h} : output'[attaching][k] = output[attaching][k]
         /\ \A a \in BOOLEAN, k \in Hashes :
              a # attaching => output'[a][k] = output[a][k]
<1>1. /\ attaching \in BOOLEAN
      /\ output \in [BOOLEAN -> [Hashes -> {"none", "partial"} \cup Ending]]
  BY DEF RestoreTypeOK
<1> QED
  BY <1>1

LEMMA AttachInit == TypeInv /\ Init => AttachInv
<1> SUFFICES ASSUME TypeInv, Init PROVE AttachInv
  OBVIOUS
<1>1. /\ rpc = "idle" /\ attached = held /\ wanted = {}
      /\ \A a \in BOOLEAN, h \in Hashes : output[a][h] = "none"
  BY DEF Init, RestoreInit
<1> QED
  BY <1>1
  DEF AttachInv, Chosen, Downloads, Attaches, Elsewhere, AttachedTogether, RestoredExactly, Restoring

(* A step that changes nothing of these but, perhaps, ends the restore.    *)
LEMMA AttachUntouched ==
  ASSUME AttachInv, UNCHANGED <<attaching, wanted, outcome, output, attached, fresh, held>>,
         rpc' = rpc \/ rpc' = "failed"
  PROVE  AttachInv'
<1>1. Chosen' /\ Downloads' /\ Attaches'
  BY DEF AttachInv, Chosen, Downloads, Attaches, Restoring
<1>2. Elsewhere' /\ AttachedTogether'
  BY DEF AttachInv, Elsewhere, AttachedTogether
<1>3. RestoredExactly'
  BY DEF AttachInv, RestoredExactly
<1> QED
  BY <1>1, <1>2, <1>3 DEF AttachInv

(* While it downloads.                                                     *)
LEMMA DownloadKeeps ==
  ASSUME TypeInv, AttachInv, UNCHANGED <<attaching, wanted, attached, fresh, held>>,
         rpc = "download", rpc' = "download", NEW h \in wanted, NEW v, NEW w,
         outcome' = [outcome EXCEPT ![h] = w], w = "ok" => v = "whole",
         output' = [output EXCEPT ![attaching][h] = v]
  PROVE  AttachInv'
<1>t. RestoreTypeOK /\ h \in Hashes
  BY DEF TypeInv, TypeOK, RestoreTypeOK
<1>1. /\ output'[attaching][h] = v
      /\ \A k \in Hashes \ {h} : output'[attaching][k] = output[attaching][k]
      /\ \A a \in BOOLEAN, k \in Hashes : a # attaching => output'[a][k] = output[a][k]
  BY <1>t, OneDirectory
<1>2. /\ outcome'[h] = w
      /\ \A k \in Hashes \ {h} : outcome'[k] = outcome[k]
  BY <1>t DEF RestoreTypeOK
<1>3. Chosen'
  BY <1>2 DEF AttachInv, Chosen, Restoring
<1>4. Downloads'
  BY <1>1, <1>2 DEF AttachInv, Downloads
<1>5. Attaches' /\ RestoredExactly'
  BY DEF Attaches, RestoredExactly
<1>6. Elsewhere'
  BY <1>1 DEF AttachInv, Elsewhere
<1>7. AttachedTogether'
  BY <1>t DEF AttachInv, Downloads, AttachedTogether, RestoreTypeOK
<1> QED
  BY <1>3, <1>4, <1>5, <1>6, <1>7 DEF AttachInv

(* While it attaches.                                                      *)
LEMMA AttachKeeps ==
  ASSUME TypeInv, AttachInv, NEW h \in Hashes, NEW result \in {"ok", "error"},
         RestoreAttach(h, result), UNCHANGED <<fresh, held>>
  PROVE  AttachInv'
<1>t. RestoreTypeOK /\ held \in [Hashes -> 0..MaxRestores]
  BY DEF TypeInv, TypeOK
<1>a. /\ rpc = "attach" /\ rpc' = "attach" /\ h \in wanted /\ outcome[h] = "none"
      /\ wanted' = wanted /\ attaching' = attaching
      /\ attached'[h] = attached[h] + 1 /\ outcome'[h] = result
      /\ \A k \in Hashes \ {h} : attached'[k] = attached[k] /\ outcome'[k] = outcome[k]
  BY <1>t DEF RestoreAttach, RestoreTypeOK
<1>1. /\ output'[attaching][h] = "none"
      /\ \A k \in Hashes \ {h} : output'[attaching][k] = output[attaching][k]
      /\ \A a \in BOOLEAN, k \in Hashes : a # attaching => output'[a][k] = output[a][k]
  BY <1>t, OneDirectory DEF RestoreAttach
<1>2. attaching = TRUE /\ wanted \subseteq Hashes
  BY <1>a, <1>t DEF AttachInv, Attaches, RestoreTypeOK
<1>n. \A k \in Hashes : held[k] \in Nat
  BY <1>t, MaxRestoresAssumption
<1>3. Chosen'
  BY <1>a DEF AttachInv, Chosen, Restoring
<1>4. Downloads' /\ RestoredExactly'
  BY <1>a DEF Downloads, RestoredExactly
<1>b. /\ output'[TRUE][h] = "none"
      /\ \A k \in Hashes \ {h} : output'[TRUE][k] = output[TRUE][k]
  BY <1>1, <1>2
<1>5. Attaches'
  <2>1. attaching' = TRUE
    BY <1>a, <1>2, ZenonT(20)
  <2>2. attached[h] = held[h]
    BY <1>a DEF AttachInv, Attaches
  <2>3. ASSUME NEW k \in wanted, k # h
        PROVE  CASE outcome'[k] = "none" -> attached'[k] = held[k] /\ output'[TRUE][k] = "whole"
                 [] outcome'[k] = "ok"   -> attached'[k] = held[k] + 1 /\ output'[TRUE][k] = "none"
                 [] OTHER -> attached'[k] = held[k] + 1 \/ output'[TRUE][k] = "whole"
    <3>1. /\ attached'[k] = attached[k] /\ outcome'[k] = outcome[k]
          /\ output'[TRUE][k] = output[TRUE][k]
      BY <1>a, <1>b, <1>2, <2>3
    <3> QED BY <1>a, <2>3, <3>1 DEF AttachInv, Attaches
  <2>4. /\ outcome'[h] \in {"ok", "error"}
        /\ attached'[h] = held[h] + 1 /\ output'[TRUE][h] = "none"
    BY <1>a, <1>b, <2>2
  <2> QED BY <1>a, <2>1, <2>3, <2>4 DEF Attaches
<1>6. Elsewhere'
  BY <1>a, <1>1 DEF AttachInv, Elsewhere
<1>7. AttachedTogether'
  <2>1. ASSUME NEW k \in wanted
        PROVE  attached'[k] # held'[k] \/ output'[TRUE][k] = "whole"
    <3>1. attached'[k] = held'[k] + 1 \/ output'[TRUE][k] = "whole"
      BY <1>5, <1>a DEF Attaches
    <3>2. held'[k] + 1 # held'[k]
      <4>1. held[k] \in Nat /\ held'[k] = held[k]
        BY <1>n, <1>2
      <4> QED BY ONLY <4>1
    <3> QED BY <3>1, <3>2, ZenonT(20)
  <2> QED BY <1>a, <2>1 DEF AttachedTogether
<1> QED
  BY <1>3, <1>4, <1>5, <1>6, <1>7 DEF AttachInv

(* The manifest is read, or the downloads have ended, or the attaching.    *)
LEMMA ReadKeeps ==
  ASSUME TypeInv, AttachInv, RestoreRead, UNCHANGED <<fresh, held>>
  PROVE  AttachInv'
<1>t. wanted' \subseteq Hashes /\ RestoreTypeOK
  <2>1. snapshots[target] \in Manifest
    BY DEF RestoreRead, TypeInv, TypeOK, BucketTypeOK, Present
  <2> QED BY <2>1 DEF RestoreRead, TypeInv, TypeOK, Manifest
<1>a. /\ rpc = "read" /\ rpc' = (IF wanted' = {} THEN "done" ELSE "download") /\ wanted = {}
      /\ UNCHANGED <<attaching, outcome, output, attached, fresh, held>>
  BY DEF RestoreRead, AttachInv, Chosen
<1>1. \A h \in Hashes : outcome'[h] = "none" /\ attached'[h] = held'[h]
  BY <1>a DEF AttachInv, Chosen, Restoring
<1>2. Chosen' /\ Downloads' /\ Attaches' /\ AttachedTogether'
  BY <1>t, <1>a, <1>1 DEF Chosen, Downloads, Attaches, AttachedTogether
<1>3. fresh = TRUE => \A a \in BOOLEAN, h \in Hashes : output'[a][h] = "none"
  BY <1>a DEF AttachInv, Elsewhere
<1>4. Elsewhere'
  BY <1>a, <1>3 DEF Elsewhere
<1>5. RestoredExactly'
  <2>1. fresh' => fresh = TRUE
    BY <1>a, <1>t, ZenonT(20) DEF TypeInv, TypeOK
  <2>2. ASSUME rpc' = "done" PROVE \A h \in Hashes :
          attached'[h] = held'[h] + (IF h \in wanted' /\ attaching' THEN 1 ELSE 0)
    <3>1. wanted' = {}
      BY <2>2, <1>a
    <3>2. \A h \in Hashes : held'[h] \in Nat
      BY <1>a, MaxRestoresAssumption DEF TypeInv, TypeOK
    <3> QED BY <1>1, <3>1, <3>2
  <2> QED BY <1>a, <1>3, <2>1, <2>2 DEF RestoredExactly
<1> QED
  BY <1>2, <1>4, <1>5 DEF AttachInv

LEMMA CollectedKeeps ==
  ASSUME TypeInv, AttachInv, RestoreCollected, UNCHANGED <<fresh, held>>
  PROVE  AttachInv'
<1>t. wanted \subseteq Hashes /\ attaching \in BOOLEAN /\ fresh \in BOOLEAN
  BY DEF TypeInv, TypeOK, RestoreTypeOK
<1>a. /\ rpc = "download" /\ rpc' \in {"failed", "attach", "done"}
      /\ rpc' = "attach" => attaching = TRUE
      /\ rpc' = "done" => attaching = FALSE
      /\ rpc' # "failed" => \A h \in wanted : outcome[h] = "ok"
      /\ outcome' = NoOutcome
      /\ UNCHANGED <<attaching, wanted, output, attached, fresh, held>>
  BY <1>t DEF RestoreCollected
<1>1. \A h \in Hashes : outcome'[h] = "none" /\ attached'[h] = held'[h]
  BY <1>a DEF AttachInv, Downloads, NoOutcome
<1>2. rpc' # "failed" => \A h \in wanted : output[attaching][h] = "whole"
  BY <1>a, <1>t DEF AttachInv, Downloads
<1>3. Chosen' /\ Downloads' /\ AttachedTogether'
  BY <1>t, <1>a, <1>1 DEF Chosen, Downloads, AttachedTogether
<1>4. Attaches'
  <2>1. rpc' = "attach" => \A h \in wanted : output'[TRUE][h] = "whole"
    BY <1>a, <1>2
  <2> QED BY <1>t, <1>a, <1>1, <2>1 DEF Attaches
<1>5. Elsewhere'
  BY <1>a DEF AttachInv, Elsewhere
<1>6. RestoredExactly'
  <2> SUFFICES ASSUME rpc' = "done", fresh' = TRUE
               PROVE  /\ \A h \in Hashes :
                           IF h \in wanted THEN output[FALSE][h] = "whole"
                                           ELSE output[FALSE][h] = "none"
                      /\ \A h \in Hashes : output[TRUE][h] = "none"
                      /\ \A h \in Hashes : attached'[h] = held'[h] + 0
    BY <1>a, <1>t, ZenonT(30) DEF RestoredExactly
  <2>1. attaching = FALSE /\ fresh = TRUE
    BY <1>a
  <2>2. \A h \in Hashes : held'[h] \in Nat
    BY <1>a, MaxRestoresAssumption DEF TypeInv, TypeOK
  <2>3. \A h \in Hashes : output[TRUE][h] = "none"
    BY <2>1 DEF AttachInv, Elsewhere
  <2>4. \A h \in Hashes : IF h \in wanted THEN output[FALSE][h] = "whole"
                                        ELSE output[FALSE][h] = "none"
    BY <1>a, <1>2, <2>1 DEF AttachInv, Elsewhere
  <2>5. \A h \in Hashes : attached'[h] = held'[h] + 0
    <3>1. TAKE h \in Hashes
    <3>2. held'[h] \in Nat /\ attached'[h] = held'[h]
      BY <1>1, <2>2
    <3> QED BY ONLY <3>2
  <2> QED BY <2>3, <2>4, <2>5
<1> QED
  BY <1>3, <1>4, <1>5, <1>6 DEF AttachInv

LEMMA AttachedKeeps ==
  ASSUME TypeInv, AttachInv, RestoreAttached, UNCHANGED <<fresh, held>>
  PROVE  AttachInv'
<1>t. wanted \subseteq Hashes /\ attaching \in BOOLEAN /\ fresh \in BOOLEAN
  BY DEF TypeInv, TypeOK, RestoreTypeOK
<1>a. /\ rpc = "attach" /\ rpc' \in {"failed", "done"}
      /\ rpc' = "done" => \A h \in wanted : outcome[h] = "ok"
      /\ UNCHANGED <<attaching, wanted, outcome, output, attached, fresh, held>>
  BY DEF RestoreAttached
<1>1. Chosen' /\ Downloads' /\ Attaches' /\ AttachedTogether' /\ Elsewhere'
  BY <1>a
  DEF AttachInv, Chosen, Downloads, Attaches, AttachedTogether, Elsewhere, Restoring
<1>2. RestoredExactly'
  <2> SUFFICES ASSUME rpc' = "done", fresh' = TRUE
               PROVE  /\ \A h \in Hashes : output[FALSE][h] = "none"
                      /\ \A h \in Hashes : output[TRUE][h] = "none"
                      /\ \A h \in Hashes :
                           attached'[h] = held'[h] + (IF h \in wanted THEN 1 ELSE 0)
                      /\ attaching = TRUE
    BY <1>a, <1>t, ZenonT(30) DEF RestoredExactly
  <2>1. attaching = TRUE /\ fresh = TRUE
    BY <1>a DEF AttachInv, Attaches
  <2>2. \A h \in Hashes : held[h] \in Nat
    BY MaxRestoresAssumption DEF TypeInv, TypeOK
  <2>3. \A h \in wanted : attached[h] = held[h] + 1 /\ output[TRUE][h] = "none"
    BY <1>a DEF AttachInv, Attaches
  <2>4. \A h \in Hashes : output[FALSE][h] = "none" /\ (h \notin wanted => output[TRUE][h] = "none")
    BY <2>1 DEF AttachInv, Elsewhere
  <2>5. \A h \in Hashes \ wanted : attached[h] = held[h]
    BY DEF AttachInv, Chosen
  <2>6. \A h \in Hashes : attached'[h] = held'[h] + (IF h \in wanted THEN 1 ELSE 0)
    <3>1. TAKE h \in Hashes
    <3>2. attached'[h] = attached[h] /\ held'[h] = held[h] /\ held[h] \in Nat
      BY <1>a, <2>2
    <3>3. CASE h \in wanted
      <4>1. attached[h] = held[h] + 1
        BY <2>3, <3>3
      <4> QED BY ONLY <3>2, <3>3, <4>1
    <3>4. CASE h \notin wanted
      <4>1. attached[h] = held[h]
        BY <2>5, <3>4
      <4> QED BY ONLY <3>2, <3>4, <4>1
    <3> QED BY <3>3, <3>4
  <2> QED BY <2>1, <2>3, <2>4, <2>6
<1> QED
  BY <1>1, <1>2 DEF AttachInv

LEMMA StartKeeps ==
  ASSUME NEW n \in Names, StartRestore(n)
  PROVE  AttachInv'
<1>a. /\ rpc' = "read" /\ wanted' = {} /\ outcome' = NoOutcome
      /\ held' = attached' /\ output' = output
  BY DEF StartRestore, RestoreStart
<1>1. Chosen' /\ Downloads' /\ Attaches' /\ AttachedTogether' /\ RestoredExactly'
  BY <1>a
  DEF Chosen, Downloads, Attaches, AttachedTogether, RestoredExactly, Restoring, NoOutcome
<1>2. fresh' = TRUE => OutputEmpty
  BY ZenonT(20) DEF StartRestore
<1>3. Elsewhere'
  BY <1>a, <1>2 DEF Elsewhere, OutputEmpty
<1> QED
  BY <1>1, <1>3 DEF AttachInv

LEMMA AttachStep == TypeInv /\ AttachInv /\ [Next]_vars => AttachInv'
<1> SUFFICES ASSUME TypeInv, AttachInv, [Next]_vars PROVE AttachInv'
  OBVIOUS
<1>t. RestoreTypeOK
  BY DEF TypeInv, TypeOK
<1>1. CASE UNCHANGED <<rpc, attaching, wanted, outcome, output, attached, fresh, held>>
  BY <1>1, AttachUntouched
<1>2. CASE RestoreNext /\ ~\E n \in Names : StartRestore(n)
  <2>a. RestoreAny /\ UNCHANGED <<fresh, held>>
    BY <1>2, RestoreNextIsAny
    DEF RestoreNext, RestoreStep, MeetsCut, RestoreFault, historyVars
  <2>1. CASE RestoreRead
    BY <2>1, <2>a, ReadKeeps
  <2>2. CASE RestoreCollected
    BY <2>2, <2>a, CollectedKeeps
  <2>3. CASE RestoreAttached
    BY <2>3, <2>a, AttachedKeeps
  <2>4. CASE RestoreManifestGone \/ RestoreCrash
    BY <2>4, <2>a, AttachUntouched DEF RestoreManifestGone, RestoreCrash
  <2>5. ASSUME NEW h \in Hashes, RestoreGet(h) PROVE AttachInv'
    <3>1. PICK v : output' = [output EXCEPT ![attaching][h] = v]
      <4>1. attaching \in BOOLEAN
        BY <1>t DEF RestoreTypeOK
      <4> QED
        BY <2>5, <4>1 DEF RestoreGet
    <3>2. \E w : w # "ok" /\ outcome' = [outcome EXCEPT ![h] = w]
      BY <2>5, <1>t DEF RestoreGet, RestoreTypeOK, Ending
    <3> QED BY <2>a, <2>5, <3>1, <3>2, DownloadKeeps DEF RestoreGet
  <2>6. ASSUME NEW h \in Hashes, RestoreExtract(h) PROVE AttachInv'
    <3>1. h \in wanted
      BY <2>6 DEF RestoreExtract, Extractable, AttachInv, Chosen, Restoring
    <3> QED
      BY <2>a, <2>6, <3>1, DownloadKeeps DEF RestoreExtract, Extractable
  <2>7. ASSUME NEW h \in Hashes, RestoreExtractFails(h) PROVE AttachInv'
    <3>1. h \in wanted
      BY <2>7 DEF RestoreExtractFails, Streaming, Ending, AttachInv, Chosen, Restoring
    <3>2. output' = [output EXCEPT ![attaching][h] = output[attaching][h]]
      BY <2>7, <1>t DEF RestoreExtractFails, RestoreTypeOK
    <3>3. /\ outcome' = [outcome EXCEPT ![h] = "error"] /\ rpc = "download"
          /\ UNCHANGED <<rpc, attaching, wanted, attached>>
      BY <2>7 DEF RestoreExtractFails
    <3> DEFINE v == output[attaching][h]
    <3>4. output' = [output EXCEPT ![attaching][h] = v]
      BY <3>2
    <3> HIDE DEF v
    <3> QED BY <2>a, <3>1, <3>3, <3>4, DownloadKeeps
  <2>8. ASSUME NEW h \in Hashes, NEW result \in {"ok", "error"}, RestoreAttach(h, result)
        PROVE  AttachInv'
    BY <2>8, <2>a, AttachKeeps
  <2>9. ASSUME NEW h \in Hashes, RestoreAttachFails(h) PROVE AttachInv'
    <3>1. Chosen' /\ Downloads' /\ RestoredExactly'
      BY <2>9, <2>a, <1>t
      DEF RestoreAttachFails, RestoreTypeOK, AttachInv, Chosen, Downloads, RestoredExactly, Restoring
    <3>2. Elsewhere' /\ AttachedTogether'
      BY <2>9, <2>a DEF RestoreAttachFails, AttachInv, Elsewhere, AttachedTogether
    <3>3. Attaches'
      BY <2>9, <2>a, <1>t DEF RestoreAttachFails, RestoreTypeOK, AttachInv, Attaches
    <3> QED BY <3>1, <3>2, <3>3 DEF AttachInv
  <2> QED
    BY <2>a, <2>1, <2>2, <2>3, <2>4, <2>5, <2>6, <2>7, <2>8, <2>9 DEF RestoreAny
<1>3. UNCHANGED <<rpc, attaching, wanted, outcome, output, attached, fresh, held>> \/ RestoreNext
  <2>1. ASSUME NEW g \in GcRuns, GcNext(g)
        PROVE  UNCHANGED <<rpc, attaching, wanted, outcome, output, attached, fresh, held>>
    BY <2>1, GcNextIsAny DEF restoreVars
  <2> QED
    BY <2>1 DEF Next, Tick, Take, vars, restoreVars, historyVars
<1> QED
  BY <1>1, <1>2, <1>3, StartKeeps

(* A restore attaches nothing before it has extracted all it chose.        *)
THEOREM AttachesTogether == Spec => []AttachedTogether
<1>1. TypeInv /\ AttachInv /\ [Next]_vars => (TypeInv /\ AttachInv)'
  BY TypeStep, AttachStep
<1>2. Init => TypeInv /\ AttachInv
  BY TypeInit, AttachInit
<1>3. AttachInv => AttachedTogether
  BY DEF AttachInv
<1> QED
  BY <1>1, <1>2, <1>3, PTL DEF Spec

(* A restore that succeeds has restored what it chose, from archives of    *)
(* which no entry is cut, and nothing else.                                *)
THEOREM RestoresExactly == Spec => []RestoredExactly
<1>1. TypeInv /\ AttachInv /\ [Next]_vars => (TypeInv /\ AttachInv)'
  BY TypeStep, AttachStep
<1>2. Init => TypeInv /\ AttachInv
  BY TypeInit, AttachInit
<1>3. AttachInv => RestoredExactly
  BY DEF AttachInv
<1> QED
  BY <1>1, <1>2, <1>3, PTL DEF Spec
=============================================================================
