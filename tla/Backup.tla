------------------------------- MODULE Backup -------------------------------
(***************************************************************************)
(* A backup run (snapshots.rs, create_snapshot) as the bucket sees it: it  *)
(* lists the manifests, reads the latest one of its own replica, checks    *)
(* with HEAD which large blobs exist, uploads what is left and writes its  *)
(* manifest.  It takes no lock.  Staging on the local disk is abstracted   *)
(* to its outcome: the list of parts that the run finally backs up.        *)
(***************************************************************************)
EXTENDS Bucket

CONSTANTS
  NameOf,       \* NameOf[b]: the snapshot name of run b
  RunReplica,   \* RunReplica[b]: the identity run b resolves
  PartLists,    \* the parts lists a query may return, as sets of hashes
  Large,        \* hashes of at least HEAD_CHECK_THRESHOLD bytes
  MaxBackup,    \* timing assumption: a run is over within this time
  LastStart     \* bound: no run begins after this time

ASSUME NameOfAssumption == NameOf \in [Backups -> Names]
ASSUME RunReplicaAssumption == RunReplica \in [Backups -> Replicas]
ASSUME PartListsAssumption == PartLists \subseteq SUBSET Hashes
ASSUME LargeAssumption == Large \subseteq Hashes
ASSUME MaxBackupAssumption == MaxBackup \in Nat

VARIABLES
  bpc,          \* bpc[b]: where run b is
  started,      \* time at which the run began
  base,         \* latest manifest of the replica, as listed, or Absent
  parts,        \* hashes of the current parts list
  known,        \* known_hashes: the blobs the base manifest references
  toHead,       \* hashes whose HEAD check has not returned
  found,        \* head_skipped: hashes that a HEAD check found
  uploaded      \* hashes the run has uploaded

backupVars == <<bpc, started, base, parts, known, toHead, found, uploaded>>

BackupPc == {"idle", "base", "stage", "upload", "done", "failed"}

BackupTypeOK ==
  /\ bpc \in [Backups -> BackupPc]
  /\ started \in [Backups -> 0..MaxTime]
  /\ base \in [Backups -> Names \cup {Absent}]
  /\ parts \in [Backups -> SUBSET Hashes]
  /\ known \in [Backups -> SUBSET Hashes]
  /\ toHead \in [Backups -> SUBSET Hashes]
  /\ found \in [Backups -> SUBSET Hashes]
  /\ uploaded \in [Backups -> SUBSET Hashes]

BackupInit ==
  /\ bpc = [b \in Backups |-> "idle"]
  /\ started = [b \in Backups |-> 0]
  /\ base = [b \in Backups |-> Absent]
  /\ parts = [b \in Backups |-> {}]
  /\ known = [b \in Backups |-> {}]
  /\ toHead = [b \in Backups |-> {}]
  /\ found = [b \in Backups |-> {}]
  /\ uploaded = [b \in Backups |-> {}]

Running(b) == bpc[b] \in {"base", "stage", "upload"}

(* The manifests of the run's own replica that a listing returns now. *)
OwnManifests(b) == {n \in Present : Replica[n] = RunReplica[b]}

(* The hashes that run b must put in the bucket itself: parts_to_upload,   *)
(* less those a HEAD check found.                                          *)
NeedUpload(b) == (parts[b] \ known[b]) \ found[b]

(* query_active_parts, then the listing of load_known_from_latest_manifest: *)
(* the latest own manifest, by name, becomes the base.  Without one the     *)
(* HEAD checks of all large parts are spawned at once.                      *)
BackupStart(b) ==
  /\ bpc[b] = "idle"
  /\ now <= LastStart
  /\ started' = [started EXCEPT ![b] = now]
  /\ \E P \in PartLists : 
        /\ parts' = [parts EXCEPT ![b] = P]
        /\ \/ /\ OwnManifests(b) = {}
              /\ bpc' = [bpc EXCEPT ![b] = "stage"]
              /\ toHead' = [toHead EXCEPT ![b] = P \cap Large]
              /\ UNCHANGED base
           \/ /\ \E n \in OwnManifests(b) :
                    /\ \A m \in OwnManifests(b) : m <= n
                    /\ base' = [base EXCEPT ![b] = n]
              /\ bpc' = [bpc EXCEPT ![b] = "base"]
              /\ UNCHANGED toHead
  /\ UNCHANGED <<bucketVars, known, found, uploaded>>

(* read_manifest(latest).  If a GC run deleted it since the listing the    *)
(* read fails, and the run with it (BackupFail).                           *)
BackupReadBase(b) ==
  /\ bpc[b] = "base"
  /\ base[b] \in Present
  /\ known' = [known EXCEPT ![b] = snapshots[base[b]].refs]
  /\ toHead' = [toHead EXCEPT
                  ![b] = (parts[b] \cap Large) \ snapshots[base[b]].refs]
  /\ bpc' = [bpc EXCEPT ![b] = "stage"]
  /\ UNCHANGED <<bucketVars, started, base, parts, found, uploaded>>

(* One HEAD check.  A HEAD that fails only warns: the part is uploaded.    *)
BackupHead(b, h) ==
  /\ bpc[b] = "stage"
  /\ h \in toHead[b]
  /\ toHead' = [toHead EXCEPT ![b] = @ \ {h}]
  /\ \/ /\ h \in Stored
        /\ found' = [found EXCEPT ![b] = @ \cup {h}]
     \/ UNCHANGED found
  /\ UNCHANGED <<bucketVars, bpc, started, base, parts, known, uploaded>>

(* The staging and metadata loops end, and the HEAD task is awaited.       *)
(* Either loop may have queried the parts again, so the final list P can   *)
(* be any; the HEAD checks were those of the first list.                   *)
BackupStaged(b) ==
  /\ bpc[b] = "stage"
  /\ toHead[b] = {}
  /\ \E P \in PartLists : parts' = [parts EXCEPT ![b] = P]
  /\ bpc' = [bpc EXCEPT ![b] = "upload"]
  /\ UNCHANGED <<bucketVars, started, base, known, toHead, found, uploaded>>

(* One part archive reaches the bucket (upload_part_archives runs several  *)
(* at a time, in any order); an existing object is overwritten.            *)
BackupUpload(b, h) ==
  /\ bpc[b] = "upload"
  /\ h \in NeedUpload(b) \ uploaded[b]
  /\ PutBlob(h)
  /\ uploaded' = [uploaded EXCEPT ![b] = @ \cup {h}]
  /\ UNCHANGED <<snapshots, bpc, started, base, parts, known, toHead, found>>

(* The run is over: its locals go with it, the history variables stay.     *)
BackupEnd(b, outcome) ==
  /\ bpc' = [bpc EXCEPT ![b] = outcome]
  /\ base' = [base EXCEPT ![b] = Absent]
  /\ parts' = [parts EXCEPT ![b] = {}]
  /\ known' = [known EXCEPT ![b] = {}]
  /\ toHead' = [toHead EXCEPT ![b] = {}]
  /\ found' = [found EXCEPT ![b] = {}]
  /\ UNCHANGED <<blobs, started, uploaded>>

(* Mutant of BackupWrite: a part whose blob was never sized is written     *)
(* into the manifest all the same, without a hash.                         *)
BackupWriteUnsized(b, outcome) ==
  /\ bpc[b] = "upload"
  /\ outcome \in {"done", "failed"}
  /\ NeedUpload(b) \subseteq uploaded[b]
  /\ WriteManifest(NameOf[b], [refs |-> parts[b] \cup {Absent}, by |-> b])
  /\ BackupEnd(b, outcome)

(* write_manifest succeeds; or the PUT takes effect and its response is    *)
(* lost, which put_object_conditional does not retry: the run fails.       *)
BackupWrite(b, outcome) ==
  /\ bpc[b] = "upload"
  /\ outcome \in {"done", "failed"}
  /\ NeedUpload(b) \subseteq uploaded[b]
  /\ WriteManifest(NameOf[b], [refs |-> parts[b], by |-> b])
  /\ BackupEnd(b, outcome)

(* The run ends without a manifest: a failed read, a part that was not     *)
(* staged, a failed upload, a name that is taken, Ctrl-C or a crash.       *)
BackupFail(b) ==
  /\ Running(b)
  /\ BackupEnd(b, "failed")
  /\ UNCHANGED snapshots

BackupStep(b) ==
  \/ BackupReadBase(b)
  \/ \E h \in Hashes : BackupHead(b, h) \/ BackupUpload(b, h)
  \/ BackupStaged(b)
  \/ \E outcome \in {"done", "failed"} : BackupWrite(b, outcome)

(* Backups alone, at one moment: what a detailed run has to implement.     *)
BackupsNext ==
  \E b \in Backups : BackupStart(b) \/ BackupStep(b) \/ BackupFail(b)

BackupsSpec ==
  BucketInit /\ BackupInit /\ [][BackupsNext]_<<bucketVars, backupVars>>
=============================================================================
