------------------------------- MODULE Bucket -------------------------------
(***************************************************************************)
(* The S3 bucket as the backup and the garbage collector share it: part    *)
(* blobs at base/data/blobs/<shard>/<hash>, each with the LastModified     *)
(* time S3 reports, and snapshot manifests at snapshots/<name>.json.zst.   *)
(* A blob's content is named by its hash, so an object is here only        *)
(* present (with its time) or Absent; a manifest is the set of hashes its  *)
(* parts reference and the run that wrote it (created_by).                 *)
(***************************************************************************)
EXTENDS Integers, FiniteSets

CONSTANTS
  Hashes,       \* hash_of_all_files of the parts that may exist
  Names,        \* manifest names, as ranks in lexicographic order
  Backups,      \* runs of `chbk backup`; a run is never restarted
  Replicas,     \* shard/replica identities
  NoReplica,    \* "replica" of a name without the live_{shard}_{replica}_ prefix
  Absent,       \* no object at a key
  Replica,      \* Replica[n]: the identity the name n starts with, or NoReplica
  MaxTime       \* bound: the clock stops here

ASSUME NamesAssumption == Names \subseteq Nat
ASSUME AbsentAssumption ==
  /\ Absent \notin Nat
  /\ \A S \in SUBSET Hashes : Absent # S
  /\ Absent \notin [refs : SUBSET Hashes, by : Backups]
ASSUME ReplicaAssumption == Replica \in [Names -> Replicas \cup {NoReplica}]
ASSUME MaxTimeAssumption == MaxTime \in Nat

VARIABLES
  now,          \* time, in units of the grace period's granularity
  blobs,        \* blobs[h]: LastModified of the blob h, or Absent
  snapshots     \* snapshots[n]: the manifest named n, or Absent

bucketVars == <<blobs, snapshots>>

Manifest == [refs : SUBSET Hashes, by : Backups]

BucketTypeOK ==
  /\ now \in 0..MaxTime
  /\ blobs \in [Hashes -> Nat \cup {Absent}]
  /\ snapshots \in [Names -> Manifest \cup {Absent}]

BucketInit ==
  /\ now = 0
  /\ blobs = [h \in Hashes |-> Absent]
  /\ snapshots = [n \in Names |-> Absent]

Stored == {h \in Hashes : blobs[h] # Absent}
Present == {n \in Names : snapshots[n] # Absent}

(* The names that start with "live_": an auto-generated name carries the  *)
(* identity of the replica that made it.                                   *)
LiveNames == {n \in Names : Replica[n] # NoReplica}

PutBlob(h) == blobs' = [blobs EXCEPT ![h] = now]
DeleteBlob(h) == blobs' = [blobs EXCEPT ![h] = Absent]
DeleteManifest(n) == snapshots' = [snapshots EXCEPT ![n] = Absent]

(* write_manifest's conditional PUT (If-None-Match: star) when it succeeds. *)
WriteManifest(n, m) ==
  /\ snapshots[n] = Absent
  /\ snapshots' = [snapshots EXCEPT ![n] = m]
=============================================================================
