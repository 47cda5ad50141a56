# chbk in TLA+

`chbk` backs up ClickHouse parts to S3. A part's directory becomes a ZIP
archive at a key made from the part's `hash_of_all_files`, so equal parts are
stored once; a snapshot is a manifest that lists the hashes it needs. Backups
take no lock. Garbage collection (`gc-all`, `rm-snapshot`, `gc-live`) deletes
what manifests no longer reference, under a lock that is itself an S3 object.

This directory holds TLA+ models of that system, TLC configurations and proofs
for TLAPS. Paths below are relative to the repository.

## 1. The system

| Component | Source | State | Operations |
|---|---|---|---|
| Bucket and manifests | `src/manifest.rs`, `src/blob_hash.rs`, `src/util.rs` | blobs by hash, with S3's LastModified; manifests by name | conditional write, list, read, delete |
| Backup | `src/snapshots.rs` (`create_snapshot`), `src/upload.rs` | current list of parts, known hashes of the base manifest, HEAD results, uploaded sizes | query, base manifest, HEAD checks, staging, metadata, uploads, manifest |
| Staging tree | `src/snapshots.rs` (`stage_part_dir_sync`, `cleanup_*`, `StagingCleanup`) | directories and `.staged` markers under `BACKUP_DIR` | empty, link, mark, remove |
| Part archives | `src/part_zip.rs` | none | list files, write and extract ZIP |
| Multipart upload | `src/storage.rs` (`put_object_multipart_reader`) | pipe, chunk, channel, JoinSet, completed parts, multipart upload in S3 | read ahead, spawn, join, complete, abort |
| Other S3 calls, retries | `src/storage.rs`, `src/retry.rs` | attempts | HEAD, GET, conditional PUT, list, bulk delete |
| Garbage collection | `src/gc.rs` | referenced hashes, cutoff, batch, victims and their exclusive hashes | `gc_all_blobs`, `gc_snapshot`, `prune_old_live_snapshots` |
| Retention | `src/gc.rs` (`compute_prune_set`) | none | which live snapshots are old |
| GC lock | `src/gc/lock.rs`, `src/gc.rs` (`with_gc_lock`) | the object `gc/.lock`, the heartbeat's ETag, the `lock_lost` token | acquire, break, refresh, release |
| Restore | `src/snapshots.rs` (`restore_snapshot`) | output directory, detached parts | download, extract, attach |
| ClickHouse client | `src/clickhouse.rs`, `src/parts.rs` | none | query parts, macros, tables; attach |
| Progress display | `src/tui.rs` | counters | events |
| Command line | `src/main.rs` | configuration | dispatch |

How they interact:

* A backup and ClickHouse share the data directory: ClickHouse removes inactive
  parts while the backup links them.
* The backups of one host share the staging tree under `BACKUP_DIR`.
* Within a backup the ZIP writer (a thread), the reader task, the uploader and
  its part tasks work through a pipe, a bounded channel and a `JoinSet`; the
  HEAD checks run beside the staging.
* Backups and collections of all hosts share the bucket, without any lock
  between backups and collections.
* Collections share the lock object.
* A collection hands its blobs to `delete_objects_bulk`, which has several
  requests on their way; `with_gc_lock` drops that call when the lock is lost.
* A restore takes no lock either, and reads the bucket part by part while
  backups and collections change it. `gc-live` chooses its victims by a clock
  that was read before the lock was waited for.

What is hard here: the age of a blob against the time a backup takes; deletes
planned from manifests read earlier; a lock that is broken by whoever finds it
old; calls that took effect and whose answer was lost, or that take effect after the
client has given them up; a run that stops between two calls; an upload that
ends early; parts that go while they are staged; what one pruning keeps and the
next one judges anew.

What makes each component correct:

* Bucket: a manifest that exists is never changed (the conditional PUT sees to
  it in one step, so that no property is spent on it).
* Backup: a manifest references only blobs that are in the bucket and whole;
  every referenced blob has a size; a run ends.
* Collection: no snapshot that was complete loses a blob; a backup in flight
  keeps what it has uploaded; orphans do not stay.
* Lock: at most one collection works; a run whose lock was taken stops soon; a
  lock left by a crashed run does not stop the next one.
* Bulk delete: each key is counted once, and an error stands for every key that
  stays; nothing is deleted that is no longer to be deleted.
* Retention: no snapshot goes before its time; a day of the daily period that
  had a snapshot has one.
* Restore: it succeeds only with all it chose; no collection makes the restore
  of another snapshot fail; nothing is attached unless all was downloaded.
* Upload: what is accepted is the whole archive; nothing else is at the key
  unless a writer failed to read its files; the pipeline does not get stuck.

## 2. The modules

| Module | Models | Relation |
|---|---|---|
| `Bucket` | blobs with times, manifests, the S3 calls on them | extended by `Backup` and `Gc` |
| `Backup` | a backup as the bucket sees it | abstract specification `BackupsSpec` |
| `Gc` | one collection run of each kind, call by call | |
| `BackupGc` | any number of backups and collections, a clock, history variables | composes `Backup` and `Gc` |
| `Retention` | the choice of `gc-live`, with timestamps | extends `Gc` |
| `Restore` | a restore, call by call | extends `Bucket` |
| `Recovery` | snapshots taken over time, `gc-live` and `rm-snapshot` again and again, restores beside them | composes `Retention` and `Restore` |
| `Deletion` | what `Gc` relies on when it hands over its blobs | abstract specification |
| `BulkDelete` | `delete_objects_bulk`, request by request | implements `Deletion` |
| `GcLock` | the lock, call by call, with time | independent: see below |
| `Upload` | what `Snapshot` relies on when it puts an archive | abstract specification |
| `PartUpload` | one archive from the ZIP writer to its key | implements `Upload` |
| `Snapshot` | a backup on its host, ClickHouse, the staging tree | implements `Backup` |
| `MCBackupGc`, `MCRecovery`, `MCBulkDelete`, `MCGcLock`, `MCPartUpload`, `MCSnapshot` | instances for TLC | |
| `Gc_proofs` | lemmas about one collection, whatever runs beside it | used by the next two and by `Grace_proofs` |
| `BackupGc_proofs`, `Recovery_proofs`, `Grace_proofs`, `BulkDelete_proofs`, `GcLock_proofs`, `PartUpload_proofs`, `Snapshot_proofs` | theorems and proofs | |

Definitions keep the source's names where they can (`NeedUpload`, `Restage`,
`head_skipped` as `found`, `known_hashes` as `known`, ...). A definition whose
comment begins "Mutant of X" is X with a plausible bug; no specification uses
it, and replacing X by it makes TLC find the corresponding property violated.

### Bucket, Backup, Gc, BackupGc

A blob is its LastModified time or `Absent`: its content is named by its key.
A manifest is the set of hashes it references and the run that wrote it. Names
are numbers, since only their order matters (the base manifest is the greatest
name of the replica); `Replica` says which names carry which
`live_{shard}_{replica}_` prefix. One S3 call is one step.

`Backup`: `BackupStart` is the query and the listing, `BackupReadBase` the read
of the base manifest, `BackupHead` one HEAD check (a failed one counts as "not
there"), `BackupStaged` the end of the staging and metadata loops, with any
list of parts as outcome, `BackupUpload` one archive, `BackupWrite` the
conditional manifest PUT, whose answer may be lost, `BackupFail` every other
end.

`Gc`: one process is a run of one kind. `GcReadTarget`, `GcList`, `GcRead` are
the reads; `GcPlanScan` fixes gc-all's cutoff after them, as the code does;
`GcPlanRemoval` computes the exclusive hashes; `GcScan`, `GcFlush`,
`GcDeleteBlob` list, batch and delete. `GcSkipManifest` is the warning of
`prune_old_live_snapshots` when a manifest cannot be deleted. Which live
snapshots are old is left open: any set of them may be pruned; `Retention` says
which. A delete that fails is settled (`GcDeleteError`) or, when its answer is
lost, may still be applied, once or more than once (`GcDeleteUnanswered`).

`Gc` does not wait for the lock. `GcLock` shows that two runs may believe they
hold it, so what `BackupGc` establishes must not rest on it. Where a property
does need it, the property says so (`crowded`).

History variables (never read by an action): `disturbed`, the backups that a
collection ran beside, or that trusted a base manifest not vouched for;
`condemned`, the manifests that pruning failed to delete; `crowded`, the
collections that ran beside another or whose delete was left
unanswered, so that it may hit a blob uploaded anew; `before`, the blobs in the bucket when a
backup began. They delimit the claims: chbk does not protect a backup from an
`rm-snapshot` beside it, and no property says that it does.

### Retention, Restore, Recovery

`stamp[n]` is the timestamp in a manifest, the time at which its backup began;
`asOf[g]` is the `current_timestamp` of a `gc-live`, read up to `MaxWait` before
it starts. `PruneSets` is `compute_prune_set`: what is past `all_cutoff` without
one snapshot of each day of the daily period, the newest, and any of those that
carry the same time, whichever shard or replica they are of (the sorts are
stable, and the order they keep is that in which downloads ended).
`RetentionStep` makes it the plan of `Gc`'s pruning run.

`Restore` goes from the manifest (`RestoreRead`) over one GET a part
(`RestoreGet`, then `RestoreExtract` or `RestoreExtractFails`) to the end of all
downloads (`RestoreCollected`) and the ATTACH of each part, whose answer may be
lost (`RestoreAttach` with result "error"). `output` and `attached` outlive a
restore, so that the next one finds what the last one left. An archive ends
after its central directory, or it is cut inside an entry: `write_zip` writes an
entry's header before it opens the file, so a writer that fails to open or read
one never ends between two entries. Nothing but `extract_zip` itself can notice
the cut, since `blob_size` is compared with nothing.

`Recovery` takes a whole backup in one step while no collection is active:
`BackupGc` says what happens otherwise. It takes its known hashes from the last
name of its own replica (`IsLatest`), and other large blobs from HEAD checks,
whoever has put them there. Names of a replica sort by timestamp (`InOrder`);
a name that was given (`NoReplica`) may be used by any replica at any time.
`condemned` are the snapshots whose
blobs a pruning took though it could not delete the manifest, with the later
ones that trust them as their base; `removed` are the names given to
`rm-snapshot`; `spoiled`, `fresh` and `held` say what the present restore met
with and found.

### BulkDelete

`batches` is any result of `batch_keys_by_shard`; a batch goes from "queued"
over its DeleteObjects call, the wait before another attempt and the fallback
of single DELETEs to "done". S3 comes to the keys of a request one by one.
`late` is the set of keys that a request may yet delete though nobody awaits its
answer: it was given up (`Unanswered`, `FailedOne`) or the future was dropped
with the lock (`Drop`). `Undecided` together with `late` is what `Deletion`
calls `doomed`, which is `Gc`'s `doomed[g]`: keys leave it when their answers
come, and nothing outside it is deleted. A fatal error (`Rejected`) may come
before S3 has touched a key or after it has come to all of them, when it is the
answer that cannot be read; the fallback asks for every key of the batch again.

### GcLock

The lock object is its content (owner and time), and so is its ETag. A step is
one S3 call; the use made of an answer is a step of its own (`Get` then `Check`
then `Break` then the second PUT; `ReleaseGet` then `Unlock`). A call that
fails may or may not have had its effect. Time passes by `Tick`: a due
heartbeat is not put off, and `Latency` bounds the time between an answer and
its use in `Check` and `Unlock`; a run may take any time otherwise. `slack`
counts what failed refreshes have cost a run.

### PartUpload

The archive is a number of blocks. The writer thread fills the pipe; the reader
task cuts chunks and sends them through the channel of `READ_AHEAD_CHUNKS`; the
uploader spawns a task for a chunk if fewer than `multipart_part_concurrency`
are at work, else joins one; at the end of the stream it joins the rest and
completes the upload. A chunk is its number and length: what it holds follows
from the order of the pipe. The object at the key is the set of chunks
completed, so a cut archive and one with a hole differ from the whole one. Each
call may fail for good (its error is fatal, or `with_retry` has used up its
attempts), and the answer to `complete_multipart_upload` may be lost. Runs of
the same key follow one another.

`Upload` is the same as `Snapshot` takes it to be. `Store` is the moment of
`Put`: the object changes, once a run at most, to the whole archive or, when the
writer of this very run has failed, to a cut one, and then `Put` makes the run
fail. An upload that gives up before it has stored anything is `PutFails`; one
that gives up after that is a `Put` whose run fails later. `SeenRun`,
`SeenReadable` and `SeenArchive` map the pipeline to it.

### Snapshot

`active` and `onDisk` are ClickHouse's: a part is deactivated first and its
directory removed later; a part may come back; a table's metadata file goes
when the table is dropped. The staging tree is shared by all runs of the host.
`StageBegins`, `Link`, `Mark` are `stage_part_dir_sync`, one hardlink a step,
all parts of a pass at the same time. `Restage` and `Redescribe` are the two
loops that query the parts again, bounded by `MAX_STAGING_ITERATIONS`. `Put`
is the whole of `PartUpload` for one part. `End`, `Fail` and `Crash` differ in
what they clean up: an error drops `StagingCleanup`, a killed process leaves
everything.

`Seen` maps a run to `Backup`: the staging, metadata and HEAD steps are one
state there, and the list of parts is the first one until the metadata is
complete, since the HEAD checks are those of the first list. Running the
mapping under TLC (`ImplementsBackup`) shows that what `BackupGc` assumes of a
backup is what `create_snapshot` does on its host.

## 3. The runs

Deadlock is not checked in any run: runs end and the bounds stop the rest, so
every model has states without a successor.

| Run | Properties | Bounds |
|---|---|---|
| `BackupGcRetention` | `TypeOK`, `VouchedManifestsComplete` | 2 backups with names of their own, 2 hashes (one large), an rm and a prune run, repeated; 1 fault; no clock |
| `BackupGcGrace` | `GraceProtectsNewBlobs`, `OrphansCollected` | 2 backups with the same name, 1 hash, an rm and a gc-all run, `Grace` 1, `MaxBackup` 0, clock to 2, backups start up to time 1, 2 faults, with fairness |
| `Recovery` | `TypeOK`, `RecentKept`, `DayKept`, `RestoreFailsForAReason`, `RestoredExactly`, `AttachedTogether`, `RestoreEnds` | 2 snapshots of one replica that share a part, clock to 3, days of 2, `RetainAll` 0, `RetainDaily` 2, `MaxWait` 1, a gc-live that is repeated, 1 restore of 2 downloads at a time, 1 fault |
| `BulkDelete` | `TypeOK`, `CountsAddUp`, `ErrorsCoverWhatStays`, `DropLeavesFew`, `ImplementsDeletion`, `BulkEnds` | 4 keys in 2 shards, batches of 2, 2 at work, 1 single DELETE at a time, 2 attempts, one key uploaded again, 2 faults |
| `GcLockRuns` | `TypeOK`, `MutexWithoutFaults`, `TheftNoticedInTime`, `LoneRunNeverGivesUp` | 2 runs, TTL 3, heartbeat 1, latency 1, 10 attempts, the code's delays in units of 30 s, clock to 6, 1 fault |
| `PartUploadWhole` | `TypeOK`, `ObjectWholeUnlessMisread`, `AcceptedIsWhole`, `ImplementsUpload`, `RunEnds` | 6 chunks, pipe 2, channel 1, 2 tasks, 3 runs, 3 faults |
| `SnapshotStaging` | `TypeOK`, `ArchivesWhole`, `SizesKnown`, `ImplementsBackup`, `RunEnds` | 2 runs one after the other, 2 parts of 2 files in 2 tables, one of them dropped and inserted without end, 2 passes, 1 fault |

What they show:

* **VouchedManifestsComplete.** A manifest whose run no collection ran beside
  (nor beside the runs it inherits known hashes from) and that pruning did not
  fail to delete keeps all its blobs, whatever rm and prune runs overlap, fail
  or stop. Removals have no grace period, so all of this rests on exclusive
  hashes being computed from every manifest. One fault is enough to stop a
  removal between its manifest and its blobs, or to leave orphans for a HEAD
  check to find.
* **GraceProtectsNewBlobs.** gc-all never selects a blob that a backup was the
  first to upload, while that run is under way or its manifest exists. The
  instance is small, and tight: a blob may have any age from 0 to 2 when it is
  judged, a grace period of 1 is the least there is, and the cutoff lies
  exactly at it. `GraceProtects` (section 4) covers every other value. The
  claim needs the collection to be alone, with no delete of its own left
  unanswered (`crowded`): a removal beside gc-all, or a delete that is applied
  again, can take the blob away so that the bucket has it no more when the
  backup begins, while gc-all still has it in its batch.
* **OrphansCollected.** What a crashed backup or an interrupted removal leaves
  is deleted, or referenced again, if gc-all is run again and again. Two faults
  leave an orphan and then fail the run that would have collected it.
* **RecentKept, DayKept.** Three instants on two days put a snapshot on either
  side of a midnight, exactly at each cutoff, and past it; a gc-live whose clock
  is one behind judges manifests newer than its cutoffs. With two snapshots on
  one day the next pruning has to keep what the last one kept.
  `DayKept` needs gc-live to be alone: of two snapshots with one timestamp, two
  prunings at once may each keep the other's victim, for the order of the
  manifests is that in which their downloads ended. What remains when the lock
  has failed is `NewestKept`: a snapshot newer than all others of its day stays.
  With two gc-live and a restore the run would have too many states, so
  `NewestKept` belongs to no run and is proved instead (`NewestStays`, section
  4). With two gc-live and no restore (`GcRuns = {g1, g2}`,
  `Kind <- TwoPrune`, `MaxRestores = 0`, symmetry `GcSymmetry`) TLC finds the
  violation of `DayKept`, and none of `NewestKept` in 158,000 states.
* **RestoreFailsForAReason, RestoredExactly, AttachedTogether, RestoreEnds.**
  The two snapshots share a part, so that pruning one must leave the other's
  blob; the restore may find its manifest or a blob gone between any two of its
  steps, an archive cut by a writer, or a refused or repeated ATTACH.
* **CountsAddUp, ErrorsCoverWhatStays, DropLeavesFew, ImplementsDeletion,
  BulkEnds.** Three batches (three keys of one shard make two of them) with
  places for two, so that one has to wait, and a batch of two keys with one
  single DELETE at a time; two faults combine a refused key with
  an unanswered call, or two unanswered calls with the last attempt. The backup
  that uploads a key again makes the difference between a delete that comes
  late and one that is not asked for any more.
* **MutexWithoutFaults, TheftNoticedInTime.** While nothing fails, the lock
  excludes; whatever fails, a run works beside another's lock object for at
  most a heartbeat, and one for each refresh of its own that failed. Two runs
  are enough to steal; the theorems cover any number, and `GcLockMutex` has
  three. TTL 3
  against heartbeat 1 and latency 1 is the least that the assumption
  `Heartbeat + 2 * Latency <= TTL` allows: the code has 60 s against 30 s.
* **LoneRunNeverGivesUp.** One unit is 30 s. The delays 2, 4, 8, 16, 32, 32, ...
  are rounded down to 0, 0, 0, 0, 1, 1, ..., and the delay after an error to 0,
  while the TTL is 3 units for the code's 2: every difference makes the budget
  smaller than the code's. The assumption `DoublingSuffices` of `MCGcLock`
  checks that these delays satisfy the hypothesis of `LoneRunSucceeds`.
* **ObjectWholeUnlessMisread, AcceptedIsWhole.** Chunks overtake one another,
  fail, or are completed twice; nothing but the whole archive is accepted, and
  unless a writer fails nothing else gets to the key.
* **ImplementsUpload.** Three runs of one key: a run that failed leaves the
  multipart upload open, or an object though it never learned of it; neither
  may make a later run store what is not whole, or store twice.
* **RunEnds** (`PartUpload`). Six chunks are more than tasks, channel, chunk
  and pipe hold together (2 + 1 + 1 + 1), so that every place where the
  pipeline can stop is full in some state. With fewer chunks the reader never
  waits for a receiver that has gone.
* **ArchivesWhole, SizesKnown, ImplementsBackup, RunEnds** (`Snapshot`). With
  two passes a run both restages and gives up; a part comes back before and
  after its removal; a dropped table makes the metadata loop query a list whose
  parts may not be staged; the killed first run leaves its tree to the second.

Each of these runs is expected to end in a violation:

| Run | Property | What it shows |
|---|---|---|
| `BackupGcPrune` | `ReferencedBlobsKept` | pruning that cannot delete a manifest deletes its blobs all the same |
| `BackupGcInFlight` | `InFlightUploadsKept` | gc-all deletes a blob by the age it had when listed, though it has been uploaded again since |
| `GcLockMutex` | `MutualExclusion` | two runs read one expired lock; the second deletes the first one's new lock |
| `PartUploadCut` | `ReferencedIsWhole` | a ZIP writer that fails leaves a cut archive at the key, and HEAD accepts it in the next run |
| `SnapshotShared` | `ArchivesWhole` | a backup that starts beside another empties its staging tree, and the other archives what it links after that |

### Fairness

* `BackupGc`: a process that runs takes its next step (tokio polls what is
  ready); the clock goes on (strong fairness, since the timing assumptions
  disable `Tick` from time to time); gc-all is started again and again, as a
  timer would. Nothing makes a backup or a removal start, and no fault has to
  happen. A stop of the clock at `MaxTime` does not hide anything from
  `OrphansCollected`: uploads end early enough for the grace period to pass.
* `Recovery`: a restore that has begun goes on, whether its archives are whole
  or not. Collections, backups and the clock do as they like.
* `BulkDelete`: the future is polled and S3 answers in the end. No request has to
  fail, none has to come late, and the lock need not be lost.
* `PartUpload`: the writer has a thread of its own, every task that is ready is
  polled, and a call to S3 is answered, well or badly.
* `Snapshot`: a run that has begun goes on. ClickHouse does what it likes, for
  ever: the run must end all the same.

`GcLock` has safety properties only.

## 4. The proofs

TLAPS proves, for every value of the constants that satisfies the named
assumptions:

| Theorem | Module | States |
|---|---|---|
| `TypeCorrect` | `Recovery_proofs` | `Spec => []TypeOK` |
| `RecentStays` | `Recovery_proofs` | `Spec => []RecentKept` |
| `RestoreFailsRightly` | `Recovery_proofs` | `Spec => []RestoreFailsForAReason` |
| `DayStays` | `Recovery_proofs` | `Spec /\ []OnePruning => []DayKept` |
| `NewestStays` | `Recovery_proofs` | `Spec => []NewestKept` |
| `AttachesTogether` | `Recovery_proofs` | `Spec => []AttachedTogether` |
| `RestoresExactly` | `Recovery_proofs` | `Spec => []RestoredExactly` |
| `TypeCorrect` | `BulkDelete_proofs` | `Spec => []TypeOK` |
| `CountsAreRight` | `BulkDelete_proofs` | `Spec => []CountsAddUp` |
| `ReportsAreTrue` | `BulkDelete_proofs` | `Spec => []ErrorsCoverWhatStays` |
| `DropLeavesFewBatches` | `BulkDelete_proofs` | `Spec => []DropLeavesFew` |
| `DeletionImplemented` | `BulkDelete_proofs` | `Spec => ImplementsDeletion` |
| `TypeCorrect` | `PartUpload_proofs` | `Spec => []TypeOK` |
| `NothingPartial` | `PartUpload_proofs` | `Spec => []ObjectWholeUnlessMisread` |
| `AcceptedWhole` | `PartUpload_proofs` | `Spec => AcceptedIsWhole` |
| `UploadImplemented` | `PartUpload_proofs` | `Spec => ImplementsUpload` |
| `LockTypeCorrect` | `GcLock_proofs` | `Spec => []TypeOK` |
| `LockExcludes` | `GcLock_proofs` | `Spec => []MutexWithoutFaults` |
| `TheftIsNoticed` | `GcLock_proofs` | `Spec => []TheftNoticedInTime` |
| `LoneRunSucceeds` | `GcLock_proofs` | `DelaysCover => (Spec => []LoneRunNeverGivesUp)` |
| `TypeCorrect` | `Snapshot_proofs` | `Spec => []TypeOK` |
| `EveryPartIsSized` | `Snapshot_proofs` | `Spec => []SizesKnown` |
| `WholeArchives` | `Snapshot_proofs` | `~MayOverlap => (Spec => []ArchivesWhole)` |
| `BackupImplemented` | `Snapshot_proofs` | `Spec => ImplementsBackup` |
| `TypeCorrect` | `BackupGc_proofs` | `Spec => []TypeOK` |
| `VouchedManifestsStayComplete` | `BackupGc_proofs` | `Spec => []VouchedManifestsComplete` |
| `GraceProtects` | `Grace_proofs` | `Spec => []GraceProtectsNewBlobs` |

Assumptions: the types of the constants; `NoneAssumption` and
`AbsentAssumption` (the value for "no object" is none of the objects);
`TTLCoversHeartbeat` for the lock (60 s against 30 s, with up to 15 s of
latency); `GraceCoversBackup`, that is `MaxBackup + MaxPlan < Grace`, for the
grace period (six hours by default); `KeysAssumption`, that the keys of one call
are finitely many. No bound on time, sizes, concurrency or faults enters any
theorem. Three theorems have a hypothesis of their own:

* `DayStays`: no two gc-live are active at the same time (`OnePruning`), which
  is what the lock is for; `DayKept` in section 3 says why it is needed.
  Removals on demand may run beside a gc-live.
* `WholeArchives`: the backups of a host do not overlap (`~MayOverlap`); the
  run `SnapshotShared` shows what happens when they do. The other theorems
  about `Snapshot` hold either way.
* `LoneRunSucceeds`: the delays cover the TTL once, and once more after each
  fault (`DelaysCover`). With the code's values, in seconds, that is so for two
  faults: the first attempts are made after 0, 2, 6, 14, 30, 62, 94, 126, 158
  and 190 seconds, the TTL is 60, and a run that met a fault at its first
  attempt and another at its seventh finds what is in its way expired at the
  tenth (94 > 2 + 60, 190 > 126 + 60). A third fault may use up the attempts.

The arguments:

* **LockExcludes.** `MutexWithoutFaults` is not inductive: that two runs do not
  both work follows from who the object belongs to. `CalmInv`, which holds while
  `faults = 0`, says that a run that works or releases is the owner of the
  object (`LockIsHolders`), that the object is never older than a heartbeat and
  the latency (`LockIsFresh`), that an answer a run is about to judge was fresh
  when it was read (`SeenIsFresh`), and so that nobody is about to break a lock
  (`NoTheft`). Since `faults` only grows, a state with `faults = 0` was reached
  through such states only.
* **TheftIsNoticed.** `TheftInv` relates a working run's next heartbeat to the
  time the present object was created: as long as the object is another's, the
  heartbeat that will meet the conflict is due at most `Heartbeat + slack` after
  `since`. It needs nothing about how the lock was lost.
* **LoneRunSucceeds.** Sums of delays are not in the state; `LoneOK` relates
  the attempt of a run that is alone to the age of the object in its way. Such an
  object was there when the last fault happened, since nobody else creates one,
  so that at attempt `n` it is at least as old as the delays since then (`Ages`);
  at attempt `M[faults]` it has expired, is broken and the lock is free. While
  nothing has failed the lock is free at once, which needs `CalmInv`.
* **VouchedManifestsStayComplete.** `RetentionInv` adds three parts to the
  property. `RunsSound`: while an undisturbed backup runs no collection is
  active, and all it counts on (known, found and uploaded hashes) is stored; so
  its manifest is complete when it appears, and no collection under way has
  missed it. `PlansSound`: a collection has nothing to delete before it has
  planned. `ViewsSound`: a collection has read, or has still to read, every
  manifest that is vouched for, as it is, and has chosen none of its blobs
  unless it is about to remove the manifest itself; this is where the exclusive
  hashes and the union of all manifests enter. That a single run is sound in
  these two ways, whatever runs beside it, is `Gc_proofs`.
* **GraceProtects.** `GraceInv` is about times: what a backup uploads is no
  older than the backup; a backup that the listing of manifests missed began at
  most `MaxBackup` before that listing; the cutoff lies `Grace` before a moment
  at most `MaxPlan` after it. `Alone` says that a collection that is not
  crowded is the only one, so that nobody else deletes a blob that is in its
  batch.

* **RecentStays.** `KeptInv` says of every collection that its clock is not
  ahead (`asOf[g] <= now`), that a pruning about to remove has victims older
  than its own cutoff and a removal only those it was told (`VictimsDue`), and
  that what is gone was removed or past the cutoff (`GoneInTime`). Time only
  helps: what is past the cutoff stays so.
* **RestoreFailsRightly.** `StoreInv` is the soundness of every collection
  (`PlanSound`, `ViewSound` from `Gc_proofs`) about the snapshots that nothing
  has happened to, together with their blobs being there. `RestoreSound` says
  that a restore of one of these that met with no fault of its own has met with
  no error; a GET cannot fail, since the part it asks for is a blob of the
  snapshot.
* **DayStays.** `DaySpared` strengthens `DayKept`: one of the newest of a day is
  present and no gc-live is about to remove it. A gc-live that is planning has
  read every manifest that is there (`ReadTaken`; what has gone since was
  removed on demand, and of such a day nothing is claimed), so it keeps one of
  the newest, and since it is the only one that prunes, that one stays. Cutoffs
  may be older than the clock: then it judges less.
* **NewestStays.** `SoleInv` needs no such account. What a collection has read
  was taken, so nothing in its list is newer than the newest of the day; if the
  newest is in its list it keeps it, and if not it does not touch it.
* **AttachesTogether, RestoresExactly.** `AttachInv` follows one part: it is
  untouched unless chosen, extracted in the right directory before the restore
  leaves "download", and then attached or still extracted whatever ClickHouse
  answers.
* **CountsAreRight, ReportsAreTrue.** `CountInv` relates the counters to
  cardinalities of `Counted`; batches are disjoint (`TypeInv`), so that a batch
  which is done adds its own keys and no other's. In the fallback a key is
  counted when its own DELETE is answered.
* **TypeCorrect** of `BulkDelete` states limits as well as types: the batches at
  work (`WorkInv`, below), the attempts of a call, and the DELETEs of a batch
  under way (`SentInv`: a key belongs to one batch, so that a DELETE sent for one
  does not count for another).
* **DropLeavesFewBatches.** `WorkInv`: no more batches are at work than may be,
  and as long as nothing fails a late key belongs to one that was at work when
  the lock was lost.
* **DeletionImplemented.** A step of S3 is `Delete`, an answer `Settle`, a
  DELETE that is answered when it is applied `DeleteAndSettle`; the mapping
  works because a request that is given up moves its keys to `late` in the step
  in which they are counted, so that nothing re-enters `doomed`.
* **NothingPartial, AcceptedWhole.** As long as the run has met no error,
  `FlowInv` conserves the stream: what has come out of the pipe (`Drawn`) is
  `partNo` chunks and what the reader holds (`StreamInv`); the chunks cut are
  those in the channel, at work or completed, each once and each the right piece
  (`ChunkInv`); and the stages of the uploader say that at "complete" the
  channel and the tasks are empty and the reader is done (`StageInv`). A reader
  that is done has seen the end of the stream, and a writer that ended well has
  written all: the completed chunks are the archive (`CompletedIsWhole`).
* **UploadImplemented.** The object changes in `Complete` only. Whether it
  becomes the whole archive is `CompletedIsWhole` when the writer ended well;
  when it failed, it had not written all (`ShortInv`), and the chunks of a
  shorter stream are not those of the archive (`PiecesAreShort`): either there
  are fewer, or the last one is shorter.
* **TypeCorrect** of `PartUpload` has one part that is no matter of types:
  `uploaded <= Size`. `CountInv` counts the completed chunks by their
  cardinality, all full but the last (`Short`).

* **EveryPartIsSized.** `RunsKept` follows the three sources of a size through a
  run. `Heads`: HEAD checks are made of parts the base manifest lacks, and have
  returned before the metadata loop. `Uploads`: of the parts that need an
  upload each has its turn or has had it, unless one has failed, in which case
  the run does not get to its manifest. `Passes`: what a staging pass has left
  to do. It holds of each run whatever the others do to the staging tree.
* **WholeArchives.** `Tree` describes the staging tree as the only run needs
  it: what is not linked yet is still in `todo`, what is staged has its marker
  and all its files, and so has what is to be uploaded. `Markers` says the
  same of what a killed run has left, which is why a marker may be trusted.
  From there `Archives` and `Sources`: a blob in the bucket is whole, and there
  is one for each part that is known, found or uploaded.
* **BackupImplemented.** A lemma for each action says which step of `Backup` it
  is under the mapping, or that it changes nothing there. `Begun` is what the
  mapping needs besides `RunsKept`: a run has listed nothing before it has
  listed, and written nothing before it ends. The staging tree does not appear
  in `Backup`, so this holds for runs that overlap too.

Only model-checked: `OrphansCollected`, both `RunEnds`, `RestoreEnds` and
`BulkEnds`, which are liveness properties, out of this prover's reach; and the
violations.

## 5. What is not modelled

* The content of manifests, metadata files and archives: encoding, compression,
  ZIP bytes, checksums. A hash names its content: in `Bucket` a blob is there or not, and a cut
  archive (`PartUploadCut`, `SnapshotShared`) counts as there.
* Two parts with the same hash: a part is its hash here. The code handles them
  as one as well (`seen` hashes), with one archive for both.
* The reply of `system.parts` is what ClickHouse has: the code passes over a
  line that is not JSON and a part without a hash.
* A part's directory is taken to go all at once (ClickHouse renames it before
  it removes its files), and its files to be listed when staging begins.
* Symlinks and cross-device links, which make the run fail.
* How long `with_retry` waits, and the delays between attempts of
  `delete_objects_bulk`.
* A request that takes effect after its run has ended: in `Gc` the run counts as
  active until then (an unanswered delete is settled before the run is idle).
* Restore: metadata files are written before the parts and left out; a directory
  that is not empty is taken to be used with `--force`; files that another
  program puts there.
* `Recovery`'s run has one replica, one gc-live and no rm-snapshot; the theorems
  cover any number of them. A name that was given to a backup is taken not to
  begin with the prefix of a replica.
* ClickHouse's transport, the progress display and the command line (section 1).
  The display receives events the backup never waits for until its end; the
  command line decides which kind of run there is, and reads the clock.
* Clocks of different hosts are one clock in `GcLock` and `BackupGc`; skew would
  have to be added to `Latency`, `MaxBackup` and `MaxPlan`.

## 6. Plan

1. `GcLock` refining an abstract lock with leases, and `Gc` run under it.
2. Larger instances of `Recovery` (three days, an rm-snapshot beside gc-live).
