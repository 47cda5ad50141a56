------------------------------ MODULE Snapshot ------------------------------
(***************************************************************************)
(* A backup run on its host (snapshots.rs, create_snapshot): it queries    *)
(* the active parts, hardlinks their directories into a staging tree while *)
(* ClickHouse merges and drops them, starts again with a fresh list where  *)
(* a part or a table has gone, uploads the staged directories and writes   *)
(* the manifest.  Runs on one host share the staging tree.  Backup.tla is  *)
(* the same run as the bucket sees it, and this module implements it.      *)
(***************************************************************************)
EXTENDS Integers, FiniteSets

CONSTANTS
  Runs,         \* backup runs of one replica, and the names they use in order
  Parts,        \* parts, by hash_of_all_files
  Files,        \* the files of a part
  Tables,
  TableOf,      \* TableOf[h]: the table of part h
  Active0,      \* the parts that are active at first
  Changes,      \* merges, mutations, inserts, drops: <<parts that go, parts that come>>
  Large,        \* parts of at least HEAD_CHECK_THRESHOLD bytes
  Absent,       \* no such directory, object or manifest
  MaxPasses,    \* MAX_STAGING_ITERATIONS
  MayOverlap,   \* a run may begin while another is under way
  MaxFaults     \* bound: calls that fail, and crashes

ASSUME RunsAssumption == Runs \subseteq Nat
ASSUME TableAssumption == TableOf \in [Parts -> Tables]
ASSUME PartsAssumption ==
  /\ Active0 \subseteq Parts /\ Large \subseteq Parts
  /\ Changes \subseteq (SUBSET Parts) \X (SUBSET Parts)
ASSUME AbsentAssumption ==
  /\ Absent \notin Nat
  /\ \A S \in SUBSET Files : Absent # S
  /\ Absent \notin [parts : SUBSET Parts, tables : SUBSET Tables]
  /\ Absent \notin [refs : SUBSET Parts, by : Runs]
ASSUME MaxPassesAssumption == MaxPasses \in Nat \ {0}
ASSUME MayOverlapAssumption == MayOverlap \in BOOLEAN
ASSUME MaxFaultsAssumption == MaxFaults \in Nat

VARIABLES
  active,       \* parts in system.parts with active = 1
  onDisk,       \* parts whose directory exists
  ddl,          \* tables whose metadata file exists
  dirs,         \* dirs[h]: files in the staged directory of h, or Absent
  marked,       \* parts whose .staged marker exists
  blobs,        \* blobs[h]: files in the archive at the key of h, or Absent
  manifests,    \* manifests[r]: what run r wrote, or Absent
  pc,           \* pc[r]: where run r is
  current,      \* current_parts
  listed,       \* the first parts list, whose large parts are HEAD-checked
  base,         \* latest manifest, as listed, or Absent
  known,        \* known_hashes
  toHead,       \* parts whose HEAD check has not returned
  found,        \* head_skipped
  pass,         \* number of the staging pass, or of the metadata attempt
  toStage,      \* parts of the pass whose staging has not begun
  todo,         \* todo[r][h]: files still to link, or Absent
  missing,      \* missing_hashes of the pass
  staged,       \* staged_dirs
  left,         \* parts whose upload has not ended
  listing,      \* listing[r][h]: what collect_files found, or Absent
  uploaded,     \* parts the run has put in the bucket
  failing,      \* an upload has failed
  faults

hostVars == <<active, onDisk, ddl>>
diskVars == <<dirs, marked>>
bucketVars == <<blobs, manifests>>
planVars == <<current, listed, base, known>>
headVars == <<toHead, found>>
stageVars == <<pass, toStage, todo, missing, staged>>
uploadVars == <<left, listing, uploaded, failing>>
runVars == <<pc, planVars, headVars, stageVars, uploadVars>>
vars == <<hostVars, diskVars, bucketVars, runVars, faults>>

Pc == {"idle", "list", "base", "setup", "plan", "stage", "await", "meta",
       "upload", "write", "done", "failed", "unstarted"}

None == [h \in Parts |-> Absent]

Init ==
  /\ active = Active0 /\ onDisk = Active0
  /\ ddl = Tables
  /\ dirs = None /\ marked = {}
  /\ blobs = None /\ manifests = [r \in Runs |-> Absent]
  /\ pc = [r \in Runs |-> "idle"]
  /\ current = [r \in Runs |-> {}] /\ listed = [r \in Runs |-> {}]
  /\ base = [r \in Runs |-> Absent] /\ known = [r \in Runs |-> {}]
  /\ toHead = [r \in Runs |-> {}] /\ found = [r \in Runs |-> {}]
  /\ pass = [r \in Runs |-> 1]
  /\ toStage = [r \in Runs |-> {}] /\ todo = [r \in Runs |-> None]
  /\ missing = [r \in Runs |-> {}] /\ staged = [r \in Runs |-> {}]
  /\ left = [r \in Runs |-> {}] /\ listing = [r \in Runs |-> None]
  /\ uploaded = [r \in Runs |-> {}] /\ failing = [r \in Runs |-> FALSE]
  /\ faults = 0

Goto(r, l) == pc' = [pc EXCEPT ![r] = l]
Fault == faults < MaxFaults /\ faults' = faults + 1
Ended(r) == pc[r] \in {"done", "failed", "unstarted"}
Running(r) == pc[r] # "idle" /\ ~Ended(r)
Present == {r \in Runs : manifests[r] # Absent}

-----------------------------------------------------------------------------
(* ClickHouse: a merge, a mutation, an insert or the drop of a partition   *)
(* changes the active parts, the directories of inactive parts are removed *)
(* at some time, a table is dropped.                                       *)
Change ==
  \E c \in Changes :
    /\ c[1] \subseteq active
    /\ c[2] \cap onDisk = {}
    /\ \A h \in c[2] : TableOf[h] \in ddl
    /\ active' = (active \ c[1]) \cup c[2]
    /\ onDisk' = onDisk \cup c[2]
    /\ UNCHANGED ddl

Remove(h) ==
  /\ h \in onDisk \ active
  /\ onDisk' = onDisk \ {h}
  /\ UNCHANGED <<active, ddl>>

DropTable(t) ==
  /\ t \in ddl
  /\ ddl' = ddl \ {t}
  /\ active' = {h \in active : TableOf[h] # t}
  /\ UNCHANGED onDisk

ClickHouse ==
  /\ Change \/ (\E h \in Parts : Remove(h)) \/ (\E t \in Tables : DropTable(t))
  /\ UNCHANGED <<diskVars, bucketVars, runVars, faults>>

-----------------------------------------------------------------------------
(* query_active_parts: what the run sees of system.parts.                  *)
ActiveParts == active

(* The first list, at the start of the run.                                *)
Query(r) ==
  /\ pc[r] = "idle"
  /\ MayOverlap \/ \A q \in Runs : ~Running(q)
  /\ current' = [current EXCEPT ![r] = ActiveParts]
  /\ listed' = [listed EXCEPT ![r] = ActiveParts]
  /\ Goto(r, "list")
  /\ UNCHANGED <<hostVars, diskVars, bucketVars, base, known, headVars, stageVars,
                 uploadVars, faults>>

(* load_known_from_latest_manifest lists the manifests: the latest is read *)
(* next.  Without one every large part is to be HEAD-checked.              *)
List(r) ==
  /\ pc[r] = "list"
  /\ \/ /\ Present = {}
        /\ toHead' = [toHead EXCEPT ![r] = current[r] \cap Large]
        /\ Goto(r, "setup")
        /\ UNCHANGED base
     \/ /\ \E q \in Present :
              /\ \A m \in Present : m <= q
              /\ base' = [base EXCEPT ![r] = q]
        /\ Goto(r, "base")
        /\ UNCHANGED toHead
  /\ UNCHANGED <<hostVars, diskVars, bucketVars, current, listed, known, found, stageVars,
                 uploadVars, faults>>

ReadBase(r) ==
  /\ pc[r] = "base"
  /\ known' = [known EXCEPT ![r] = manifests[base[r]].parts]
  /\ toHead' = [toHead EXCEPT ![r] = (current[r] \cap Large) \ manifests[base[r]].parts]
  /\ Goto(r, "setup")
  /\ UNCHANGED <<hostVars, diskVars, bucketVars, current, listed, base, found, stageVars,
                 uploadVars, faults>>

EmptyStaging == dirs' = None /\ marked' = {}

(* cleanup_staging_dirs_sync: whatever is in the staging tree goes.        *)
Setup(r) ==
  /\ pc[r] = "setup"
  /\ EmptyStaging
  /\ Goto(r, "plan")
  /\ UNCHANGED <<hostVars, bucketVars, planVars, headVars, stageVars, uploadVars, faults>>

(* A HEAD check, beside the staging; one that fails counts as "not there". *)
Head(r, h) ==
  /\ pc[r] \in {"plan", "stage", "await"}
  /\ h \in toHead[r]
  /\ toHead' = [toHead EXCEPT ![r] = @ \ {h}]
  /\ \/ /\ blobs[h] # Absent
        /\ found' = [found EXCEPT ![r] = @ \cup {h}]
        /\ UNCHANGED faults
     \/ /\ blobs[h] = Absent \/ faults < MaxFaults
        /\ faults' = IF blobs[h] = Absent THEN faults ELSE faults + 1
        /\ UNCHANGED found
  /\ UNCHANGED <<hostVars, diskVars, bucketVars, pc, planVars, stageVars, uploadVars>>

-----------------------------------------------------------------------------
(* parts_to_upload                                                         *)
NeedUpload(r) == current[r] \ known[r]
NeedStage(r) == NeedUpload(r) \ staged[r]

(* The head of the staging loop.                                           *)
Plan(r) ==
  /\ pc[r] = "plan"
  /\ toStage' = [toStage EXCEPT ![r] = NeedStage(r)]
  /\ Goto(r, IF NeedStage(r) = {} THEN "await" ELSE "stage")
  /\ UNCHANGED <<hostVars, diskVars, bucketVars, planVars, headVars, pass, todo, missing,
                 staged, uploadVars, faults>>

IsStaged(h) == h \in marked /\ dirs[h] # Absent

(* stage_part_dir_sync up to its loop, for each part at the same time: the *)
(* source is missing, or the part is staged already, or its directory is   *)
(* made afresh.                                                            *)
StageBegins(r, h) ==
  /\ h \in toStage[r]
  /\ toStage' = [toStage EXCEPT ![r] = @ \ {h}]
  /\ \/ /\ h \notin onDisk
        /\ missing' = [missing EXCEPT ![r] = @ \cup {h}]
        /\ UNCHANGED <<diskVars, todo, staged>>
     \/ /\ h \in onDisk /\ IsStaged(h)
        /\ staged' = [staged EXCEPT ![r] = @ \cup {h}]
        /\ UNCHANGED <<diskVars, todo, missing>>
     \/ /\ h \in onDisk /\ ~IsStaged(h)
        /\ dirs' = [dirs EXCEPT ![h] = {}]
        /\ marked' = marked \ {h}
        /\ todo' = [todo EXCEPT ![r][h] = Files]
        /\ UNCHANGED <<missing, staged>>
  /\ UNCHANGED <<hostVars, bucketVars, pc, planVars, headVars, pass, uploadVars, faults>>

(* Mutant of Link: a file that has gone is passed over.                    *)
LinkWhatIsThere(r, h, f) ==
  /\ todo[r][h] # Absent /\ f \in todo[r][h]
  /\ dirs' = IF h \in onDisk
             THEN [dirs EXCEPT ![h] = {f} \cup IF @ = Absent THEN {} ELSE @]
             ELSE dirs
  /\ todo' = [todo EXCEPT ![r][h] = @ \ {f}]
  /\ UNCHANGED <<hostVars, marked, bucketVars, pc, planVars, headVars, pass, toStage,
                 missing, staged, uploadVars, faults>>

(* One file is hardlinked, in a directory that is created if need be.  When *)
(* the source has gone the part is missing, and what was linked stays.      *)
Link(r, h, f) ==
  /\ todo[r][h] # Absent /\ f \in todo[r][h]
  /\ \/ /\ h \in onDisk
        /\ dirs' = [dirs EXCEPT ![h] = {f} \cup IF @ = Absent THEN {} ELSE @]
        /\ todo' = [todo EXCEPT ![r][h] = @ \ {f}]
        /\ UNCHANGED missing
     \/ /\ h \notin onDisk
        /\ todo' = [todo EXCEPT ![r][h] = Absent]
        /\ missing' = [missing EXCEPT ![r] = @ \cup {h}]
        /\ UNCHANGED dirs
  /\ UNCHANGED <<hostVars, marked, bucketVars, pc, planVars, headVars, pass, toStage,
                 staged, uploadVars, faults>>

(* The marker is written beside the directory, if that is still there.     *)
Mark(r, h) ==
  /\ todo[r][h] = {}
  /\ todo' = [todo EXCEPT ![r][h] = Absent]
  /\ IF dirs[h] # Absent
     THEN /\ marked' = marked \cup {h}
          /\ staged' = [staged EXCEPT ![r] = @ \cup {h}]
          /\ UNCHANGED missing
     ELSE /\ missing' = [missing EXCEPT ![r] = @ \cup {h}]
          /\ UNCHANGED <<marked, staged>>
  /\ UNCHANGED <<hostVars, dirs, bucketVars, pc, planVars, headVars, pass, toStage,
                 uploadVars, faults>>

PassOver(r) == pc[r] = "stage" /\ toStage[r] = {} /\ todo[r] = None

AllStaged(r) ==
  /\ PassOver(r)
  /\ missing[r] = {}
  /\ Goto(r, "await")
  /\ UNCHANGED <<hostVars, diskVars, bucketVars, planVars, headVars, stageVars, uploadVars,
                 faults>>

(* Mutant of Restage: the passes are not counted.                          *)
RestageForEver(r) ==
  /\ PassOver(r)
  /\ missing[r] # {}
  /\ missing' = [missing EXCEPT ![r] = {}]
  /\ current' = [current EXCEPT ![r] = ActiveParts]
  /\ Goto(r, "plan")
  /\ UNCHANGED <<hostVars, diskVars, bucketVars, listed, base, known, headVars, pass,
                 toStage, todo, staged, uploadVars, faults>>

(* Mutant of Restage: one pass more than MAX_STAGING_ITERATIONS.           *)
RestageOnceMore(r) ==
  /\ PassOver(r)
  /\ missing[r] # {}
  /\ pass[r] <= MaxPasses
  /\ pass' = [pass EXCEPT ![r] = @ + 1]
  /\ missing' = [missing EXCEPT ![r] = {}]
  /\ current' = [current EXCEPT ![r] = ActiveParts]
  /\ Goto(r, "plan")
  /\ UNCHANGED <<hostVars, diskVars, bucketVars, listed, base, known, headVars, toStage,
                 todo, staged, uploadVars, faults>>

(* Some parts disappeared: another pass, with a fresh parts list.          *)
Restage(r) ==
  /\ PassOver(r)
  /\ missing[r] # {}
  /\ pass[r] < MaxPasses
  /\ pass' = [pass EXCEPT ![r] = @ + 1]
  /\ missing' = [missing EXCEPT ![r] = {}]
  /\ current' = [current EXCEPT ![r] = ActiveParts]
  /\ Goto(r, "plan")
  /\ UNCHANGED <<hostVars, diskVars, bucketVars, listed, base, known, headVars, toStage,
                 todo, staged, uploadVars, faults>>

(* Mutant of Await: the HEAD checks still under way are given up.          *)
AwaitNoHeads(r) ==
  /\ pc[r] = "await"
  /\ pass' = [pass EXCEPT ![r] = 1]
  /\ Goto(r, "meta")
  /\ UNCHANGED <<hostVars, diskVars, bucketVars, planVars, headVars, toStage, todo, missing,
                 staged, uploadVars, faults>>

(* The HEAD task is awaited; the metadata loop begins.                     *)
Await(r) ==
  /\ pc[r] = "await"
  /\ toHead[r] = {}
  /\ pass' = [pass EXCEPT ![r] = 1]
  /\ Goto(r, "meta")
  /\ UNCHANGED <<hostVars, diskVars, bucketVars, planVars, headVars, toStage, todo, missing,
                 staged, uploadVars, faults>>

-----------------------------------------------------------------------------
(* table_map_from_parts, and whether collect_metadata_files can read the   *)
(* metadata file of every table.                                           *)
TablesOf(hs) == {TableOf[h] : h \in hs}
Described(r) == TablesOf(current[r]) \subseteq ddl

(* A metadata file cannot be read: another attempt, with a fresh list.     *)
Redescribe(r) ==
  /\ pc[r] = "meta"
  /\ ~Described(r)
  /\ pass[r] < MaxPasses
  /\ pass' = [pass EXCEPT ![r] = @ + 1]
  /\ current' = [current EXCEPT ![r] = ActiveParts]
  /\ UNCHANGED <<hostVars, diskVars, bucketVars, pc, listed, base, known, headVars, toStage,
                 todo, missing, staged, uploadVars, faults>>

(* Mutant of Backed: a part that is not staged is left out.                *)
BackedOrNot(r) == TRUE

(* Each part that needs it is staged, or was found in the bucket.          *)
Backed(r) == NeedUpload(r) \subseteq staged[r] \cup found[r]

(* The metadata is complete, and so is the staging: what is staged and     *)
(* still needed is uploaded, the rest is removed.                          *)
Describe(r) ==
  /\ pc[r] = "meta"
  /\ Described(r)
  /\ Backed(r)
  /\ LET wanted == (staged[r] \cap NeedUpload(r)) \ found[r]
         unused == staged[r] \ wanted
     IN  /\ left' = [left EXCEPT ![r] = wanted]
         /\ dirs' = [h \in Parts |-> IF h \in unused THEN Absent ELSE dirs[h]]
         /\ marked' = marked \ unused
  /\ Goto(r, "upload")
  /\ UNCHANGED <<hostVars, bucketVars, planVars, headVars, stageVars, listing, uploaded,
                 failing, faults>>

(* collect_files of one staged directory.                                  *)
Collect(r, h) ==
  /\ pc[r] = "upload"
  /\ h \in left[r]
  /\ listing[r][h] = Absent
  /\ IF dirs[h] # Absent
     THEN /\ listing' = [listing EXCEPT ![r][h] = dirs[h]]
          /\ UNCHANGED <<left, failing>>
     ELSE /\ left' = [left EXCEPT ![r] = @ \ {h}]
          /\ failing' = [failing EXCEPT ![r] = TRUE]
          /\ UNCHANGED listing
  /\ UNCHANGED <<hostVars, diskVars, bucketVars, pc, planVars, headVars, stageVars, uploaded,
                 faults>>

(* The archive of the files collected reaches the bucket.  If one of them  *)
(* has gone the archive is cut and the run will fail (see PartUpload); if  *)
(* not the staged directory is removed.                                    *)
Put(r, h) ==
  /\ listing[r][h] # Absent
  /\ LET there == IF dirs[h] = Absent THEN {} ELSE dirs[h]
         read == listing[r][h] \cap there
     IN  /\ blobs' = [blobs EXCEPT ![h] = read]
         /\ IF read = listing[r][h]
            THEN /\ dirs' = [dirs EXCEPT ![h] = Absent]
                 /\ marked' = marked \ {h}
                 /\ UNCHANGED failing
            ELSE /\ failing' = [failing EXCEPT ![r] = TRUE]
                 /\ UNCHANGED diskVars
  /\ uploaded' = [uploaded EXCEPT ![r] = @ \cup {h}]
  /\ left' = [left EXCEPT ![r] = @ \ {h}]
  /\ listing' = [listing EXCEPT ![r][h] = Absent]
  /\ UNCHANGED <<hostVars, manifests, pc, planVars, headVars, stageVars, faults>>

PutFails(r, h) ==
  /\ listing[r][h] # Absent
  /\ Fault
  /\ failing' = [failing EXCEPT ![r] = TRUE]
  /\ left' = [left EXCEPT ![r] = @ \ {h}]
  /\ listing' = [listing EXCEPT ![r][h] = Absent]
  /\ UNCHANGED <<hostVars, diskVars, bucketVars, pc, planVars, headVars, stageVars, uploaded>>

(* All uploads have succeeded: staging_cleanup.cleanup_now.                *)
UploadsEnd(r) ==
  /\ pc[r] = "upload"
  /\ left[r] = {}
  /\ ~failing[r]
  /\ EmptyStaging
  /\ Goto(r, "write")
  /\ UNCHANGED <<hostVars, bucketVars, planVars, headVars, stageVars, uploadVars, faults>>

-----------------------------------------------------------------------------
(* The run is over, and its locals go with it.                             *)
End(r, outcome) ==
  /\ Goto(r, outcome)
  /\ current' = [current EXCEPT ![r] = {}] /\ listed' = [listed EXCEPT ![r] = {}]
  /\ base' = [base EXCEPT ![r] = Absent] /\ known' = [known EXCEPT ![r] = {}]
  /\ toHead' = [toHead EXCEPT ![r] = {}] /\ found' = [found EXCEPT ![r] = {}]
  /\ pass' = [pass EXCEPT ![r] = 1]
  /\ toStage' = [toStage EXCEPT ![r] = {}] /\ todo' = [todo EXCEPT ![r] = None]
  /\ missing' = [missing EXCEPT ![r] = {}] /\ staged' = [staged EXCEPT ![r] = {}]
  /\ left' = [left EXCEPT ![r] = {}] /\ listing' = [listing EXCEPT ![r] = None]
  /\ failing' = [failing EXCEPT ![r] = FALSE]
  /\ UNCHANGED <<hostVars, uploaded>>

(* The size of a blob is known from the base manifest, from HEAD, or from  *)
(* the upload.                                                             *)
Sized(r) == current[r] \subseteq known[r] \cup found[r] \cup uploaded[r]

(* The manifest is written, once every part has its size.  The response    *)
(* may be lost.                                                            *)
Write(r) ==
  /\ pc[r] = "write"
  /\ Sized(r)
  /\ manifests' = [manifests EXCEPT
        ![r] = [parts |-> current[r], tables |-> TablesOf(current[r])]]
  /\ \/ End(r, "done") /\ UNCHANGED faults
     \/ End(r, "failed") /\ Fault
  /\ UNCHANGED <<blobs, diskVars>>

(* Where the code returns an error: too many passes or attempts, a part    *)
(* that is not staged, an upload that failed, no size, or a failed call.   *)
Refused(r) ==
  \/ PassOver(r) /\ missing[r] # {} /\ pass[r] = MaxPasses
  \/ pc[r] = "meta" /\ ~Described(r) /\ pass[r] = MaxPasses
  \/ pc[r] = "meta" /\ Described(r) /\ ~Backed(r)
  \/ pc[r] = "upload" /\ left[r] = {} /\ failing[r]
  \/ pc[r] = "write" /\ ~Sized(r)

CallFails(r) ==
  /\ Fault
  /\ \/ pc[r] \in {"list", "base", "setup", "write"}
     \/ PassOver(r) /\ missing[r] # {}
     \/ pc[r] = "meta" /\ ~Described(r)

(* The error is returned, and StagingCleanup dropped if there is one yet.  *)
Fail(r) ==
  /\ \/ Refused(r) /\ UNCHANGED faults
     \/ CallFails(r)
  /\ End(r, IF pc[r] = "list" THEN "unstarted" ELSE "failed")
  /\ IF pc[r] \in {"list", "base", "setup"} THEN UNCHANGED diskVars ELSE EmptyStaging
  /\ UNCHANGED bucketVars

(* The process is killed: nothing is cleaned up.                           *)
Crash(r) ==
  /\ Running(r)
  /\ Fault
  /\ End(r, IF pc[r] = "list" THEN "unstarted" ELSE "failed")
  /\ UNCHANGED <<diskVars, bucketVars>>

-----------------------------------------------------------------------------
Step(r) ==
  \/ List(r) \/ ReadBase(r) \/ Setup(r) \/ Plan(r) \/ AllStaged(r) \/ Restage(r) \/ Await(r)
  \/ Redescribe(r) \/ Describe(r) \/ UploadsEnd(r) \/ Write(r) \/ Fail(r)
  \/ \E h \in Parts :
       \/ Head(r, h) \/ StageBegins(r, h) \/ Mark(r, h) \/ Collect(r, h) \/ Put(r, h)
       \/ \E f \in Files : Link(r, h, f)

Next ==
  \/ ClickHouse
  \/ \E r \in Runs :
       Query(r) \/ Step(r) \/ Crash(r) \/ \E h \in Parts : PutFails(r, h)

Spec == Init /\ [][Next]_vars

(* A run that has begun goes on; ClickHouse does what it likes.            *)
FairSpec == Spec /\ \A r \in Runs : WF_vars(Step(r))

-----------------------------------------------------------------------------
(* Every variable holds a value of its type.                               *)
TypeOK ==
  /\ active \subseteq onDisk /\ onDisk \subseteq Parts /\ ddl \subseteq Tables
  /\ dirs \in [Parts -> (SUBSET Files) \cup {Absent}]
  /\ blobs \in [Parts -> (SUBSET Files) \cup {Absent}]
  /\ marked \subseteq Parts
  /\ manifests \in [Runs -> [parts : SUBSET Parts, tables : SUBSET Tables] \cup {Absent}]
  /\ pc \in [Runs -> Pc]
  /\ base \in [Runs -> Runs \cup {Absent}]
  /\ pass \in [Runs -> 1..MaxPasses]
  /\ todo \in [Runs -> [Parts -> (SUBSET Files) \cup {Absent}]]
  /\ listing \in [Runs -> [Parts -> (SUBSET Files) \cup {Absent}]]
  /\ current \in [Runs -> SUBSET Parts] /\ listed \in [Runs -> SUBSET Parts]
  /\ known \in [Runs -> SUBSET Parts]
  /\ toHead \in [Runs -> SUBSET Parts] /\ found \in [Runs -> SUBSET Parts]
  /\ toStage \in [Runs -> SUBSET Parts]
  /\ missing \in [Runs -> SUBSET Parts] /\ staged \in [Runs -> SUBSET Parts]
  /\ left \in [Runs -> SUBSET Parts] /\ uploaded \in [Runs -> SUBSET Parts]
  /\ failing \in [Runs -> BOOLEAN]
  /\ faults \in 0..MaxFaults

(* Whatever a manifest references is in the bucket, with all its files:    *)
(* although ClickHouse removes parts while they are linked, a killed run   *)
(* leaves half of them in the staging tree, and parts are staged again     *)
(* (stage_part_dir_sync, upload_part_archives, create_snapshot).           *)
ArchivesWhole ==
  \A r \in Present : \A h \in manifests[r].parts : blobs[h] = Files

(* snapshots.rs:894-896: at the end each part has a size from one of three *)
(* disjoint sources; that one has none "is a bug, not a user error".       *)
SizesKnown ==
  \A r \in Runs : pc[r] = "write" =>
    /\ Sized(r)
    /\ known[r] \cap (found[r] \cup uploaded[r]) = {}
    /\ found[r] \cap uploaded[r] = {}

(* A run that has begun ends, however often ClickHouse takes its parts and *)
(* tables away (MAX_STAGING_ITERATIONS).                                   *)
RunEnds == \A r \in Runs : Running(r) ~> Ended(r)

(* The run as the bucket sees it.  Until the metadata is complete Backup   *)
(* has the first list of parts, which is the one that was HEAD-checked.    *)
SeenBlobs == [h \in Parts |-> IF blobs[h] = Absent THEN Absent ELSE 0]

SeenSnapshots ==
  [n \in Runs |-> IF manifests[n] = Absent THEN Absent
                  ELSE [refs |-> manifests[n].parts, by |-> n]]

SeenPc ==
  [r \in Runs |->
     CASE pc[r] \in {"idle", "list", "unstarted"} -> "idle"
       [] pc[r] \in {"setup", "plan", "stage", "await", "meta"} -> "stage"
       [] pc[r] \in {"upload", "write"} -> "upload"
       [] OTHER -> pc[r]]

SeenParts ==
  [r \in Runs |-> CASE pc[r] = "list" -> {}
                    [] pc[r] \in {"upload", "write"} -> current[r]
                    [] OTHER -> listed[r]]

Seen == INSTANCE Backup WITH
  Hashes <- Parts, Names <- Runs, Backups <- Runs, Absent <- Absent,
  Replicas <- {"replica"}, NoReplica <- "none",
  Replica <- [n \in Runs |-> "replica"], RunReplica <- [r \in Runs |-> "replica"],
  NameOf <- [r \in Runs |-> r], PartLists <- SUBSET Parts, Large <- Large,
  MaxTime <- 0, MaxBackup <- 0, LastStart <- 0, now <- 0,
  blobs <- SeenBlobs, snapshots <- SeenSnapshots, bpc <- SeenPc,
  started <- [r \in Runs |-> 0], base <- base, parts <- SeenParts,
  known <- known, toHead <- toHead, found <- found, uploaded <- uploaded

(* Every run implements Backup: what Backup, and with it BackupGc, assumes *)
(* of a run at the bucket is what create_snapshot does.                    *)
ImplementsBackup == Seen!BackupsSpec
=============================================================================
