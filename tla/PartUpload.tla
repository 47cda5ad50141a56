----------------------------- MODULE PartUpload -----------------------------
(***************************************************************************)
(* How the archive of one part reaches its key in the bucket               *)
(* (upload_part_archives in snapshots.rs, put_object_multipart_reader in   *)
(* storage.rs, write_zip in part_zip.rs).  Four kinds of actors work at    *)
(* once: a thread writes the ZIP into a pipe, a reader task cuts the       *)
(* stream into chunks, the uploader spawns a task for each chunk and       *)
(* collects their results, and the tasks put the chunks.  A failed run is  *)
(* followed by another run of the backup, which may find the object with   *)
(* HEAD.  Other parts use other keys and pipes; one part is enough.        *)
(***************************************************************************)
EXTENDS Integers, Sequences, FiniteSets

CONSTANTS
  Size,         \* blocks in the whole archive
  ChunkSize,    \* blocks in a chunk (compute_chunk_size)
  PipeSize,     \* blocks the duplex pipe and the BufWriter hold
  ReadAhead,    \* READ_AHEAD_CHUNKS, the capacity of the channel
  PartTasks,    \* multipart_part_concurrency
  IsLarge,      \* the part has HEAD_CHECK_THRESHOLD bytes
  Absent,       \* no object at the key
  MaxRuns,      \* bound: backup runs
  MaxFaults     \* bound: calls and reads that fail, and crashes

ASSUME SizesAssumption ==
  /\ Size \in Nat \ {0} /\ ChunkSize \in Nat \ {0} /\ PipeSize \in Nat \ {0}
  /\ ReadAhead \in Nat \ {0} /\ PartTasks \in Nat \ {0}
ASSUME BoundsAssumption == MaxRuns \in Nat /\ MaxFaults \in Nat
ASSUME IsLargeAssumption == IsLarge \in BOOLEAN

VARIABLES
  pc,           \* where the run is
  writer,       \* the thread in write_zip
  written,      \* blocks the writer has written
  pipe,         \* blocks in the pipe
  reader,       \* the reader task
  buf,          \* blocks in the chunk the reader fills
  partNo,       \* part_number
  chan,         \* chunk_tx/chunk_rx
  sending,      \* chunks whose task has not ended
  sent,         \* chunks whose task has succeeded and is not joined
  broken,       \* chunks whose task has failed and is not joined
  completed,    \* completed_parts, as a set: they are sorted before use
  uploaded,     \* blocks in completed
  open,         \* the multipart upload exists in S3
  object,       \* the object at the key: its chunks, or Absent
  referenced,   \* a manifest references the key
  runs,         \* how many runs there have been
  faults,       \* how many faults there have been
  misread       \* history: some writer failed to read its files

writerVars == <<writer, written, pipe>>
readerVars == <<reader, buf, partNo, chan>>
taskVars == <<sending, sent, broken, completed, uploaded>>
bucketVars == <<open, object, referenced>>
runVars == <<runs, faults, misread>>
vars == <<pc, writerVars, readerVars, taskVars, bucketVars, runVars>>

Pc == {"idle", "create", "recv", "drain", "complete", "abort", "uploaded",
       "failed", "manifest"}

(* A chunk is its part number and its length.  What it holds follows, since *)
(* the pipe delivers the stream in order.                                   *)
Chunks == [no : Nat \ {0}, len : 1..ChunkSize]

(* The number of chunks of the whole archive, and these chunks.            *)
Count == (Size + ChunkSize - 1) \div ChunkSize

ASSUME AbsentAssumption ==
  \A archive \in SUBSET [no : 1..Count, len : 1..ChunkSize] : Absent # archive

WholeArchive ==
  {[no |-> i, len |-> IF i < Count THEN ChunkSize ELSE Size - (Count - 1) * ChunkSize] :
     i \in 1..Count}

(* Mutant of Pipeline: the count of uploaded bytes is not reset.           *)
PipelineKeepsCount ==
  /\ written' = 0 /\ pipe' = 0 /\ buf' = 0 /\ partNo' = 0 /\ chan' = <<>>
  /\ sending' = {} /\ sent' = {} /\ broken' = {}
  /\ completed' = {} /\ UNCHANGED uploaded

(* A pipeline with nothing in it.                                          *)
Pipeline ==
  /\ written' = 0 /\ pipe' = 0 /\ buf' = 0 /\ partNo' = 0 /\ chan' = <<>>
  /\ sending' = {} /\ sent' = {} /\ broken' = {}
  /\ completed' = {} /\ uploaded' = 0

Init ==
  /\ pc = "idle" /\ writer = "off" /\ reader = "off"
  /\ written = 0 /\ pipe = 0 /\ buf = 0 /\ partNo = 0 /\ chan = <<>>
  /\ sending = {} /\ sent = {} /\ broken = {}
  /\ completed = {} /\ uploaded = 0
  /\ open = FALSE /\ object = Absent /\ referenced = FALSE
  /\ runs = 0 /\ faults = 0 /\ misread = FALSE

Fault == faults < MaxFaults /\ faults' = faults + 1

-----------------------------------------------------------------------------
(* A backup run comes to this part.  A HEAD check of a large part finds    *)
(* the object, and the run takes it as it is.                              *)
HeadFinds ==
  /\ pc = "idle"
  /\ runs < MaxRuns
  /\ IsLarge
  /\ object # Absent
  /\ runs' = runs + 1
  /\ pc' = "manifest"
  /\ UNCHANGED <<writerVars, readerVars, taskVars, bucketVars, faults, misread>>

(* Else the upload begins: the writer thread starts at once.               *)
Begin ==
  /\ pc = "idle"
  /\ runs < MaxRuns
  /\ \/ (~IsLarge \/ object = Absent) /\ UNCHANGED faults
     \/ Fault                            \* HEAD fails
  /\ runs' = runs + 1
  /\ pc' = "create"
  /\ writer' = "writing"
  /\ reader' = "off"
  /\ Pipeline
  /\ UNCHANGED <<bucketVars, misread>>

(* create_multipart_upload; then the reader task is spawned.               *)
Create ==
  /\ pc = "create"
  /\ open' = TRUE
  /\ reader' = "reading"
  /\ pc' = "recv"
  /\ UNCHANGED <<writerVars, buf, partNo, chan, taskVars, object, referenced, runVars>>

CreateFails ==
  /\ pc = "create"
  /\ Fault
  /\ pc' = "failed"
  /\ UNCHANGED <<writerVars, readerVars, taskVars, bucketVars, runs, misread>>

-----------------------------------------------------------------------------
(* Nobody reads the pipe any more: its read end has been dropped.          *)
PipeBroken == reader = "done" \/ (reader = "off" /\ pc = "failed")

WriterWrites ==
  /\ writer = "writing"
  /\ written < Size
  /\ pipe < PipeSize
  /\ ~PipeBroken
  /\ written' = written + 1
  /\ pipe' = pipe + 1
  /\ UNCHANGED <<pc, writer, readerVars, taskVars, bucketVars, runVars>>

WriterEnds ==
  /\ writer = "writing"
  /\ written = Size
  /\ writer' = "ok"
  /\ UNCHANGED <<pc, written, pipe, readerVars, taskVars, bucketVars, runVars>>

(* A staged file cannot be opened or read.  The write end is dropped; what *)
(* was written before is flushed and can still be read.                    *)
WriterMisreads ==
  /\ writer = "writing"
  /\ written < Size
  /\ Fault
  /\ writer' = "failed"
  /\ misread' = TRUE
  /\ UNCHANGED <<pc, written, pipe, readerVars, taskVars, bucketVars, runs>>

(* The write or the flush meets a pipe without a reader.                   *)
WriterBreaks ==
  /\ writer = "writing"
  /\ PipeBroken
  /\ writer' = "failed"
  /\ UNCHANGED <<pc, written, pipe, readerVars, taskVars, bucketVars, runVars>>

-----------------------------------------------------------------------------
ReaderReads ==
  /\ reader = "reading"
  /\ buf < ChunkSize
  /\ pipe > 0
  /\ buf' = buf + 1
  /\ pipe' = pipe - 1
  /\ UNCHANGED <<pc, writer, written, reader, partNo, chan, taskVars, bucketVars, runVars>>

(* read_buf returns 0: the pipe is empty and its write end is dropped.     *)
EndOfStream == pipe = 0 /\ writer \in {"ok", "failed"}

(* The chunk is full, or the last one.                                     *)
ReaderCuts ==
  /\ reader = "reading"
  /\ buf = ChunkSize \/ (EndOfStream /\ buf > 0)
  /\ partNo' = partNo + 1
  /\ reader' = "sending"
  /\ UNCHANGED <<pc, writerVars, buf, chan, taskVars, bucketVars, runVars>>

ReaderEnds ==
  /\ reader = "reading"
  /\ EndOfStream
  /\ buf = 0
  /\ reader' = "done"
  /\ UNCHANGED <<pc, writerVars, buf, partNo, chan, taskVars, bucketVars, runVars>>

(* Mutant of ReceiverDropped: chunk_rx outlives the uploader.              *)
ReceiverKept == FALSE

(* The inner function has returned an error, and chunk_rx went with it.    *)
ReceiverDropped == pc \in {"abort", "failed", "idle"}

ReaderSends ==
  /\ reader = "sending"
  /\ ~ReceiverDropped
  /\ Len(chan) < ReadAhead
  /\ chan' = Append(chan, [no |-> partNo, len |-> buf])
  /\ reader' = IF buf < ChunkSize THEN "done" ELSE "reading"
  /\ buf' = 0
  /\ UNCHANGED <<pc, writerVars, partNo, taskVars, bucketVars, runVars>>

ReaderSendFails ==
  /\ reader = "sending"
  /\ ReceiverDropped
  /\ reader' = "done"
  /\ UNCHANGED <<pc, writerVars, buf, partNo, chan, taskVars, bucketVars, runVars>>

-----------------------------------------------------------------------------
Tasks == sending \cup sent \cup broken

(* A task ends: its chunk is stored, after retries or not, or is not.      *)
TaskSucceeds(c) ==
  /\ c \in sending
  /\ sending' = sending \ {c}
  /\ sent' = sent \cup {c}
  /\ UNCHANGED <<pc, writerVars, readerVars, broken, completed, uploaded, bucketVars, runVars>>

TaskFails(c) ==
  /\ c \in sending
  /\ Fault
  /\ sending' = sending \ {c}
  /\ broken' = broken \cup {c}
  /\ UNCHANGED <<pc, writerVars, readerVars, sent, completed, uploaded, bucketVars, runs, misread>>

AllBusy == Cardinality(Tasks) >= PartTasks

(* The uploader waits for a task: all are busy, or the stream is over.     *)
Joining == (pc = "recv" /\ AllBusy) \/ (pc = "drain" /\ Tasks # {})

JoinSent(c) ==
  /\ Joining
  /\ c \in sent
  /\ sent' = sent \ {c}
  /\ completed' = completed \cup {c}
  /\ uploaded' = uploaded + c.len
  /\ UNCHANGED <<pc, writerVars, readerVars, sending, broken, bucketVars, runVars>>

(* The first error that is joined ends the upload; the tasks left are      *)
(* aborted with the JoinSet.                                               *)
JoinBroken ==
  /\ Joining
  /\ broken # {}
  /\ sending' = {} /\ sent' = {} /\ broken' = {}
  /\ pc' = "abort"
  /\ UNCHANGED <<writerVars, readerVars, completed, uploaded, bucketVars, runVars>>

Spawn ==
  /\ pc = "recv"
  /\ ~AllBusy
  /\ chan # <<>>
  /\ sending' = sending \cup {Head(chan)}
  /\ chan' = Tail(chan)
  /\ UNCHANGED <<pc, writerVars, reader, buf, partNo, sent, broken, completed, uploaded,
                 bucketVars, runVars>>

(* The channel is empty and its sender gone.                               *)
RecvNone ==
  /\ pc = "recv"
  /\ ~AllBusy
  /\ chan = <<>>
  /\ reader = "done"
  /\ pc' = "drain"
  /\ UNCHANGED <<writerVars, readerVars, taskVars, bucketVars, runVars>>

(* Mutant of Drained: the tasks still at work are not waited for.          *)
DrainedEarly ==
  /\ pc = "drain"
  /\ pc' = "complete"
  /\ UNCHANGED <<writerVars, readerVars, taskVars, bucketVars, runVars>>

Drained ==
  /\ pc = "drain"
  /\ Tasks = {}
  /\ pc' = "complete"
  /\ UNCHANGED <<writerVars, readerVars, taskVars, bucketVars, runVars>>

(* complete_multipart_upload takes effect: the object is there.  Its       *)
(* response may be lost, and then the call is made again.                  *)
Complete ==
  /\ pc = "complete"
  /\ open
  /\ completed # {}
  /\ open' = FALSE
  /\ object' = completed
  /\ \/ pc' = "uploaded" /\ UNCHANGED faults
     \/ Fault /\ UNCHANGED pc
  /\ UNCHANGED <<writerVars, readerVars, taskVars, referenced, runs, misread>>

(* It fails for good: always when the upload is no more, or has no parts.  *)
CompleteFails ==
  /\ pc = "complete"
  /\ \/ (~open \/ completed = {}) /\ UNCHANGED faults
     \/ Fault
  /\ pc' = "abort"
  /\ UNCHANGED <<writerVars, readerVars, taskVars, bucketVars, runs, misread>>

(* abort_multipart_upload; an error is only warned about.                  *)
Abort ==
  /\ pc = "abort"
  /\ \/ open' = FALSE /\ UNCHANGED faults
     \/ UNCHANGED open /\ Fault
  /\ pc' = "failed"
  /\ UNCHANGED <<writerVars, readerVars, taskVars, object, referenced, runs, misread>>

-----------------------------------------------------------------------------
WriterOver == writer \in {"ok", "failed"}

(* Mutant of Verified: nobody asks how the writer ended.                   *)
VerifiedByUpload == TRUE

Verified == writer = "ok" /\ uploaded = written

(* The writer is awaited whatever became of the upload; the part is        *)
(* uploaded if both agree, and the run goes on to its manifest.            *)
Accept ==
  /\ pc = "uploaded"
  /\ WriterOver
  /\ Verified
  /\ pc' = "manifest"
  /\ UNCHANGED <<writerVars, readerVars, taskVars, bucketVars, runVars>>

Reject ==
  /\ WriterOver
  /\ pc = "failed" \/ (pc = "uploaded" /\ ~Verified)
  /\ pc' = "idle"
  /\ UNCHANGED <<writerVars, readerVars, taskVars, bucketVars, runVars>>

(* The manifest is written, or the run fails before that.                  *)
WriteManifest ==
  /\ pc = "manifest"
  /\ referenced' = TRUE
  /\ pc' = "idle"
  /\ UNCHANGED <<writerVars, readerVars, taskVars, open, object, runVars>>

Crash ==
  /\ pc # "idle"
  /\ Fault
  /\ pc' = "idle"
  /\ writer' = "off" /\ reader' = "off"
  /\ Pipeline
  /\ UNCHANGED <<bucketVars, runs, misread>>

-----------------------------------------------------------------------------
Writer == WriterWrites \/ WriterEnds \/ WriterBreaks
Reader == ReaderReads \/ ReaderCuts \/ ReaderEnds \/ ReaderSends \/ ReaderSendFails
Uploader ==
  \/ Create \/ Spawn \/ RecvNone \/ Drained \/ Complete \/ CompleteFails \/ Abort
  \/ JoinBroken \/ (\E c \in sent : JoinSent(c))
  \/ Accept \/ Reject \/ WriteManifest

Next ==
  \/ HeadFinds \/ Begin \/ CreateFails \/ Crash
  \/ Writer \/ WriterMisreads
  \/ Reader
  \/ \E c \in sending : TaskSucceeds(c) \/ TaskFails(c)
  \/ Uploader

Spec == Init /\ [][Next]_vars

(* The writer has a thread of its own, tokio polls every task that is      *)
(* ready, and a call to S3 is answered in the end.                         *)
Fairness ==
  /\ WF_vars(Writer)
  /\ WF_vars(Reader)
  /\ \A c \in [no : 1..Count, len : 1..ChunkSize] :
       WF_vars(TaskSucceeds(c) \/ TaskFails(c))
  /\ WF_vars(Uploader)

FairSpec == Spec /\ Fairness

-----------------------------------------------------------------------------
(* Every variable holds a value of its type.                               *)
TypeOK ==
  /\ pc \in Pc
  /\ writer \in {"off", "writing", "ok", "failed"}
  /\ written \in 0..Size
  /\ pipe \in 0..PipeSize
  /\ reader \in {"off", "reading", "sending", "done"}
  /\ buf \in 0..ChunkSize
  /\ partNo \in Nat
  /\ chan \in Seq(Chunks)
  /\ sending \subseteq Chunks /\ sent \subseteq Chunks
  /\ broken \subseteq Chunks /\ completed \subseteq Chunks
  /\ uploaded \in 0..Size
  /\ open \in BOOLEAN
  /\ object = Absent \/ object \subseteq Chunks
  /\ referenced \in BOOLEAN
  /\ runs \in 0..MaxRuns
  /\ faults \in 0..MaxFaults
  /\ misread \in BOOLEAN

(* A run whose upload and writer agree has put the whole archive at the    *)
(* key, whatever chunks failed, were retried or overtook one another, and  *)
(* whatever earlier runs left there (upload_part_archives' checks).        *)
AcceptedIsWhole ==
  [][pc = "uploaded" /\ pc' = "manifest" => object = WholeArchive]_vars

(* As long as no writer fails to read its files, the object at the key is  *)
(* the whole archive whenever there is one: no crash, failed call, aborted *)
(* upload or lost response leaves a part of it there for a HEAD check to   *)
(* find (put_object_multipart_reader).                                     *)
ObjectWholeUnlessMisread ==
  ~misread => object \in {Absent, WholeArchive}

(* The run and the key as Snapshot sees them.                              *)
SeenRun ==
  CASE pc \in {"create", "recv", "drain"} -> "upload"
    [] pc = "complete" -> IF open THEN "upload" ELSE "stored"
    [] pc = "uploaded" -> "stored"
    [] pc \in {"abort", "failed"} -> "failing"
    [] pc = "manifest" -> "accepted"
    [] OTHER -> "idle"

SeenReadable == pc \in {"idle", "manifest"} \/ writer # "failed"

SeenArchive ==
  IF object = Absent THEN "none" ELSE IF object = WholeArchive THEN "whole" ELSE "cut"

Seen == INSTANCE Upload WITH
  run <- SeenRun, readable <- SeenReadable, archive <- SeenArchive

(* Writer, reader, tasks and uploader together are one upload as Snapshot  *)
(* takes it to be: each run changes the object once at most and not after  *)
(* it has failed, to the whole archive unless its own writer has failed,   *)
(* and in that case the run does not go on to its manifest                 *)
(* (upload_part_archives, put_object_multipart_reader).                    *)
ImplementsUpload == Seen!Spec

(* The pipeline never gets stuck: with a full pipe, a full channel, a      *)
(* writer or a task that fails, every run ends.                            *)
RunEnds == pc # "idle" ~> pc = "idle"

(* docs/clickhouse-backup-format.md:139-141 says that uploaded blobs are   *)
(* harmless orphans when a process ends before its manifest.  They are     *)
(* not: when a writer fails the stream ends as if it were complete, and    *)
(* the upload puts a cut archive at the key, over a whole one or for the   *)
(* HEAD check of a later run to find.                                      *)
ReferencedIsWhole == referenced => object = WholeArchive
=============================================================================
