------------------------- MODULE PartUpload_proofs -------------------------
(***************************************************************************)
(* Proofs about PartUpload for archives, chunks, pipes and channels of any *)
(* size, any number of tasks, runs and faults: what becomes of the stream  *)
(* between the writer and the completed upload.                            *)
(***************************************************************************)
EXTENDS PartUpload, FiniteSetTheorems, TLAPS

(* TypeOK but for the bound on uploaded, in two parts.                     *)
Flags == open \in BOOLEAN /\ referenced \in BOOLEAN /\ misread \in BOOLEAN

Types ==
  /\ pc \in Pc
  /\ writer \in {"off", "writing", "ok", "failed"}
  /\ written \in 0..Size
  /\ pipe \in 0..PipeSize
  /\ reader \in {"off", "reading", "sending", "done"}
  /\ buf \in 0..ChunkSize
  /\ partNo \in Nat
  /\ reader = "sending" => buf > 0 /\ partNo > 0
  /\ chan \in Seq(Chunks)
  /\ sending \subseteq Chunks /\ sent \subseteq Chunks
  /\ broken \subseteq Chunks /\ completed \subseteq Chunks
  /\ uploaded \in Nat
  /\ object = Absent \/ object \subseteq Chunks
  /\ runs \in 0..MaxRuns
  /\ faults \in 0..MaxFaults

LEMMA Numbers ==
  /\ Size \in Nat /\ Size > 0 /\ ChunkSize \in Nat /\ ChunkSize > 0
  /\ PipeSize \in Nat /\ ReadAhead \in Nat /\ PartTasks \in Nat
  /\ MaxRuns \in Nat /\ MaxFaults \in Nat
  BY SizesAssumption, BoundsAssumption

LEMMA TypesInit == Init => Types
<1> SUFFICES ASSUME Init PROVE Types
  OBVIOUS
<1>1. chan \in Seq(Chunks)
  BY DEF Init
<1> QED
  BY <1>1, Numbers DEF Init, Types, Pc

LEMMA FlagsStep == Flags /\ [Next]_vars => Flags'
<1> SUFFICES ASSUME Flags, [Next]_vars PROVE Flags'
  OBVIOUS
<1>1. UNCHANGED open \/ open' = TRUE \/ open' = FALSE
  BY DEF Next, HeadFinds, Begin, CreateFails, Crash, Writer, WriterWrites, WriterEnds,
     WriterBreaks, WriterMisreads, Reader, ReaderReads, ReaderCuts, ReaderEnds, ReaderSends,
     ReaderSendFails, TaskSucceeds, TaskFails, Uploader, Create, Spawn, RecvNone, Drained,
     Complete, CompleteFails, Abort, JoinBroken, JoinSent, Accept, Reject, WriteManifest,
     bucketVars, vars
<1>2. UNCHANGED referenced \/ referenced' = TRUE
  BY DEF Next, HeadFinds, Begin, CreateFails, Crash, Writer, WriterWrites, WriterEnds,
     WriterBreaks, WriterMisreads, Reader, ReaderReads, ReaderCuts, ReaderEnds, ReaderSends,
     ReaderSendFails, TaskSucceeds, TaskFails, Uploader, Create, Spawn, RecvNone, Drained,
     Complete, CompleteFails, Abort, JoinBroken, JoinSent, Accept, Reject, WriteManifest,
     bucketVars, vars
<1>3. UNCHANGED misread \/ misread' = TRUE
  BY DEF Next, HeadFinds, Begin, CreateFails, Crash, Writer, WriterWrites, WriterEnds,
     WriterBreaks, WriterMisreads, Reader, ReaderReads, ReaderCuts, ReaderEnds, ReaderSends,
     ReaderSendFails, TaskSucceeds, TaskFails, Uploader, Create, Spawn, RecvNone, Drained,
     Complete, CompleteFails, Abort, JoinBroken, JoinSent, Accept, Reject, WriteManifest,
     runVars, vars
<1> QED
  BY <1>1, <1>2, <1>3, ZenonT(20) DEF Flags

LEMMA TypesStep == Types /\ [Next]_vars => Types'
<1> SUFFICES ASSUME Types, [Next]_vars PROVE Types'
  OBVIOUS
<1> USE Numbers DEF Types, Pc, runVars, bucketVars, writerVars, readerVars, taskVars
<1>1. CASE HeadFinds
  BY <1>1 DEF HeadFinds
<1>2. CASE Begin
  <2>1. chan' = <<>> /\ chan' \in Seq(Chunks)
    BY <1>2 DEF Begin, Pipeline
  <2> QED BY <1>2, <2>1 DEF Begin, Pipeline, Fault
<1>3. CASE Create \/ CreateFails
  BY <1>3 DEF Create, CreateFails, Fault
<1>4. CASE Crash
  <2>1. chan' = <<>> /\ chan' \in Seq(Chunks)
    BY <1>4 DEF Crash, Pipeline
  <2> QED BY <1>4, <2>1 DEF Crash, Pipeline, Fault
<1>5. CASE Writer \/ WriterMisreads
  BY <1>5 DEF Writer, WriterWrites, WriterEnds, WriterBreaks, WriterMisreads, Fault
<1>6. CASE ReaderReads \/ ReaderCuts \/ ReaderEnds \/ ReaderSendFails
  BY <1>6 DEF ReaderReads, ReaderCuts, ReaderEnds, ReaderSendFails
<1>7. CASE ReaderSends
  <2>1. [no |-> partNo, len |-> buf] \in Chunks
    BY <1>7 DEF ReaderSends, Chunks
  <2>2. chan' \in Seq(Chunks)
    BY <1>7, <2>1 DEF ReaderSends
  <2> QED BY <1>7, <2>2 DEF ReaderSends
<1>8. ASSUME NEW c \in sending, TaskSucceeds(c) \/ TaskFails(c) PROVE Types'
  BY <1>8 DEF TaskSucceeds, TaskFails, Fault
<1>9. ASSUME NEW c \in sent, JoinSent(c) PROVE Types'
  BY <1>9 DEF JoinSent, Chunks
<1>10. CASE Spawn
  <2>1. Head(chan) \in Chunks /\ Tail(chan) \in Seq(Chunks)
    BY <1>10 DEF Spawn
  <2> QED BY <1>10, <2>1 DEF Spawn
<1>11. CASE JoinBroken \/ RecvNone \/ Drained
  BY <1>11 DEF JoinBroken, RecvNone, Drained
<1>12. CASE Complete \/ CompleteFails \/ Abort
  BY <1>12 DEF Complete, CompleteFails, Abort, Fault
<1>13. CASE Accept \/ Reject \/ WriteManifest
  BY <1>13 DEF Accept, Reject, WriteManifest
<1>14. CASE UNCHANGED vars
  BY <1>14 DEF vars
<1> QED
  BY <1>1, <1>2, <1>3, <1>4, <1>5, <1>6, <1>7, <1>8, <1>9, <1>10, <1>11, <1>12, <1>13, <1>14
  DEF Next, Reader, Uploader

-----------------------------------------------------------------------------
(* What has come out of the pipe, what of it the reader has put in chunks, *)
(* and which chunks the uploader has taken from the channel.               *)
Drawn == written - pipe
Cut == IF reader = "sending" THEN partNo - 1 ELSE partNo
Handed == Cut - Len(chan)

(* The i-th chunk of a stream that ends where this one has come to.        *)
Length(i) == IF i * ChunkSize <= Drawn THEN ChunkSize ELSE Drawn - (i * ChunkSize - ChunkSize)
Piece(i) == [no |-> i, len |-> Length(i)]

(* As long as nothing has failed but, perhaps, the writer.                 *)
Flowing == pc \in {"create", "recv", "drain", "complete", "uploaded"}

(* No block is lost between the writer and the chunks.                     *)
StreamInv ==
  /\ pipe <= written
  /\ writer = "ok" => written = Size
  /\ writer = "failed" => misread = TRUE
  /\ reader \in {"off", "reading"} => Drawn = partNo * ChunkSize + buf
  /\ reader = "sending" =>
       /\ Drawn = partNo * ChunkSize - ChunkSize + buf
       /\ buf < ChunkSize => EndOfStream
  /\ reader = "done" =>
       /\ EndOfStream
       /\ partNo * ChunkSize - ChunkSize < Drawn /\ Drawn <= partNo * ChunkSize

(* No chunk is lost, made up or counted twice.                             *)
ChunkInv ==
  /\ Len(chan) <= Cut
  /\ \A i \in 1..Len(chan) : chan[i] = Piece(Handed + i)
  /\ Tasks \cup completed = {Piece(i) : i \in 1..Handed}
  /\ sending \cap (sent \cup broken \cup completed) = {}
  /\ sent \cap (broken \cup completed) = {}

StageInv ==
  /\ pc = "create" <=> reader = "off"
  /\ pc \in {"drain", "complete", "uploaded"} => chan = <<>> /\ reader = "done"
  /\ pc \in {"complete", "uploaded"} => Tasks = {}
  /\ pc = "uploaded" => object = completed

FlowInv == Flowing => StreamInv /\ ChunkInv /\ StageInv

LEMMA FlowInit == Init => FlowInv
  BY DEF Init, FlowInv, Flowing

LEMMA Product ==
  ASSUME NEW m \in Nat, NEW n \in Nat
  PROVE  /\ m * ChunkSize \in Nat /\ n * ChunkSize \in Nat
         /\ (m + 1) * ChunkSize = m * ChunkSize + ChunkSize
         /\ m <= n => m * ChunkSize <= n * ChunkSize
  BY Numbers

(* The chunks stay the same while more is drawn.                           *)
LEMMA PieceStays ==
  ASSUME Types, Drawn' \in Int, Drawn \in Int, NEW n \in Nat,
         Drawn' = Drawn \/ (n * ChunkSize <= Drawn /\ Drawn <= Drawn')
  PROVE  \A i \in 1..n : Piece(i)' = Piece(i)
<1> SUFFICES ASSUME NEW i \in 1..n PROVE Length(i)' = Length(i)
  BY DEF Piece
<1>1. i * ChunkSize \in Nat /\ n * ChunkSize \in Nat /\ i * ChunkSize <= n * ChunkSize
  BY Product
<1>2. CASE Drawn' = Drawn
  BY <1>2 DEF Length
<1>3. CASE n * ChunkSize <= Drawn /\ Drawn <= Drawn'
  <2>1. i * ChunkSize <= Drawn /\ i * ChunkSize <= Drawn'
    BY <1>1, <1>3
  <2> QED BY <2>1 DEF Length
<1> QED
  BY <1>2, <1>3

(* The pieces do not change and none is handed over or tried: nothing      *)
(* happens to the chunks.                                                  *)
LEMMA ChunksStay ==
  ASSUME Types, ChunkInv, UNCHANGED <<chan, taskVars>>, Cut' = Cut,
         \A i \in 1..Cut : Piece(i)' = Piece(i)
  PROVE  ChunkInv'
<1>1. Cut \in Int /\ Len(chan) \in Nat
  BY DEF Types, Cut
<1>2. Handed' = Handed /\ Handed \in Int /\ Handed + Len(chan) = Cut
  BY <1>1 DEF Handed, Cut
<1>3. \A i \in 1..Handed : i \in 1..Cut
  BY <1>1, <1>2
<1>4. \A i \in 1..Len(chan) : Handed + i \in 1..Cut
  BY <1>1, <1>2 DEF ChunkInv
<1>5. Tasks' = Tasks /\ completed' = completed
  BY DEF Tasks, taskVars
<1>6. {Piece(i) : i \in 1..Handed}' = {Piece(i) : i \in 1..Handed}
  BY <1>2, <1>3
<1>7. (\A i \in 1..Len(chan) : chan[i] = Piece(Handed + i))'
  <2> SUFFICES ASSUME NEW i \in 1..Len(chan) PROVE chan[i] = Piece(Handed + i)'
    BY DEF taskVars
  <2>1. PICK j : j = Handed + i
    OBVIOUS
  <2>2. Piece(j)' = Piece(j) /\ chan[i] = Piece(j)
    BY <1>4, <2>1 DEF ChunkInv
  <2> QED BY <1>2, <2>1, <2>2 DEF Piece, Length
<1> QED
  BY <1>2, <1>5, <1>6, <1>7 DEF ChunkInv, taskVars

LEMMA WriterFlows ==
  ASSUME Types, FlowInv, Flowing, Writer \/ WriterMisreads
  PROVE  FlowInv'
<1>t. StreamInv /\ ChunkInv /\ StageInv
  BY DEF FlowInv
<1>1. written \in Int /\ pipe \in Int /\ writer = "writing" /\ Drawn \in Int /\ Cut \in Int
  BY DEF Types, Drawn, Cut, Writer, WriterWrites, WriterEnds, WriterBreaks, WriterMisreads
<1>2. ~WriterBreaks
  BY <1>t, <1>1 DEF WriterBreaks, PipeBroken, Flowing, StreamInv, EndOfStream
<1>3. /\ UNCHANGED <<pc, readerVars, taskVars, object>> /\ Drawn' = Drawn
      /\ pipe <= written => pipe' <= written'
  BY <1>1, <1>2
  DEF Writer, WriterWrites, WriterEnds, WriterMisreads, Drawn, bucketVars
<1>4. reader # "done" /\ ~(reader = "sending" /\ buf < ChunkSize)
  BY <1>t, <1>1 DEF StreamInv, EndOfStream
<1>5. StreamInv'
  <2>1. /\ writer' = "ok" => written' = Size
        /\ writer' = "failed" => misread' = TRUE
    BY <1>1, <1>2 DEF Writer, WriterWrites, WriterEnds, WriterMisreads
  <2>2. /\ pipe' <= written'
        /\ UNCHANGED <<reader, partNo, buf, Drawn>>
    BY <1>t, <1>3 DEF StreamInv, readerVars
  <2>3. /\ reader' \in {"off", "reading"} => Drawn' = partNo' * ChunkSize + buf'
        /\ reader' = "sending" => Drawn' = partNo' * ChunkSize - ChunkSize + buf'
    BY <1>t, <2>2 DEF StreamInv
  <2>4. reader' # "done" /\ ~(reader' = "sending" /\ buf' < ChunkSize)
    BY <1>4, <2>2
  <2> QED BY <2>1, <2>2, <2>3, <2>4 DEF StreamInv
<1>6. ChunkInv'
  <2>1. \A i \in 1..Cut : Piece(i)' = Piece(i)
    BY <1>3 DEF Piece, Length
  <2> QED BY <1>t, <1>3, <2>1, ChunksStay DEF readerVars, Cut
<1>7. StageInv'
  BY <1>t, <1>3 DEF StageInv, readerVars, taskVars, Tasks
<1> QED
  BY <1>5, <1>6, <1>7 DEF FlowInv

LEMMA ReaderFlows ==
  ASSUME Types, FlowInv, Flowing, ReaderReads \/ ReaderCuts \/ ReaderEnds
  PROVE  FlowInv'
<1>t. StreamInv /\ ChunkInv /\ StageInv
  BY DEF FlowInv
<1>1. /\ written \in Nat /\ pipe \in Nat /\ partNo \in Nat /\ buf \in Nat /\ buf <= ChunkSize
      /\ Drawn \in Int /\ ChunkSize \in Nat /\ ChunkSize > 0 /\ Cut \in Nat
  BY Numbers DEF Types, Drawn, Cut
<1>2. /\ reader = "reading" /\ UNCHANGED <<pc, written, writer, chan, taskVars, object, misread>>
      /\ Drawn = partNo * ChunkSize + buf
  BY <1>t DEF ReaderReads, ReaderCuts, ReaderEnds, StreamInv, writerVars, bucketVars, runVars
<1>m. /\ partNo * ChunkSize \in Nat
      /\ (partNo + 1) * ChunkSize = partNo * ChunkSize + ChunkSize
  BY <1>1, Product
<1>3. /\ reader' \in {"reading", "sending", "done"} /\ partNo' \in Nat /\ Cut' = Cut
      /\ Drawn' \in Int /\ Drawn <= Drawn'
  BY <1>1, <1>2 DEF ReaderReads, ReaderCuts, ReaderEnds, Cut, Drawn, writerVars
<1>4. StreamInv'
  <2>1. CASE ReaderReads
    <3>1. /\ buf' = buf + 1 /\ pipe' = pipe - 1 /\ pipe > 0 /\ UNCHANGED <<written, partNo, reader>>
      BY <2>1 DEF ReaderReads
    <3>2. Drawn' = partNo' * ChunkSize + buf' /\ pipe' <= written'
      BY <1>1, <1>2, <1>m, <1>t, <3>1 DEF Drawn, StreamInv
    <3> QED BY <1>t, <1>2, <3>1, <3>2 DEF StreamInv
  <2>2. CASE ReaderCuts
    <3>1. /\ partNo' = partNo + 1 /\ reader' = "sending" /\ buf' = buf /\ pipe' = pipe
          /\ buf < ChunkSize => EndOfStream
      BY <1>1, <2>2 DEF ReaderCuts, writerVars
    <3>2. Drawn' = partNo' * ChunkSize - ChunkSize + buf'
      BY <1>1, <1>2, <1>m, <3>1 DEF Drawn
    <3> QED BY <1>t, <1>2, <3>1, <3>2 DEF StreamInv, EndOfStream
  <2>3. CASE ReaderEnds
    <3>1. /\ partNo' = partNo /\ reader' = "done" /\ pipe' = pipe /\ EndOfStream /\ buf = 0
      BY <2>3 DEF ReaderEnds, writerVars
    <3>2. Drawn' = partNo' * ChunkSize
      BY <1>1, <1>2, <1>m, <3>1 DEF Drawn
    <3>3. partNo' * ChunkSize - ChunkSize < Drawn' /\ Drawn' <= partNo' * ChunkSize
      BY <1>1, <1>m, <3>1, <3>2
    <3> QED BY <1>t, <1>2, <3>1, <3>3 DEF StreamInv, EndOfStream
  <2> QED BY <2>1, <2>2, <2>3
<1>5. ChunkInv'
  <2>1. partNo * ChunkSize <= Drawn /\ Cut = partNo
    BY <1>1, <1>2, <1>m DEF Cut
  <2>2. \A i \in 1..Cut : Piece(i)' = Piece(i)
    BY <1>1, <1>3, <2>1, PieceStays
  <2> QED BY <1>t, <1>2, <1>3, <2>2, ChunksStay
<1>6. StageInv'
  BY <1>t, <1>2, <1>3 DEF StageInv, taskVars, Tasks
<1> QED
  BY <1>4, <1>5, <1>6 DEF FlowInv

LEMMA SendFlows ==
  ASSUME Types, FlowInv, Flowing, ReaderSends
  PROVE  FlowInv'
<1>t. StreamInv /\ ChunkInv /\ StageInv
  BY DEF FlowInv
<1>1. /\ written \in Nat /\ pipe \in Nat /\ partNo \in Nat /\ partNo > 0
      /\ buf \in Nat /\ buf > 0 /\ buf <= ChunkSize
      /\ Drawn \in Int /\ ChunkSize \in Nat /\ ChunkSize > 0 /\ chan \in Seq(Chunks)
  BY Numbers DEF Types, Drawn, ReaderSends
<1>2. /\ reader = "sending" /\ reader' = (IF buf < ChunkSize THEN "done" ELSE "reading")
      /\ chan' = Append(chan, [no |-> partNo, len |-> buf]) /\ buf' = 0
      /\ UNCHANGED <<pc, written, pipe, writer, partNo, taskVars, object, misread>>
      /\ Drawn = partNo * ChunkSize - ChunkSize + buf /\ (buf < ChunkSize => EndOfStream)
  BY <1>t DEF ReaderSends, StreamInv, writerVars, bucketVars, runVars
<1>m. partNo * ChunkSize \in Nat
  BY <1>1, Product
<1>3. Drawn' = Drawn
  BY <1>2 DEF Drawn
<1>4. StreamInv'
  <2>1. reader' = "reading" => Drawn' = partNo' * ChunkSize + buf'
    BY <1>1, <1>2, <1>3, <1>m
  <2>2. reader' = "done" => /\ EndOfStream'
                           /\ partNo' * ChunkSize - ChunkSize < Drawn'
                           /\ Drawn' <= partNo' * ChunkSize
    BY <1>1, <1>2, <1>3, <1>m DEF EndOfStream
  <2> QED BY <1>t, <1>2, <2>1, <2>2 DEF StreamInv
<1>5. ChunkInv'
  <2>1. /\ Len(chan) \in Nat /\ Len(chan') = Len(chan) + 1
        /\ chan'[Len(chan) + 1] = [no |-> partNo, len |-> buf]
        /\ \A i \in 1..Len(chan) : chan'[i] = chan[i]
    BY <1>1, <1>2
  <2>2. Cut = partNo - 1 /\ Cut' = partNo
    BY <1>2 DEF Cut
  <2>3. Handed' = Handed /\ Handed \in Int /\ Handed + Len(chan) + 1 = partNo
    BY <1>1, <2>1, <2>2 DEF Handed
  <2>4. Length(partNo) = buf
    BY <1>1, <1>2, <1>m DEF Length
  <2>5. \A i : Piece(i)' = Piece(i)
    BY <1>3 DEF Piece, Length
  <2>6. (\A i \in 1..Len(chan) : chan[i] = Piece(Handed + i))'
    <3> SUFFICES ASSUME NEW i \in 1..Len(chan) + 1 PROVE chan'[i] = Piece(Handed + i)'
      BY <2>1
    <3>1. PICK j : j = Handed + i
      OBVIOUS
    <3>2. chan'[i] = Piece(j)
      <4>1. CASE i \in 1..Len(chan)
        BY <1>t, <2>1, <3>1, <4>1 DEF ChunkInv
      <4>2. CASE i = Len(chan) + 1
        <5>1. j = partNo
          BY <2>1, <2>3, <3>1, <4>2
        <5> QED BY <2>1, <2>4, <4>2, <5>1 DEF Piece
      <4> QED BY <2>1, <4>1, <4>2
    <3>3. Piece(j)' = Piece(j)
      BY <2>5
    <3> QED BY <2>3, <3>1, <3>2, <3>3 DEF Piece, Length
  <2>7. {Piece(i) : i \in 1..Handed}' = {Piece(i) : i \in 1..Handed}
    BY <2>3, <2>5
  <2>8. Tasks' = Tasks /\ Len(chan') <= Cut'
    BY <1>t, <1>1, <1>2, <2>1, <2>2 DEF Tasks, taskVars, ChunkInv
  <2> QED BY <1>t, <1>2, <2>6, <2>7, <2>8 DEF ChunkInv, taskVars
<1>6. StageInv'
  <2>1. pc \notin {"drain", "complete", "uploaded"} /\ pc # "create"
    BY <1>t, <1>2 DEF StageInv
  <2> QED BY <1>2, <2>1 DEF StageInv
<1> QED
  BY <1>4, <1>5, <1>6 DEF FlowInv

LEMMA TaskFlows ==
  ASSUME Types, FlowInv, Flowing, NEW c,
         \/ c \in sending /\ (TaskSucceeds(c) \/ TaskFails(c))
         \/ c \in sent /\ JoinSent(c)
  PROVE  FlowInv'
<1>t. StreamInv /\ ChunkInv /\ StageInv
  BY DEF FlowInv
<1>1. /\ UNCHANGED <<pc, written, pipe, writer, reader, buf, partNo, chan, object, misread>>
      /\ UNCHANGED <<Drawn, Cut, Handed>>
  BY DEF TaskSucceeds, TaskFails, JoinSent, writerVars, readerVars, bucketVars, runVars, Drawn,
     Cut, Handed
<1>2. /\ Tasks' \cup completed' = Tasks \cup completed
      /\ Tasks = {} => Tasks' = {}
      /\ sending' \cap (sent' \cup broken' \cup completed') = {}
      /\ sent' \cap (broken' \cup completed') = {}
  BY <1>t DEF ChunkInv, TaskSucceeds, TaskFails, JoinSent, Tasks
<1>3. \A i : Piece(i)' = Piece(i)
  BY <1>1 DEF Piece, Length
<1>4. {Piece(i) : i \in 1..Handed}' = {Piece(i) : i \in 1..Handed}
  BY <1>1, <1>3
<1>5. (\A i \in 1..Len(chan) : chan[i] = Piece(Handed + i))'
  BY <1>t, <1>1 DEF ChunkInv, Piece, Length
<1>6. pc = "uploaded" => Tasks = {}
  BY <1>t DEF StageInv
<1>7. StageInv'
  BY <1>t, <1>1, <1>2, <1>6 DEF StageInv, Tasks, JoinSent, Joining, TaskSucceeds, TaskFails
<1>8. StreamInv'
  BY <1>t, <1>1 DEF StreamInv, EndOfStream
<1>9. ChunkInv'
  BY <1>t, <1>1, <1>2, <1>4, <1>5 DEF ChunkInv
<1> QED
  BY <1>7, <1>8, <1>9 DEF FlowInv

LEMMA SpawnFlows ==
  ASSUME Types, FlowInv, Flowing, Spawn
  PROVE  FlowInv'
<1>t. StreamInv /\ ChunkInv /\ StageInv
  BY DEF FlowInv
<1>1. /\ UNCHANGED <<pc, written, pipe, writer, reader, buf, partNo, object, misread>>
      /\ UNCHANGED <<sent, broken, completed, Drawn, Cut>>
      /\ chan # <<>> /\ chan' = Tail(chan) /\ sending' = sending \cup {Head(chan)} /\ pc = "recv"
  BY DEF Spawn, writerVars, bucketVars, runVars, Drawn, Cut
<1>2. /\ Len(chan) \in Nat /\ Len(chan) > 0 /\ Head(chan) = chan[1]
      /\ Len(chan') = Len(chan) - 1
      /\ \A i \in 1..Len(chan') : chan'[i] = chan[i + 1]
  BY <1>1 DEF Types
<1>3. Cut \in Nat
  BY DEF Types, Cut
<1>4. Handed \in Int /\ Handed' = Handed + 1 /\ Handed' <= Cut /\ Handed >= 0
  BY <1>t, <1>1, <1>2, <1>3 DEF Handed, ChunkInv
<1>5. \A i : Piece(i)' = Piece(i)
  BY <1>1 DEF Piece, Length
<1>6. Head(chan) = Piece(Handed + 1)
  BY <1>t, <1>2 DEF ChunkInv
<1>7. Head(chan) \notin Tasks \cup completed
  <2>1. \A i \in 1..Handed : i # Handed + 1
    BY <1>4
  <2>2. \A i \in 1..Handed : Piece(i) # Piece(Handed + 1)
    BY <2>1 DEF Piece
  <2> QED BY <1>t, <1>6, <2>2 DEF ChunkInv
<1>8. ChunkInv'
  <2>1. (\A i \in 1..Len(chan) : chan[i] = Piece(Handed + i))'
    <3> SUFFICES ASSUME NEW i \in 1..Len(chan') PROVE chan'[i] = Piece(Handed + i)'
      OBVIOUS
    <3>1. PICK j : j = Handed + (i + 1)
      OBVIOUS
    <3>2. i + 1 \in 1..Len(chan)
      BY <1>2
    <3>3. chan'[i] = Piece(j)
      BY <1>t, <1>2, <3>1, <3>2 DEF ChunkInv
    <3>4. Piece(j)' = Piece(j) /\ j = Handed' + i
      BY <1>4, <1>5, <3>1
    <3> QED BY <3>3, <3>4 DEF Piece, Length
  <2>2. {Piece(i) : i \in 1..Handed}' = {Piece(i) : i \in 1..Handed} \cup {Piece(Handed + 1)}
    <3>1. 1..Handed' = (1..Handed) \cup {Handed + 1}
      BY <1>4
    <3>2. {Piece(i) : i \in 1..Handed}' = {Piece(i) : i \in 1..Handed'}
      BY <1>5
    <3> QED BY <3>1, <3>2
  <2>3. Tasks' \cup completed' = Tasks \cup completed \cup {Head(chan)}
    BY <1>1 DEF Tasks
  <2>4. /\ sending' \cap (sent' \cup broken' \cup completed') = {}
        /\ sent' \cap (broken' \cup completed') = {}
    BY <1>t, <1>1, <1>7 DEF ChunkInv, Tasks
  <2>5. Len(chan') <= Cut'
    BY <1>t, <1>1, <1>2, <1>3 DEF ChunkInv
  <2> QED BY <1>t, <1>6, <2>1, <2>2, <2>3, <2>4, <2>5 DEF ChunkInv
<1>9. StreamInv' /\ StageInv'
  BY <1>t, <1>1 DEF StreamInv, EndOfStream, StageInv
<1> QED
  BY <1>8, <1>9 DEF FlowInv

(* The uploader goes on to another stage.                                  *)
LEMMA StageFlows ==
  ASSUME Types, FlowInv, Flowing, Create \/ RecvNone \/ Drained \/ Complete
  PROVE  FlowInv'
<1>t. StreamInv /\ ChunkInv /\ StageInv
  BY DEF FlowInv
<1>1. UNCHANGED <<writer, written, pipe, buf, partNo, chan, taskVars, misread>>
  BY DEF Create, RecvNone, Drained, Complete, writerVars, readerVars, runVars
<1>2. /\ reader' = reader \/ (reader = "off" /\ reader' = "reading" /\ pc' = "recv")
      /\ pc' # "create"
  BY <1>t DEF Create, RecvNone, Drained, Complete, readerVars, StageInv
<1>3. UNCHANGED <<Drawn, Cut>>
  BY <1>1, <1>2 DEF Drawn, Cut
<1>4. StreamInv'
  BY <1>t, <1>1, <1>2, <1>3 DEF StreamInv, EndOfStream
<1>5. ChunkInv'
  <2>1. \A i \in 1..Cut : Piece(i)' = Piece(i)
    BY <1>3 DEF Piece, Length
  <2> QED BY <1>t, <1>1, <1>3, <2>1, ChunksStay
<1>6. StageInv'
  BY <1>t, <1>1, <1>2
  DEF StageInv, Create, RecvNone, Drained, Complete, Tasks, taskVars, readerVars
<1> QED
  BY <1>4, <1>5, <1>6 DEF FlowInv

LEMMA BeginFlows ==
  ASSUME Begin
  PROVE  FlowInv'
<1>1. /\ pc' = "create" /\ writer' = "writing" /\ reader' = "off"
      /\ written' = 0 /\ pipe' = 0 /\ buf' = 0 /\ partNo' = 0 /\ chan' = <<>>
      /\ sending' = {} /\ sent' = {} /\ broken' = {} /\ completed' = {}
  BY DEF Begin, Pipeline
<1>2. Drawn' = 0 /\ Cut' = 0 /\ Handed' = 0 /\ Len(chan') = 0
  <2>1. Drawn' = 0
    BY <1>1 DEF Drawn
  <2>2. reader' # "sending" /\ Cut' = 0
    BY <1>1 DEF Cut
  <2>3. Len(chan') = 0
    BY <1>1
  <2>4. Handed' = Cut' - Len(chan')
    BY DEF Handed
  <2> QED BY <2>1, <2>2, <2>3, <2>4
<1>3. StreamInv'
  BY <1>1, <1>2, Numbers DEF StreamInv
<1>4. ChunkInv'
  <2>1. {Piece(i) : i \in 1..Handed}' = {}
    BY <1>2
  <2> QED BY <1>1, <1>2, <2>1 DEF ChunkInv, Tasks
<1>5. StageInv'
  BY <1>1 DEF StageInv
<1> QED
  BY <1>3, <1>4, <1>5 DEF FlowInv

LEMMA FlowStep == Types /\ FlowInv /\ [Next]_vars => FlowInv'
<1> SUFFICES ASSUME Types, FlowInv, [Next]_vars, Flowing' PROVE FlowInv'
  BY DEF FlowInv
<1>1. CASE UNCHANGED vars
  <2>1. /\ UNCHANGED <<pc, writerVars, readerVars, taskVars, object, misread>>
        /\ UNCHANGED <<Drawn, Cut, Flowing>> /\ Flowing
    BY <1>1 DEF vars, bucketVars, runVars, writerVars, readerVars, Drawn, Cut, Flowing
  <2>2. \A i \in 1..Cut : Piece(i)' = Piece(i)
    BY <2>1 DEF Piece, Length
  <2>3. ChunkInv'
    BY <2>1, <2>2, ChunksStay DEF FlowInv, readerVars
  <2>4. StreamInv' /\ StageInv'
    BY <2>1 DEF FlowInv, StreamInv, StageInv, EndOfStream, Tasks, writerVars, readerVars, taskVars
  <2> QED BY <2>3, <2>4 DEF FlowInv
<1>2. CASE Begin
  BY <1>2, BeginFlows
<1>3. CASE ~Begin /\ Next
  <2>1. Flowing
    BY <1>3
    DEF Next, Flowing, HeadFinds, CreateFails, Crash, Writer, WriterWrites, WriterEnds,
        WriterBreaks, WriterMisreads, Reader, ReaderReads, ReaderCuts, ReaderEnds, ReaderSends,
        ReaderSendFails, TaskSucceeds, TaskFails, Uploader, Create, Spawn, RecvNone, Drained,
        Complete, CompleteFails, Abort, JoinBroken, JoinSent, Joining, Accept, Reject,
        WriteManifest
  <2>2. ~ (HeadFinds \/ CreateFails \/ Crash \/ ReaderSendFails \/ CompleteFails \/ Abort
           \/ JoinBroken \/ Accept \/ Reject \/ WriteManifest)
    BY <2>1
    DEF Flowing, HeadFinds, CreateFails, Crash, ReaderSendFails, ReceiverDropped, CompleteFails,
        Abort, JoinBroken, Accept, Reject, WriteManifest
  <2>3. CASE Writer \/ WriterMisreads
    BY <2>1, <2>3, WriterFlows
  <2>4. CASE ReaderReads \/ ReaderCuts \/ ReaderEnds
    BY <2>1, <2>4, ReaderFlows
  <2>5. CASE ReaderSends
    BY <2>1, <2>5, SendFlows
  <2>6. CASE Spawn
    BY <2>1, <2>6, SpawnFlows
  <2>7. CASE \/ \E c \in sending : TaskSucceeds(c) \/ TaskFails(c)
             \/ \E c \in sent : JoinSent(c)
    BY <2>1, <2>7, TaskFlows
  <2>8. CASE Create \/ RecvNone \/ Drained \/ Complete
    BY <2>1, <2>8, StageFlows
  <2> QED BY <1>3, <2>2, <2>3, <2>4, <2>5, <2>6, <2>7, <2>8 DEF Next, Reader, Uploader
<1> QED
  BY <1>1, <1>2, <1>3

-----------------------------------------------------------------------------
LEMMA Division ==
  ASSUME NEW s \in Nat, NEW c \in Nat \ {0}, NEW p \in Nat, NEW m \in Int,
         m = p * c, s <= m, m - c < s
  PROVE  (s + c - 1) \div c = p
  OBVIOUS

(* A stream that was read to its end has exactly the chunks of the archive. *)
LEMMA PiecesAreWhole ==
  ASSUME Types, StreamInv, reader = "done", writer = "ok"
  PROVE  {Piece(i) : i \in 1..partNo} = WholeArchive
<1>1. /\ written = Size /\ pipe = 0 /\ Size \in Nat /\ partNo \in Nat
      /\ ChunkSize \in Nat \ {0} /\ partNo * ChunkSize \in Nat
  BY Numbers, Product DEF Types, StreamInv, EndOfStream
<1>2. Drawn = Size
  BY <1>1 DEF Drawn
<1>3. partNo * ChunkSize - ChunkSize < Size /\ Size <= partNo * ChunkSize
  BY <1>2 DEF StreamInv
<1>4. Count = partNo
  BY <1>1, <1>3, Division DEF Count
<1>5. ASSUME NEW i \in 1..partNo
      PROVE  Length(i) = IF i < partNo THEN ChunkSize ELSE Size - (partNo - 1) * ChunkSize
  <2>1. (partNo - 1) * ChunkSize = partNo * ChunkSize - ChunkSize
    BY <1>1
  <2>2. CASE i < partNo
    <3>1. i * ChunkSize <= (partNo - 1) * ChunkSize /\ i * ChunkSize \in Nat
      BY <1>1, <2>2, Product
    <3>2. i * ChunkSize <= Drawn
      BY <1>1, <1>2, <1>3, <2>1, <3>1
    <3> QED BY <2>2, <3>2 DEF Length
  <2>3. CASE i = partNo
    <3>1. Length(i) = Size - (partNo * ChunkSize - ChunkSize)
      BY <1>1, <1>2, <1>3, <2>3 DEF Length
    <3> QED BY <1>1, <2>1, <2>3, <3>1
  <2> QED BY <1>1, <2>2, <2>3
<1> QED
  BY <1>4, <1>5 DEF WholeArchive, Piece

(* So the chunks a completed upload is made of are the whole archive, if   *)
(* the writer ended well.                                                  *)
LEMMA CompletedIsWhole ==
  ASSUME Types, FlowInv, pc \in {"complete", "uploaded"}
  PROVE  /\ writer = "ok" => completed = WholeArchive
         /\ writer # "ok" => misread = TRUE
<1>1. StreamInv /\ ChunkInv /\ StageInv
  BY DEF FlowInv, Flowing
<1>2. chan = <<>> /\ reader = "done" /\ Tasks = {} /\ Len(chan) = 0
  BY <1>1 DEF StageInv
<1>3. Handed = partNo
  BY <1>2 DEF Handed, Cut, Types
<1>4. completed = {Piece(i) : i \in 1..partNo}
  BY <1>1, <1>2, <1>3 DEF ChunkInv
<1>5. writer # "ok" => misread = TRUE
  BY <1>1, <1>2 DEF StreamInv, EndOfStream
<1> QED
  BY <1>1, <1>2, <1>4, <1>5, PiecesAreWhole

ObjectInv == object \in {Absent, WholeArchive} \/ misread = TRUE

LEMMA ObjectStep == Types /\ FlowInv /\ ObjectInv /\ [Next]_vars => ObjectInv'
<1> SUFFICES ASSUME Types, FlowInv, ObjectInv, [Next]_vars PROVE ObjectInv'
  OBVIOUS
<1>1. misread = TRUE => misread' = TRUE
  BY DEF Next, HeadFinds, Begin, CreateFails, Crash, Writer, WriterWrites, WriterEnds,
     WriterBreaks, WriterMisreads, Reader, ReaderReads, ReaderCuts, ReaderEnds, ReaderSends,
     ReaderSendFails, TaskSucceeds, TaskFails, Uploader, Create, Spawn, RecvNone, Drained,
     Complete, CompleteFails, Abort, JoinBroken, JoinSent, Accept, Reject, WriteManifest,
     runVars, vars
<1>2. UNCHANGED object \/ Complete
  BY DEF Next, HeadFinds, Begin, CreateFails, Crash, Writer, WriterWrites, WriterEnds,
     WriterBreaks, WriterMisreads, Reader, ReaderReads, ReaderCuts, ReaderEnds, ReaderSends,
     ReaderSendFails, TaskSucceeds, TaskFails, Uploader, Create, Spawn, RecvNone, Drained,
     CompleteFails, Abort, JoinBroken, JoinSent, Accept, Reject, WriteManifest,
     bucketVars, vars
<1>3. ASSUME Complete PROVE object' = WholeArchive \/ misread = TRUE
  BY <1>3, CompletedIsWhole DEF Complete
<1>4. WholeArchive' = WholeArchive
  BY DEF WholeArchive, Count
<1> QED
  BY <1>1, <1>2, <1>3, <1>4 DEF ObjectInv

(* Whenever no writer has failed to read its files, the key holds the      *)
(* whole archive or nothing (put_object_multipart_reader), for any sizes   *)
(* and any numbers of tasks, runs and faults.                              *)
THEOREM NothingPartial == Spec => []ObjectWholeUnlessMisread
<1>1. Init => Types /\ FlowInv /\ ObjectInv
  BY TypesInit, FlowInit DEF Init, ObjectInv
<1>2. Types /\ FlowInv /\ ObjectInv /\ [Next]_vars => (Types /\ FlowInv /\ ObjectInv)'
  BY TypesStep, FlowStep, ObjectStep
<1>3. ObjectInv => ObjectWholeUnlessMisread
  BY DEF ObjectInv, ObjectWholeUnlessMisread
<1> QED
  BY <1>1, <1>2, <1>3, PTL DEF Spec

(* An upload that its run accepts has put the whole archive at the key     *)
(* (the checks of upload_part_archives).                                   *)
THEOREM AcceptedWhole == Spec => AcceptedIsWhole
<1>1. Init => Types /\ FlowInv
  BY TypesInit, FlowInit
<1>2. Types /\ FlowInv /\ [Next]_vars => (Types /\ FlowInv)'
  BY TypesStep, FlowStep
<1>3. Types /\ FlowInv /\ [Next]_vars
        => [pc = "uploaded" /\ pc' = "manifest" => object = WholeArchive]_vars
  <2> SUFFICES ASSUME Types, FlowInv, Next, pc = "uploaded", pc' = "manifest"
               PROVE  object = WholeArchive
    OBVIOUS
  <2>1. Accept
    BY DEF Next, HeadFinds, Begin, CreateFails, Crash, Writer, WriterWrites, WriterEnds,
       WriterBreaks, WriterMisreads, Reader, ReaderReads, ReaderCuts, ReaderEnds, ReaderSends,
       ReaderSendFails, TaskSucceeds, TaskFails, Uploader, Create, Spawn, RecvNone, Drained,
       Complete, CompleteFails, Abort, JoinBroken, JoinSent, Reject, WriteManifest
  <2>2. object = completed
    BY DEF FlowInv, Flowing, StageInv
  <2>3. completed = WholeArchive
    BY <2>1, CompletedIsWhole DEF Accept, Verified
  <2> QED BY <2>2, <2>3
<1> QED
  BY <1>1, <1>2, <1>3, PTL DEF Spec, AcceptedIsWhole

-----------------------------------------------------------------------------
(* What the last chunk, if the stream has one already, lacks to be full.   *)
Short == IF reader = "done" THEN partNo * ChunkSize - Drawn ELSE 0

(* Every chunk that was collected is counted once, and all but the last    *)
(* are full.                                                               *)
CountInv ==
  /\ IsFiniteSet(completed)
  /\ uploaded = Cardinality(completed) * ChunkSize
                  - (IF Piece(partNo) \in completed THEN Short ELSE 0)

UploadInv == IF Flowing THEN CountInv ELSE uploaded <= Size

(* How many chunks there can be.                                           *)
LEMMA FewPieces ==
  ASSUME NEW n \in Nat, NEW S, S \subseteq {Piece(i) : i \in 1..n}
  PROVE  IsFiniteSet(S) /\ Cardinality(S) \in Nat /\ Cardinality(S) <= n
<1> DEFINE P == {Piece(i) : i \in 1..n}
<1>1. IsFiniteSet(1..n) /\ Cardinality(1..n) = n
  BY FS_Interval
<1>2. IsFiniteSet(P) /\ Cardinality(P) <= n
  <2> DEFINE f == [i \in 1..n |-> Piece(i)]
  <2>1. f \in Surjection(1..n, P)
    BY DEF Surjection
  <2> QED BY <1>1, <2>1, FS_Surjection
<1>3. IsFiniteSet(S) /\ Cardinality(S) <= Cardinality(P)
  BY <1>2, FS_Subset
<1>4. Cardinality(S) \in Nat /\ Cardinality(P) \in Nat
  BY <1>2, <1>3, FS_CardinalityType
<1> QED
  BY <1>2, <1>3, <1>4

(* The count never exceeds what was drawn from the pipe.                   *)
LEMMA CountIsBounded ==
  ASSUME Types, StreamInv, ChunkInv, CountInv
  PROVE  uploaded <= Size
<1>1. /\ written \in Nat /\ written <= Size /\ pipe \in Nat /\ partNo \in Nat /\ Size \in Nat
      /\ buf \in Nat /\ ChunkSize \in Nat /\ ChunkSize > 0 /\ Drawn \in Int /\ Drawn <= Size
  BY Numbers DEF Types, Drawn
<1>2. Len(chan) \in Nat /\ Cut \in Int /\ Handed \in Nat /\ Handed <= Cut /\ Cut <= partNo
  BY <1>1 DEF Types, ChunkInv, Cut, Handed
<1>3. completed \subseteq {Piece(i) : i \in 1..Handed}
  BY DEF ChunkInv
<1> DEFINE K == Cardinality(completed)
<1>4. K \in Nat /\ K <= Handed
  BY <1>2, <1>3, FewPieces
<1>5. CASE reader # "done"
  <2>1. Cut * ChunkSize <= Drawn
    BY <1>1, <1>5, Product DEF StreamInv, Cut, Types
  <2>2. K * ChunkSize <= Cut * ChunkSize
    BY <1>2, <1>4, Product
  <2>3. uploaded = K * ChunkSize
    BY <1>1, <1>4, <1>5 DEF CountInv, Short
  <2> HIDE DEF K
  <2> QED BY <1>1, <1>2, <1>4, <2>1, <2>2, <2>3
<1>6. CASE reader = "done"
  <2>1. /\ partNo * ChunkSize - ChunkSize < Drawn /\ Drawn <= partNo * ChunkSize
        /\ partNo * ChunkSize \in Nat
    BY <1>1, <1>6, Product DEF StreamInv
  <2>2. CASE Piece(partNo) \in completed
    <3>1. uploaded = K * ChunkSize - (partNo * ChunkSize - Drawn)
      BY <1>6, <2>2 DEF CountInv, Short
    <3>2. K * ChunkSize <= partNo * ChunkSize /\ K * ChunkSize \in Nat
      BY <1>1, <1>2, <1>4, Product
    <3> HIDE DEF K
    <3> QED BY <1>1, <2>1, <3>1, <3>2
  <2>3. CASE Piece(partNo) \notin completed
    <3>1. uploaded = K * ChunkSize
      BY <1>1, <1>4, <2>3 DEF CountInv
    <3>2. CASE partNo = 0
      <4>1. K = 0
        BY <1>2, <1>4, <3>2
      <4> HIDE DEF K
      <4> QED BY <1>1, <3>1, <4>1
    <3>3. CASE partNo > 0
      <4>1. completed \subseteq {Piece(i) : i \in 1..(partNo - 1)}
        <5> SUFFICES ASSUME NEW c \in completed PROVE \E i \in 1..(partNo - 1) : c = Piece(i)
          OBVIOUS
        <5>1. PICK i \in 1..Handed : c = Piece(i)
          BY <1>3
        <5>2. i # partNo
          BY <2>3, <5>1
        <5> QED BY <1>1, <1>2, <5>1, <5>2
      <4>2. K <= partNo - 1
        BY <1>1, <3>3, <4>1, FewPieces
      <4>3. K * ChunkSize <= (partNo - 1) * ChunkSize
        BY <1>1, <1>4, <3>3, <4>2, Product
      <4>4. (partNo - 1) * ChunkSize = partNo * ChunkSize - ChunkSize
        BY <1>1
      <4> HIDE DEF K
      <4> QED BY <1>1, <1>4, <2>1, <3>1, <4>3, <4>4
    <3> QED BY <1>1, <3>2, <3>3
  <2> QED BY <2>2, <2>3
<1> QED
  BY <1>5, <1>6

(* As long as nothing is collected, the count stays right.                 *)
LEMMA CountStays ==
  ASSUME Types, StreamInv, ChunkInv, CountInv, UNCHANGED <<completed, uploaded>>,
         \/ reader # "done" /\ reader' # "done"
         \/ UNCHANGED <<reader, partNo, Drawn>>
         \/ ReaderEnds
         \/ ReaderSends
  PROVE  CountInv'
<1>1. /\ IsFiniteSet(completed) /\ IsFiniteSet(completed')
      /\ Cardinality(completed') = Cardinality(completed)
  BY DEF CountInv
<1>2. Cardinality(completed) \in Nat
  BY <1>1, FS_CardinalityType
<1>3. ChunkSize \in Nat /\ partNo \in Nat /\ buf \in Nat /\ Drawn \in Int
  BY Numbers DEF Types, Drawn
<1>4. /\ Cardinality(completed) * ChunkSize \in Nat
      /\ partNo * ChunkSize \in Nat
  BY <1>2, <1>3, Product
<1>5. ASSUME reader # "done", Short' = 0 \/ Piece(partNo)' \notin completed'
      PROVE  CountInv'
  <2>1. Short = 0
    BY <1>5 DEF Short
  <2>2. uploaded = Cardinality(completed) * ChunkSize
    BY <1>4, <2>1 DEF CountInv
  <2> QED BY <1>1, <1>4, <1>5, <2>2 DEF CountInv
<1>6. CASE reader # "done" /\ reader' # "done"
  BY <1>5, <1>6 DEF Short
<1>7. CASE UNCHANGED <<reader, partNo, Drawn>>
  BY <1>1, <1>7 DEF CountInv, Short, Piece, Length
<1>8. CASE ReaderEnds
  <2>1. reader = "reading" /\ buf = 0 /\ partNo' = partNo /\ Drawn' = Drawn
    BY <1>8 DEF ReaderEnds, Drawn, writerVars
  <2>2. Drawn = partNo * ChunkSize
    BY <1>3, <1>4, <2>1 DEF StreamInv
  <2>3. Short' = 0
    BY <1>3, <1>4, <2>1, <2>2 DEF Short
  <2> QED BY <1>5, <2>1, <2>3
<1>9. CASE ReaderSends
  <2>1. reader = "sending" /\ partNo' = partNo /\ Drawn' = Drawn
    BY <1>9 DEF ReaderSends, Drawn, writerVars
  <2>2. Cut = partNo - 1 /\ Handed < partNo
    BY <1>3, <2>1 DEF Cut, Handed, Types
  <2>3. \A i \in 1..Handed : Piece(i) # Piece(partNo)
    BY <1>3, <2>2 DEF Piece, Handed
  <2>4. Piece(partNo) \notin completed
    BY <2>3 DEF ChunkInv
  <2>5. Piece(partNo)' = Piece(partNo)
    BY <2>1 DEF Piece, Length
  <2> QED BY <1>5, <2>1, <2>4, <2>5
<1> QED
  BY <1>6, <1>7, <1>8, <1>9

(* One more chunk is collected.                                            *)
LEMMA CountJoins ==
  ASSUME Types, StreamInv, ChunkInv, CountInv, NEW c \in sent, JoinSent(c)
  PROVE  CountInv'
<1>1. /\ completed' = completed \cup {c} /\ uploaded' = uploaded + c.len
      /\ UNCHANGED <<reader, partNo, Drawn>>
  BY DEF JoinSent, Drawn, writerVars, readerVars
<1>2. c \notin completed /\ c \in Tasks
  BY DEF ChunkInv, Tasks
<1>3. PICK i \in 1..Handed : c = Piece(i)
  BY <1>2 DEF ChunkInv
<1>4. /\ IsFiniteSet(completed') /\ Cardinality(completed) \in Nat
      /\ Cardinality(completed') = Cardinality(completed) + 1
  BY <1>1, <1>2, FS_AddElement, FS_CardinalityType DEF CountInv
<1> DEFINE K == Cardinality(completed)
<1>5. /\ ChunkSize \in Nat /\ ChunkSize > 0 /\ partNo \in Nat /\ buf \in Nat /\ Drawn \in Int
      /\ Len(chan) \in Nat /\ Cut \in Int /\ Handed \in Int /\ Handed <= Cut
  BY Numbers DEF Types, Drawn, Cut, Handed
<1>6. /\ K * ChunkSize \in Nat /\ (K + 1) * ChunkSize = K * ChunkSize + ChunkSize
      /\ partNo * ChunkSize \in Nat /\ i * ChunkSize \in Nat
  BY <1>4, <1>5, Product
<1>7. /\ Short' = Short /\ Piece(partNo)' = Piece(partNo) /\ Short \in Int
  BY <1>1, <1>5, <1>6 DEF Short, Piece, Length
<1>8. CASE c = Piece(partNo) /\ reader = "done"
  <2>1. c.len = Length(partNo) /\ Short = partNo * ChunkSize - Drawn
    BY <1>8 DEF Piece, Short
  <2>2. Length(partNo) = ChunkSize - Short
    <3>1. partNo * ChunkSize - ChunkSize < Drawn /\ Drawn <= partNo * ChunkSize
      BY <1>8 DEF StreamInv
    <3> QED BY <1>5, <1>6, <2>1, <3>1 DEF Length
  <2>3. uploaded = K * ChunkSize
    BY <1>2, <1>6, <1>8 DEF CountInv
  <2>4. uploaded' = (K + 1) * ChunkSize - Short
    BY <1>1, <1>5, <1>6, <1>7, <2>1, <2>2, <2>3
  <2>5. Piece(partNo)' \in completed'
    BY <1>1, <1>7, <1>8
  <2> QED BY <1>4, <1>7, <2>4, <2>5 DEF CountInv
<1>9. CASE c # Piece(partNo) \/ reader # "done"
  <2>1. i * ChunkSize <= Drawn
    <3>1. CASE reader = "done"
      <4>1. i # partNo /\ i <= partNo
        BY <1>3, <1>5, <1>9, <3>1 DEF Cut
      <4>2. i * ChunkSize <= (partNo - 1) * ChunkSize
        BY <1>5, <4>1, Product
      <4>3. (partNo - 1) * ChunkSize = partNo * ChunkSize - ChunkSize
        BY <1>5
      <4> QED BY <1>5, <1>6, <3>1, <4>2, <4>3 DEF StreamInv
    <3>2. CASE reader # "done"
      <4>1. i <= Cut
        BY <1>3, <1>5
      <4>2. Cut * ChunkSize <= Drawn
        BY <1>5, <1>6, <3>2 DEF StreamInv, Cut, Types
      <4>3. i * ChunkSize <= Cut * ChunkSize
        BY <1>5, <4>1, Product
      <4> QED BY <1>5, <1>6, <4>2, <4>3
    <3> QED BY <3>1, <3>2
  <2>2. c.len = ChunkSize
    BY <1>3, <2>1 DEF Piece, Length
  <2>3. reader # "done" => Short = 0
    BY DEF Short
  <2>4. c = Piece(partNo) => Short = 0
    BY <1>9, <2>3
  <2>5. PICK lack : lack = (IF Piece(partNo) \in completed THEN Short ELSE 0)
    OBVIOUS
  <2>6. lack \in Int /\ uploaded = K * ChunkSize - lack
    BY <1>7, <2>5 DEF CountInv
  <2>7. lack = (IF Piece(partNo)' \in completed' THEN Short' ELSE 0)
    BY <1>1, <1>7, <2>4, <2>5
  <2>8. uploaded' = (K + 1) * ChunkSize - lack
    BY <1>1, <1>5, <1>6, <2>2, <2>6
  <2> QED BY <1>4, <2>7, <2>8 DEF CountInv
<1> QED
  BY <1>8, <1>9

LEMMA CountStep == Types /\ FlowInv /\ UploadInv /\ [Next]_vars => UploadInv'
<1> SUFFICES ASSUME Types, FlowInv, UploadInv, [Next]_vars PROVE UploadInv'
  OBVIOUS
<1>s. Size \in Nat /\ Size' = Size
  BY Numbers
<1>1. CASE UNCHANGED vars
  <2>1. UNCHANGED <<completed, uploaded, reader, partNo, Drawn, Flowing>>
    BY <1>1 DEF vars, taskVars, readerVars, writerVars, Drawn, Flowing
  <2>2. CASE Flowing
    BY <2>1, <2>2, CountStays DEF FlowInv, UploadInv
  <2> QED BY <2>1, <2>2 DEF UploadInv
<1>2. CASE Begin
  <2>1. completed' = {} /\ uploaded' = 0 /\ Flowing'
    BY <1>2 DEF Begin, Pipeline, Flowing
  <2>2. IsFiniteSet(completed') /\ Cardinality(completed') = 0
    BY <2>1, FS_EmptySet
  <2> QED BY <2>1, <2>2, Numbers DEF UploadInv, CountInv
<1>3. CASE Crash
  <2>1. uploaded' = 0 /\ ~Flowing'
    BY <1>3 DEF Crash, Pipeline, Flowing
  <2> QED BY <1>s, <2>1 DEF UploadInv
<1>4. CASE ~Begin /\ ~Crash /\ Next
  <2>1. Flowing' => Flowing
    BY <1>4
    DEF Next, Flowing, HeadFinds, CreateFails, Writer, WriterWrites, WriterEnds,
        WriterBreaks, WriterMisreads, Reader, ReaderReads, ReaderCuts, ReaderEnds, ReaderSends,
        ReaderSendFails, TaskSucceeds, TaskFails, Uploader, Create, Spawn, RecvNone, Drained,
        Complete, CompleteFails, Abort, JoinBroken, JoinSent, Joining, Accept, Reject,
        WriteManifest
  <2>2. UNCHANGED <<completed, uploaded>> \/ \E c \in sent : JoinSent(c)
    BY <1>4
    DEF Next, HeadFinds, CreateFails, Writer, WriterWrites, WriterEnds,
        WriterBreaks, WriterMisreads, Reader, ReaderReads, ReaderCuts, ReaderEnds, ReaderSends,
        ReaderSendFails, TaskSucceeds, TaskFails, Uploader, Create, Spawn, RecvNone, Drained,
        Complete, CompleteFails, Abort, JoinBroken, Accept, Reject, WriteManifest, taskVars
  <2>3. (\E c \in sent : JoinSent(c)) => Flowing /\ Flowing'
    BY DEF JoinSent, Joining, Flowing
  <2>4. CASE Flowing'
    <3>1. Flowing /\ StreamInv /\ ChunkInv /\ StageInv /\ CountInv
      BY <2>1, <2>4 DEF FlowInv, UploadInv
    <3>2. CASE \E c \in sent : JoinSent(c)
      BY <2>4, <3>1, <3>2, CountJoins DEF UploadInv
    <3>3. CASE ~ \E c \in sent : JoinSent(c)
      <4>1. /\ UNCHANGED <<reader, partNo, Drawn>> \/ ReaderEnds \/ ReaderSends
               \/ (reader # "done" /\ reader' # "done")
        <5>1. CASE Writer \/ WriterMisreads
          <6>1. written \in Int /\ pipe \in Int
            BY DEF Types
          <6> QED BY <5>1, <6>1 DEF Writer, WriterWrites, WriterEnds, WriterBreaks, WriterMisreads, Drawn,
                                 readerVars
        <5>2. CASE ReaderReads \/ ReaderCuts
          BY <5>2 DEF ReaderReads, ReaderCuts
        <5>3. CASE ReaderSendFails
          BY <3>1, <5>3 DEF ReaderSendFails, ReceiverDropped, Flowing
        <5>4. CASE Create
          BY <3>1, <5>4 DEF Create, StageInv
        <5>5. CASE ~Writer /\ ~WriterMisreads /\ ~Reader /\ ~Create
          BY <1>4, <3>3, <5>5
          DEF Next, HeadFinds, CreateFails, TaskSucceeds, TaskFails, Uploader, Spawn, RecvNone,
              Drained, Complete, CompleteFails, Abort, JoinBroken, Accept, Reject, WriteManifest,
              readerVars, writerVars, Drawn
        <5> QED BY <5>1, <5>2, <5>3, <5>4, <5>5 DEF Reader
      <4> QED BY <2>2, <2>4, <3>1, <3>3, <4>1, CountStays DEF UploadInv
    <3> QED BY <3>2, <3>3
  <2>5. CASE ~Flowing'
    <3>1. uploaded' = uploaded
      BY <2>2, <2>3, <2>5
    <3>2. uploaded <= Size
      <4>1. CASE Flowing
        BY <4>1, CountIsBounded DEF FlowInv, UploadInv
      <4> QED BY <4>1 DEF UploadInv
    <3> QED BY <1>s, <2>5, <3>1, <3>2 DEF UploadInv
  <2> QED BY <2>4, <2>5
<1> QED
  BY <1>1, <1>2, <1>3, <1>4

(* Every variable holds a value of its type, so that what an upload counts *)
(* never exceeds its archive (uploaded_bytes in                            *)
(* put_object_multipart_reader_inner).                                     *)
THEOREM TypeCorrect == Spec => []TypeOK
<1>1. Init => Types /\ FlowInv /\ UploadInv /\ Flags
  <2>1. Init => UploadInv
    BY Numbers DEF Init, UploadInv, Flowing
  <2>2. Init => Flags
    BY DEF Init, Flags
  <2> QED BY <2>1, <2>2, TypesInit, FlowInit
<1>2. Types /\ FlowInv /\ UploadInv /\ Flags /\ [Next]_vars
        => (Types /\ FlowInv /\ UploadInv /\ Flags)'
  BY TypesStep, FlowStep, CountStep, FlagsStep
<1>3. Types /\ FlowInv /\ UploadInv /\ Flags => TypeOK
  <2> SUFFICES ASSUME Types, FlowInv, UploadInv, Flags PROVE TypeOK
    OBVIOUS
  <2>1. uploaded <= Size
    <3>1. CASE Flowing
      BY <3>1, CountIsBounded DEF FlowInv, UploadInv
    <3> QED BY <3>1 DEF UploadInv
  <2>2. uploaded \in 0..Size
    BY <2>1, Numbers DEF Types
  <2>3. open \in BOOLEAN /\ referenced \in BOOLEAN /\ misread \in BOOLEAN
    BY DEF Flags
  <2> QED BY <2>2, <2>3, ZenonT(30) DEF Types, TypeOK
<1> QED
  BY <1>1, <1>2, <1>3, PTL DEF Spec

-----------------------------------------------------------------------------
(* The upload as Snapshot sees it                                          *)

(* A writer fails before it has written all, or when the run has failed.   *)
ShortInv == Flowing /\ writer = "failed" => written < Size

LEMMA ShortStep == Types /\ FlowInv /\ ShortInv /\ [Next]_vars => ShortInv'
<1> SUFFICES ASSUME Types, FlowInv, ShortInv, [Next]_vars, Flowing', writer' = "failed"
             PROVE  written' < Size
  BY DEF ShortInv
<1>1. CASE UNCHANGED vars
  BY <1>1 DEF vars, writerVars, ShortInv, Flowing
<1>2. CASE Begin
  BY <1>2 DEF Begin
<1>3. CASE WriterMisreads
  BY <1>3 DEF WriterMisreads
<1>4. CASE WriterBreaks
  <2>1. Flowing /\ reader = "done" /\ writer = "writing"
    BY <1>4 DEF WriterBreaks, PipeBroken, Flowing
  <2>2. EndOfStream
    BY <2>1 DEF FlowInv, StreamInv
  <2> QED BY <2>1, <2>2 DEF EndOfStream
<1>5. CASE Next /\ ~Begin /\ ~WriterMisreads /\ ~WriterBreaks
  <2>1. Flowing
    BY <1>5
    DEF Next, Flowing, HeadFinds, CreateFails, Crash, Writer, WriterWrites, WriterEnds,
        Reader, ReaderReads, ReaderCuts, ReaderEnds, ReaderSends,
        ReaderSendFails, TaskSucceeds, TaskFails, Uploader, Create, Spawn, RecvNone, Drained,
        Complete, CompleteFails, Abort, JoinBroken, JoinSent, Joining, Accept, Reject,
        WriteManifest
  <2>2. UNCHANGED <<writer, written>>
    BY <1>5
    DEF Next, HeadFinds, CreateFails, Crash, Writer, WriterWrites, WriterEnds,
        Reader, ReaderReads, ReaderCuts, ReaderEnds, ReaderSends,
        ReaderSendFails, TaskSucceeds, TaskFails, Uploader, Create, Spawn, RecvNone, Drained,
        Complete, CompleteFails, Abort, JoinBroken, JoinSent, Accept, Reject,
        WriteManifest, writerVars
  <2> QED BY <2>1, <2>2 DEF ShortInv
<1> QED
  BY <1>1, <1>2, <1>3, <1>4, <1>5

(* What a stream that ended early is cut into is not the archive.          *)
LEMMA PiecesAreShort ==
  ASSUME Types, StreamInv, reader = "done", written < Size
  PROVE  {Piece(i) : i \in 1..partNo} # WholeArchive
<1>1. /\ Drawn = written /\ Size \in Nat /\ partNo \in Nat /\ written \in Nat
      /\ ChunkSize \in Nat \ {0} /\ partNo * ChunkSize \in Nat
  BY Numbers, Product DEF Types, StreamInv, EndOfStream, Drawn
<1>2. Drawn <= partNo * ChunkSize /\ Count \in Int
  BY <1>1 DEF StreamInv, Count
<1> SUFFICES ASSUME {Piece(i) : i \in 1..partNo} = WholeArchive PROVE FALSE
  OBVIOUS
<1>3. Count >= 1
  BY <1>1, Numbers DEF Count
<1> DEFINE last == [no |-> Count, len |-> Size - (Count - 1) * ChunkSize]
<1>4. last \in WholeArchive
  BY <1>2, <1>3 DEF WholeArchive
<1>5. PICK i \in 1..partNo : Piece(i) = last
  BY <1>4
<1>6. i = Count /\ Length(i) = Size - (Count - 1) * ChunkSize
  BY <1>5 DEF Piece
<1>7. Piece(partNo) \in WholeArchive
  BY <1>1, <1>5
<1>8. partNo <= Count
  <2>1. PICK j \in 1..Count : Piece(partNo).no = j
    BY <1>7 DEF WholeArchive
  <2> QED BY <1>2, <2>1 DEF Piece
<1>9. partNo = Count
  BY <1>1, <1>2, <1>5, <1>6, <1>8
<1>10. Length(partNo) = Size - (partNo * ChunkSize - ChunkSize)
  <2>1. (partNo - 1) * ChunkSize = partNo * ChunkSize - ChunkSize
    BY <1>1
  <2> QED BY <1>6, <1>9, <2>1
<1> QED
  BY <1>1, <1>2, <1>10 DEF Length

LEMMA Quotient ==
  ASSUME NEW s \in Nat, NEW c \in Nat \ {0}, NEW p \in Nat, p * c <= s + c - 1
  PROVE  p <= (s + c - 1) \div c
<1> DEFINE q == (s + c - 1) \div c
           m == s + c - 1
<1>1. m \in Nat /\ q \in Int /\ m < q * c + c
  OBVIOUS
<1>2. (q + 1) * c = q * c + c
  BY <1>1
<1>3. ASSUME q + 1 <= p PROVE FALSE
  <2>1. (q + 1) * c <= p * c
    BY <1>1, <1>3
  <2> QED BY <1>1, <1>2, <2>1
<1> QED BY <1>1, <1>3

LEMMA CompletedIsCut ==
  ASSUME Types, FlowInv, ShortInv, pc = "complete"
  PROVE  /\ writer = "ok" \/ (writer = "failed" /\ completed # WholeArchive)
         /\ completed # Absent
<1>1. StreamInv /\ ChunkInv /\ StageInv
  BY DEF FlowInv, Flowing
<1>2. chan = <<>> /\ reader = "done" /\ Tasks = {} /\ Len(chan) = 0
  BY <1>1 DEF StageInv
<1>3. Handed = partNo
  BY <1>2 DEF Handed, Cut, Types
<1>4. completed = {Piece(i) : i \in 1..partNo}
  BY <1>1, <1>2, <1>3 DEF ChunkInv
<1>5. writer \in {"ok", "failed"}
  BY <1>1, <1>2 DEF StreamInv, EndOfStream
<1>6. writer = "failed" => written < Size
  BY DEF ShortInv, Flowing
<1>7. completed # Absent
  <2>1. /\ Drawn \in Int /\ Drawn <= Size /\ partNo \in Nat /\ Size \in Nat
        /\ ChunkSize \in Nat \ {0} /\ partNo * ChunkSize \in Nat
        /\ partNo * ChunkSize - ChunkSize < Drawn
    BY <1>1, <1>2, Numbers, Product DEF Types, StreamInv, Drawn
  <2>2. partNo <= Count /\ Count \in Int
    BY <2>1, Quotient DEF Count
  <2>3. completed \subseteq [no : 1..Count, len : 1..ChunkSize]
    <3> SUFFICES ASSUME NEW c \in completed PROVE c \in [no : 1..Count, len : 1..ChunkSize]
      OBVIOUS
    <3>1. PICK i \in 1..partNo : c = Piece(i)
      BY <1>4
    <3>2. c \in Chunks
      BY DEF Types
    <3>3. c.no = i /\ c.len \in 1..ChunkSize
      BY <3>1, <3>2 DEF Piece, Chunks
    <3> QED BY <2>1, <2>2, <3>1, <3>3 DEF Piece
  <2> QED BY <2>3, AbsentAssumption
<1> QED
  BY <1>1, <1>2, <1>4, <1>5, <1>6, <1>7, PiecesAreShort

LEMMA SeenInit == Init => Seen!Init
BY DEF Init, Seen!Init, SeenRun, SeenReadable, SeenArchive

(* complete_multipart_upload is the moment at which the object changes.    *)
LEMMA CompleteStores ==
  ASSUME Types, FlowInv, ShortInv, Complete
  PROVE  Seen!Store
<1>1. SeenRun = "upload" /\ SeenRun' = "stored"
  BY DEF Complete, SeenRun
<1>2. UNCHANGED <<writer, SeenReadable>> /\ (SeenReadable <=> writer # "failed")
  BY DEF Complete, SeenReadable, writerVars
<1>3. object' = completed /\ WholeArchive' = WholeArchive
  BY DEF Complete, WholeArchive, Count
<1>4. completed # Absent
  BY CompletedIsCut DEF Complete
<1>5. writer = "ok" => completed = WholeArchive
  BY CompletedIsWhole DEF Complete
<1>6. writer = "ok" \/ (writer = "failed" /\ completed # WholeArchive)
  BY CompletedIsCut DEF Complete
<1>7. SeenArchive' = IF SeenReadable THEN "whole" ELSE "cut"
  BY <1>2, <1>3, <1>4, <1>5, <1>6 DEF SeenArchive
<1> QED
  BY <1>1, <1>2, <1>7 DEF Seen!Store

SeenVars == <<SeenRun, SeenReadable, SeenArchive>>

(* The upload is open until it is completed, once.                         *)
OpenInv == pc \in {"recv", "drain"} => open

LEMMA OpenStep == OpenInv /\ [Next]_vars => OpenInv'
BY DEF OpenInv, Next, HeadFinds, Begin, CreateFails, Crash, Writer, WriterWrites, WriterEnds,
   WriterBreaks, WriterMisreads, Reader, ReaderReads, ReaderCuts, ReaderEnds, ReaderSends,
   ReaderSendFails, TaskSucceeds, TaskFails, Uploader, Create, Spawn, RecvNone, Drained,
   Complete, CompleteFails, Abort, JoinBroken, JoinSent, Joining, Accept, Reject, WriteManifest,
   bucketVars, vars

LEMMA ArchiveStays == UNCHANGED object => UNCHANGED SeenArchive
BY DEF SeenArchive, WholeArchive, Count

(* Neither the run nor its writer has changed.                             *)
LEMMA SeenStays ==
  ASSUME UNCHANGED <<pc, open, object>>, writer' = writer \/ (writer' # "failed" /\ writer # "failed")
  PROVE  UNCHANGED SeenVars
<1>1. UNCHANGED SeenArchive
  BY ArchiveStays
<1>2. UNCHANGED SeenRun
  BY DEF SeenRun
<1>3. UNCHANGED SeenReadable
  BY DEF SeenReadable
<1> QED
  BY <1>1, <1>2, <1>3 DEF SeenVars

(* What the writer, the reader and the tasks do by themselves.             *)
LEMMA PipelineSeen ==
  ASSUME Writer \/ WriterMisreads \/ Reader \/ Spawn
         \/ (\E c \in sending : TaskSucceeds(c) \/ TaskFails(c)) \/ (\E c \in sent : JoinSent(c)),
         pc \in Pc
  PROVE  Seen!WriterFails \/ UNCHANGED SeenVars
<1>1. UNCHANGED <<pc, open, object>>
  BY DEF Writer, WriterWrites, WriterEnds, WriterBreaks, WriterMisreads, Reader, ReaderReads,
     ReaderCuts, ReaderEnds, ReaderSends, ReaderSendFails, TaskSucceeds, TaskFails, Spawn,
     JoinSent, bucketVars
<1>2. CASE WriterBreaks \/ WriterMisreads
  <2>1. writer' = "failed" /\ writer # "failed"
    BY <1>2 DEF WriterBreaks, WriterMisreads
  <2>2. CASE pc \in {"idle", "manifest"}
    <3>1. UNCHANGED SeenReadable
      BY <1>1, <2>2 DEF SeenReadable
    <3> QED BY <1>1, <3>1, ArchiveStays DEF SeenVars, SeenRun
  <2>3. CASE pc \notin {"idle", "manifest"}
    <3>1. SeenReadable' = FALSE
      BY <1>1, <2>1, <2>3 DEF SeenReadable
    <3>2. SeenRun \in {"upload", "stored", "failing"} /\ UNCHANGED SeenRun
      BY <1>1, <2>3 DEF SeenRun, Pc
    <3> QED BY <1>1, <3>1, <3>2, ArchiveStays DEF Seen!WriterFails
  <2> QED BY <2>2, <2>3
<1>3. CASE ~(WriterBreaks \/ WriterMisreads)
  <2>1. writer' = writer \/ (writer' # "failed" /\ writer # "failed")
    <3>1. CASE Reader
      BY <3>1
      DEF Reader, ReaderReads, ReaderCuts, ReaderEnds, ReaderSends, ReaderSendFails, writerVars
    <3>2. CASE Writer
      BY <1>3, <3>2 DEF Writer, WriterWrites, WriterEnds
    <3>3. CASE ~Reader /\ ~Writer
      BY <1>3, <3>3 DEF TaskSucceeds, TaskFails, Spawn, JoinSent, writerVars
    <3> QED BY <3>1, <3>2, <3>3
  <2> QED BY <1>1, <2>1, SeenStays
<1> QED
  BY <1>2, <1>3

(* The way of a run that is not the present upload's.                      *)
LEMMA RunSeen ==
  /\ HeadFinds => Seen!Find
  /\ Begin => Seen!Begin
  /\ CreateFails => Seen!GiveUp
  /\ Crash /\ pc \in Pc => Seen!End
  /\ Accept => Seen!Accept
  /\ Reject => Seen!End
  /\ WriteManifest => Seen!End
<1>1. HeadFinds => Seen!Find
  BY ArchiveStays DEF HeadFinds, Seen!Find, SeenRun, SeenReadable, SeenArchive, bucketVars
<1>2. Begin => Seen!Begin
  BY ArchiveStays DEF Begin, Seen!Begin, SeenRun, SeenReadable, bucketVars
<1>3. CreateFails => Seen!GiveUp
  BY ArchiveStays DEF CreateFails, Seen!GiveUp, SeenRun, SeenReadable, bucketVars, writerVars
<1>4. Crash /\ pc \in Pc => Seen!End
  BY ArchiveStays DEF Crash, Seen!End, SeenRun, SeenReadable, bucketVars, Pc
<1>5. Accept => Seen!Accept
  BY ArchiveStays DEF Accept, Verified, Seen!Accept, SeenRun, SeenReadable, bucketVars
<1>6. Reject => Seen!End
  BY ArchiveStays DEF Reject, Seen!End, SeenRun, SeenReadable, bucketVars
<1>7. WriteManifest => Seen!End
  BY ArchiveStays DEF WriteManifest, Seen!End, SeenRun, SeenReadable
<1> QED
  BY <1>1, <1>2, <1>3, <1>4, <1>5, <1>6, <1>7

(* The way of the upload itself, but for its completion.                   *)
LEMMA UploaderSeen ==
  /\ Create => UNCHANGED SeenVars
  /\ RecvNone => UNCHANGED SeenVars
  /\ Drained /\ OpenInv => UNCHANGED SeenVars
  /\ JoinBroken => Seen!GiveUp
  /\ CompleteFails => Seen!GiveUp
  /\ Abort => UNCHANGED SeenVars
<1>1. Create => UNCHANGED SeenVars
  BY ArchiveStays DEF Create, SeenVars, SeenRun, SeenReadable, writerVars
<1>2. RecvNone => UNCHANGED SeenVars
  BY ArchiveStays DEF RecvNone, SeenVars, SeenRun, SeenReadable, writerVars, bucketVars
<1>3. Drained /\ OpenInv => UNCHANGED SeenVars
  BY ArchiveStays DEF Drained, OpenInv, SeenVars, SeenRun, SeenReadable, writerVars, bucketVars
<1>4. JoinBroken => Seen!GiveUp
  BY ArchiveStays
  DEF JoinBroken, Joining, Seen!GiveUp, SeenRun, SeenReadable, writerVars, bucketVars
<1>5. CompleteFails => Seen!GiveUp
  BY ArchiveStays DEF CompleteFails, Seen!GiveUp, SeenRun, SeenReadable, writerVars, bucketVars
<1>6. Abort => UNCHANGED SeenVars
  BY ArchiveStays DEF Abort, SeenVars, SeenRun, SeenReadable, writerVars
<1> QED
  BY <1>1, <1>2, <1>3, <1>4, <1>5, <1>6

LEMMA SeenNext ==
  ASSUME Types, FlowInv, ShortInv, OpenInv, [Next]_vars
  PROVE  [Seen!Next]_SeenVars
<1>1. CASE UNCHANGED vars
  <2>1. UNCHANGED <<pc, open, object, writer>>
    BY <1>1 DEF vars, writerVars, bucketVars
  <2> QED BY <2>1, SeenStays
<1>2. CASE Complete
  BY <1>2, CompleteStores DEF Seen!Next
<1>3. CASE Writer \/ WriterMisreads \/ Reader \/ Spawn
             \/ (\E c \in sending : TaskSucceeds(c) \/ TaskFails(c))
             \/ (\E c \in sent : JoinSent(c))
  BY <1>3, PipelineSeen DEF Types, Seen!Next
<1>4. CASE HeadFinds \/ Begin \/ CreateFails \/ Crash \/ Accept \/ Reject \/ WriteManifest
  BY <1>4, RunSeen DEF Types, Seen!Next
<1>5. CASE Create \/ RecvNone \/ Drained \/ JoinBroken \/ CompleteFails \/ Abort
  BY <1>5, UploaderSeen DEF Seen!Next
<1> QED
  BY <1>1, <1>2, <1>3, <1>4, <1>5 DEF Next, Uploader

(* upload_part_archives and put_object_multipart_reader implement the      *)
(* upload that Snapshot takes a part's to be: the key changes once a run   *)
(* at most, to the whole archive unless the run's own writer has failed,   *)
(* and then the run is not accepted.                                       *)
THEOREM UploadImplemented == Spec => ImplementsUpload
<1> DEFINE Inv == Types /\ FlowInv /\ ShortInv /\ OpenInv
<1>1. Init => Inv
  <2>1. Init => ShortInv /\ OpenInv
    BY DEF Init, ShortInv, OpenInv
  <2> QED BY <2>1, TypesInit, FlowInit
<1>2. Inv /\ [Next]_vars => Inv'
  BY TypesStep, FlowStep, ShortStep, OpenStep
<1>3. Inv /\ [Next]_vars => [Seen!Next]_<<SeenRun, SeenReadable, SeenArchive>>
  BY SeenNext DEF SeenVars
<1> QED
  BY <1>1, <1>2, <1>3, SeenInit, PTL DEF Spec, ImplementsUpload, Seen!Spec, Seen!uploadVars
=============================================================================
