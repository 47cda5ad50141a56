-------------------------- MODULE Snapshot_proofs --------------------------
(***************************************************************************)
(* Theorems about Snapshot, for any number of runs, parts, files, passes   *)
(* and faults.                                                             *)
(***************************************************************************)
EXTENDS Snapshot, TLAPS

-----------------------------------------------------------------------------
(* Types                                                                   *)

LEMMA NoneTyped == None \in [Parts -> (SUBSET Files) \cup {Absent}]
BY DEF None

LEMMA TypeInit == Init => TypeOK
<1> SUFFICES ASSUME Init PROVE TypeOK
  OBVIOUS
<1>1. 1 \in 1..MaxPasses
  BY MaxPassesAssumption
<1>2. 0 \in 0..MaxFaults
  BY MaxFaultsAssumption
<1> QED
  BY <1>1, <1>2, NoneTyped, PartsAssumption DEF Init, TypeOK, Pc

LEMMA FaultTyped == TypeOK /\ Fault => faults' \in 0..MaxFaults
BY MaxFaultsAssumption DEF TypeOK, Fault

(* One part more, or one less, in a run's set; a new value for one part.   *)
LEMMA SetChanged ==
  ASSUME NEW F \in [Runs -> SUBSET Parts], NEW r \in Runs, NEW h \in Parts
  PROVE  /\ [F EXCEPT ![r] = @ \cup {h}] \in [Runs -> SUBSET Parts]
         /\ [F EXCEPT ![r] = @ \ {h}] \in [Runs -> SUBSET Parts]
OBVIOUS

LEMMA FilesChanged ==
  ASSUME NEW F \in [Runs -> [Parts -> (SUBSET Files) \cup {Absent}]],
         NEW r \in Runs, NEW h \in Parts, NEW v \in (SUBSET Files) \cup {Absent}
  PROVE  [F EXCEPT ![r][h] = v] \in [Runs -> [Parts -> (SUBSET Files) \cup {Absent}]]
OBVIOUS

(* The locals of a run that ends. *)
LEMMA EndTyped ==
  ASSUME NEW r \in Runs, NEW o \in {"done", "failed", "unstarted"}, TypeOK, End(r, o),
         dirs' \in [Parts -> (SUBSET Files) \cup {Absent}],
         blobs' \in [Parts -> (SUBSET Files) \cup {Absent}],
         marked' \subseteq Parts,
         manifests' \in [Runs -> [parts : SUBSET Parts, tables : SUBSET Tables] \cup {Absent}],
         faults' \in 0..MaxFaults
  PROVE  TypeOK'
<1>1. 1 \in 1..MaxPasses
  BY MaxPassesAssumption
<1>2. /\ pc' \in [Runs -> Pc] /\ pass' \in [Runs -> 1..MaxPasses]
      /\ base' \in [Runs -> Runs \cup {Absent}]
  BY <1>1 DEF TypeOK, End, Goto, Pc
<1>3. /\ todo' \in [Runs -> [Parts -> (SUBSET Files) \cup {Absent}]]
      /\ listing' \in [Runs -> [Parts -> (SUBSET Files) \cup {Absent}]]
  BY NoneTyped DEF TypeOK, End
<1>4. /\ current' \in [Runs -> SUBSET Parts] /\ listed' \in [Runs -> SUBSET Parts]
      /\ known' \in [Runs -> SUBSET Parts]
      /\ toHead' \in [Runs -> SUBSET Parts] /\ found' \in [Runs -> SUBSET Parts]
      /\ toStage' \in [Runs -> SUBSET Parts]
      /\ missing' \in [Runs -> SUBSET Parts] /\ staged' \in [Runs -> SUBSET Parts]
      /\ left' \in [Runs -> SUBSET Parts]
  BY DEF TypeOK, End
<1>5. failing' \in [Runs -> BOOLEAN]
  BY DEF TypeOK, End
<1>6. /\ active' \subseteq onDisk' /\ onDisk' \subseteq Parts /\ ddl' \subseteq Tables
      /\ uploaded' \in [Runs -> SUBSET Parts]
  BY DEF TypeOK, End, hostVars
<1> QED
  BY <1>2, <1>3, <1>4, <1>5, <1>6 DEF TypeOK

LEMMA DrawnTypes ==
  ASSUME NEW r \in Runs, TypeOK
  PROVE  /\ current[r] \in SUBSET Parts /\ TablesOf(current[r]) \in SUBSET Tables
         /\ NeedUpload(r) \subseteq Parts /\ NeedStage(r) \subseteq Parts
BY TableAssumption DEF TypeOK, TablesOf, NeedUpload, NeedStage

(* The latest manifest that a run has listed is there to be read: no        *)
(* backup removes one.                                                     *)
BaseListed == \A r \in Runs : pc[r] = "base" => base[r] \in Present

LEMMA ManifestTyped ==
  ASSUME NEW r \in Runs, TypeOK, manifests[r] # Absent
  PROVE  manifests[r].parts \subseteq Parts
BY DEF TypeOK

LEMMA WrittenTyped ==
  ASSUME NEW r \in Runs, TypeOK
  PROVE  LET m == [parts |-> current[r], tables |-> TablesOf(current[r])]
         IN  /\ m \in [parts : SUBSET Parts, tables : SUBSET Tables]
             /\ m # Absent
BY DrawnTypes, AbsentAssumption

LEMMA TypeNext == TypeOK /\ BaseListed /\ [Next]_vars => TypeOK'
<1> SUFFICES ASSUME TypeOK, BaseListed, [Next]_vars PROVE TypeOK'
  OBVIOUS
<1> USE DEF hostVars, diskVars, bucketVars, planVars, headVars, stageVars, uploadVars
<1>1. CASE UNCHANGED vars
  BY <1>1 DEF TypeOK, vars, runVars
<1>2. CASE ClickHouse
  <2>1. CASE Change
    BY <1>2, <2>1, PartsAssumption DEF ClickHouse, Change, TypeOK, runVars
  <2>2. CASE \E h \in Parts : Remove(h)
    BY <1>2, <2>2 DEF ClickHouse, Remove, TypeOK, runVars
  <2>3. CASE \E t \in Tables : DropTable(t)
    BY <1>2, <2>3 DEF ClickHouse, DropTable, TypeOK, runVars
  <2> QED
    BY <1>2, <2>1, <2>2, <2>3 DEF ClickHouse
<1>3. ASSUME NEW r \in Runs, Query(r) \/ List(r) \/ ReadBase(r) \/ Setup(r) \/ Plan(r)
      PROVE TypeOK'
  <2>1. CASE Query(r)
    BY <2>1 DEF Query, Goto, ActiveParts, TypeOK, Pc
  <2>2. CASE List(r)
    <3>1. base' \in [Runs -> Runs \cup {Absent}]
      BY <2>2 DEF List, TypeOK, Present
    <3>2. pc' \in [Runs -> Pc]
      BY <2>2 DEF List, Goto, TypeOK, Pc
    <3>3. toHead' \in [Runs -> SUBSET Parts]
      <4>1. toHead' = [toHead EXCEPT ![r] = current[r] \cap Large] \/ toHead' = toHead
        BY <2>2 DEF List
      <4>2. current[r] \cap Large \in SUBSET Parts /\ toHead \in [Runs -> SUBSET Parts]
        BY DEF TypeOK
      <4> QED
        BY ONLY <4>1, <4>2, r \in Runs
    <3> QED
      BY <2>2, <3>1, <3>2, <3>3 DEF List, TypeOK
  <2>3. CASE ReadBase(r)
    <3>1. manifests[base[r]].parts \subseteq Parts
      BY <2>3, ManifestTyped DEF ReadBase, BaseListed, Present
    <3> QED
      BY <2>3, <3>1 DEF ReadBase, Goto, TypeOK, Pc
  <2>4. CASE Setup(r)
    BY <2>4, NoneTyped DEF Setup, EmptyStaging, Goto, TypeOK, Pc
  <2>5. CASE Plan(r)
    BY <2>5, DrawnTypes DEF Plan, Goto, TypeOK, Pc
  <2> QED
    BY <1>3, <2>1, <2>2, <2>3, <2>4, <2>5
<1>4. ASSUME NEW r \in Runs, NEW h \in Parts, Head(r, h) \/ StageBegins(r, h) \/ Mark(r, h)
      PROVE TypeOK'
  <2>1. CASE Head(r, h)
    <3>1. toHead' \in [Runs -> SUBSET Parts] /\ found' \in [Runs -> SUBSET Parts]
      <4>1. toHead \in [Runs -> SUBSET Parts] /\ found \in [Runs -> SUBSET Parts]
        BY DEF TypeOK
      <4>2. /\ toHead' = [toHead EXCEPT ![r] = @ \ {h}]
            /\ found' = [found EXCEPT ![r] = @ \cup {h}] \/ found' = found
        BY <2>1 DEF Head
      <4> QED
        BY ONLY <4>1, <4>2, r \in Runs, h \in Parts
    <3>2. faults' \in 0..MaxFaults
      BY <2>1, MaxFaultsAssumption DEF Head, TypeOK
    <3> QED
      BY <2>1, <3>1, <3>2 DEF Head, TypeOK
  <2>2. CASE StageBegins(r, h)
    <3>1. /\ toStage' \in [Runs -> SUBSET Parts] /\ missing' \in [Runs -> SUBSET Parts]
          /\ staged' \in [Runs -> SUBSET Parts]
      <4>1. /\ toStage \in [Runs -> SUBSET Parts] /\ missing \in [Runs -> SUBSET Parts]
            /\ staged \in [Runs -> SUBSET Parts]
        BY DEF TypeOK
      <4>2. /\ toStage' = [toStage EXCEPT ![r] = @ \ {h}]
            /\ missing' = [missing EXCEPT ![r] = @ \cup {h}] \/ missing' = missing
            /\ staged' = [staged EXCEPT ![r] = @ \cup {h}] \/ staged' = staged
        BY <2>2 DEF StageBegins
      <4> QED
        BY ONLY <4>1, <4>2, r \in Runs, h \in Parts
    <3>2. dirs' \in [Parts -> (SUBSET Files) \cup {Absent}] /\ marked' \subseteq Parts
      BY <2>2 DEF StageBegins, TypeOK
    <3>3. todo' \in [Runs -> [Parts -> (SUBSET Files) \cup {Absent}]]
      <4>1. todo' = todo \/ todo' = [todo EXCEPT ![r][h] = Files]
        BY <2>2 DEF StageBegins
      <4>2. todo \in [Runs -> [Parts -> (SUBSET Files) \cup {Absent}]]
        BY DEF TypeOK
      <4>3. [todo EXCEPT ![r][h] = Files] \in [Runs -> [Parts -> (SUBSET Files) \cup {Absent}]]
        BY <4>2, FilesChanged
      <4> QED
        BY <4>1, <4>2, <4>3
    <3> QED
      BY <2>2, <3>1, <3>2, <3>3 DEF StageBegins, TypeOK
  <2>3. CASE Mark(r, h)
    <3>1. /\ missing' \in [Runs -> SUBSET Parts] /\ staged' \in [Runs -> SUBSET Parts]
          /\ marked' \subseteq Parts
      <4>1. /\ missing \in [Runs -> SUBSET Parts] /\ staged \in [Runs -> SUBSET Parts]
            /\ marked \subseteq Parts
        BY DEF TypeOK
      <4>2. /\ missing' = [missing EXCEPT ![r] = @ \cup {h}] \/ missing' = missing
            /\ staged' = [staged EXCEPT ![r] = @ \cup {h}] \/ staged' = staged
            /\ marked' = marked \cup {h} \/ marked' = marked
        BY <2>3 DEF Mark
      <4> QED
        BY ONLY <4>1, <4>2, r \in Runs, h \in Parts
    <3>2. todo' \in [Runs -> [Parts -> (SUBSET Files) \cup {Absent}]]
      <4>1. todo' = [todo EXCEPT ![r][h] = Absent]
        BY <2>3 DEF Mark
      <4>2. todo \in [Runs -> [Parts -> (SUBSET Files) \cup {Absent}]]
        BY DEF TypeOK
      <4> QED
        BY <4>1, <4>2, FilesChanged
    <3> QED
      BY <2>3, <3>1, <3>2 DEF Mark, TypeOK
  <2> QED
    BY <1>4, <2>1, <2>2, <2>3
<1>5. ASSUME NEW r \in Runs, NEW h \in Parts, NEW f \in Files, Link(r, h, f)
      PROVE TypeOK'
  <2>1. missing' \in [Runs -> SUBSET Parts]
    <3>1. missing' = [missing EXCEPT ![r] = @ \cup {h}] \/ missing' = missing
      BY <1>5 DEF Link
    <3>2. missing \in [Runs -> SUBSET Parts]
      BY DEF TypeOK
    <3> QED
      BY <3>1, <3>2, SetChanged
  <2>2. dirs' \in [Parts -> (SUBSET Files) \cup {Absent}]
    <3>1. ({f} \cup IF dirs[h] = Absent THEN {} ELSE dirs[h]) \in SUBSET Files
      BY DEF TypeOK
    <3>2. dirs' = [dirs EXCEPT ![h] = {f} \cup IF @ = Absent THEN {} ELSE @] \/ dirs' = dirs
      BY <1>5 DEF Link
    <3>3. dirs \in [Parts -> (SUBSET Files) \cup {Absent}]
      BY DEF TypeOK
    <3> QED
      BY ONLY <3>1, <3>2, <3>3, h \in Parts
  <2>3. todo' \in [Runs -> [Parts -> (SUBSET Files) \cup {Absent}]]
    <3>1. todo[r][h] \ {f} \in SUBSET Files
      BY <1>5 DEF Link, TypeOK
    <3>2. todo' = [todo EXCEPT ![r][h] = @ \ {f}] \/ todo' = [todo EXCEPT ![r][h] = Absent]
      BY <1>5 DEF Link
    <3>3. todo' = [todo EXCEPT ![r][h] = todo[r][h] \ {f}]
            \/ todo' = [todo EXCEPT ![r][h] = Absent]
      BY <3>2 DEF TypeOK
    <3>4. todo \in [Runs -> [Parts -> (SUBSET Files) \cup {Absent}]]
      BY DEF TypeOK
    <3>5. [todo EXCEPT ![r][h] = todo[r][h] \ {f}]
            \in [Runs -> [Parts -> (SUBSET Files) \cup {Absent}]]
      BY <3>1, <3>4, FilesChanged
    <3>6. [todo EXCEPT ![r][h] = Absent]
            \in [Runs -> [Parts -> (SUBSET Files) \cup {Absent}]]
      BY <3>4, FilesChanged
    <3> QED
      BY <3>3, <3>5, <3>6
  <2> QED
    BY <1>5, <2>1, <2>2, <2>3 DEF Link, TypeOK
<1>6. ASSUME NEW r \in Runs, AllStaged(r) \/ Restage(r) \/ Await(r) \/ Redescribe(r)
      PROVE TypeOK'
  <2>1. CASE AllStaged(r)
    BY <2>1 DEF AllStaged, Goto, TypeOK, Pc
  <2>2. CASE Restage(r)
    BY <2>2, MaxPassesAssumption DEF Restage, Goto, ActiveParts, TypeOK, Pc
  <2>3. CASE Await(r)
    BY <2>3, MaxPassesAssumption DEF Await, Goto, TypeOK, Pc
  <2>4. CASE Redescribe(r)
    BY <2>4, MaxPassesAssumption DEF Redescribe, ActiveParts, TypeOK, Pc
  <2> QED
    BY <1>6, <2>1, <2>2, <2>3, <2>4
<1>7. ASSUME NEW r \in Runs, Describe(r) \/ UploadsEnd(r)
      PROVE TypeOK'
  <2>1. CASE Describe(r)
    <3>1. left' \in [Runs -> SUBSET Parts]
      BY <2>1 DEF Describe, TypeOK
    <3>2. /\ dirs' \in [Parts -> (SUBSET Files) \cup {Absent}] /\ marked' \subseteq Parts
      BY <2>1 DEF Describe, TypeOK
    <3> QED
      BY <2>1, <3>1, <3>2 DEF Describe, Goto, TypeOK, Pc
  <2>2. CASE UploadsEnd(r)
    BY <2>2, NoneTyped DEF UploadsEnd, EmptyStaging, Goto, TypeOK, Pc
  <2> QED
    BY <1>7, <2>1, <2>2
<1>8. ASSUME NEW r \in Runs, NEW h \in Parts, Collect(r, h) \/ Put(r, h) \/ PutFails(r, h)
      PROVE TypeOK'
  <2>1. CASE Collect(r, h)
    <3>1. left' \in [Runs -> SUBSET Parts] /\ failing' \in [Runs -> BOOLEAN]
      <4>1. left' = [left EXCEPT ![r] = @ \ {h}] \/ left' = left
        BY <2>1 DEF Collect
      <4>2. failing' = [failing EXCEPT ![r] = TRUE] \/ failing' = failing
        BY <2>1 DEF Collect
      <4>3. left \in [Runs -> SUBSET Parts] /\ failing \in [Runs -> BOOLEAN]
        BY DEF TypeOK
      <4> QED
        BY ONLY <4>1, <4>2, <4>3, r \in Runs, h \in Parts
    <3>2. listing' \in [Runs -> [Parts -> (SUBSET Files) \cup {Absent}]]
      <4>1. listing' = [listing EXCEPT ![r][h] = dirs[h]] \/ listing' = listing
        BY <2>1 DEF Collect
      <4>2. dirs[h] \in (SUBSET Files) \cup {Absent}
        BY DEF TypeOK
      <4>3. listing \in [Runs -> [Parts -> (SUBSET Files) \cup {Absent}]]
        BY DEF TypeOK
      <4>4. [listing EXCEPT ![r][h] = dirs[h]]
              \in [Runs -> [Parts -> (SUBSET Files) \cup {Absent}]]
        BY <4>2, <4>3, FilesChanged
      <4> QED
        BY <4>1, <4>3, <4>4
    <3> QED
      BY <2>1, <3>1, <3>2 DEF Collect, TypeOK
  <2>2. CASE Put(r, h)
    <3>1. (listing[r][h] \cap IF dirs[h] = Absent THEN {} ELSE dirs[h]) \in SUBSET Files
      BY <2>2 DEF Put, TypeOK
    <3>2. blobs' \in [Parts -> (SUBSET Files) \cup {Absent}]
      BY <2>2, <3>1 DEF Put, TypeOK
    <3>3. /\ dirs' \in [Parts -> (SUBSET Files) \cup {Absent}] /\ marked' \subseteq Parts
          /\ failing' \in [Runs -> BOOLEAN]
      BY <2>2 DEF Put, TypeOK
    <3>4. /\ left' \in [Runs -> SUBSET Parts] /\ uploaded' \in [Runs -> SUBSET Parts]
          /\ listing' \in [Runs -> [Parts -> (SUBSET Files) \cup {Absent}]]
      BY <2>2 DEF Put, TypeOK
    <3> QED
      BY <2>2, <3>2, <3>3, <3>4 DEF Put, TypeOK
  <2>3. CASE PutFails(r, h)
    <3>1. faults' \in 0..MaxFaults
      BY <2>3, FaultTyped DEF PutFails
    <3>2. /\ left' \in [Runs -> SUBSET Parts] /\ failing' \in [Runs -> BOOLEAN]
          /\ listing' \in [Runs -> [Parts -> (SUBSET Files) \cup {Absent}]]
      BY <2>3 DEF PutFails, TypeOK
    <3> QED
      BY <2>3, <3>1, <3>2 DEF PutFails, TypeOK
  <2> QED
    BY <1>8, <2>1, <2>2, <2>3
<1>9. ASSUME NEW r \in Runs, Write(r) \/ Fail(r) \/ Crash(r)
      PROVE TypeOK'
  <2>1. CASE Write(r)
    <3>1. manifests' \in [Runs -> [parts : SUBSET Parts, tables : SUBSET Tables] \cup {Absent}]
      BY <2>1, WrittenTyped DEF Write, TypeOK
    <3>2. faults' \in 0..MaxFaults
      BY <2>1, FaultTyped DEF Write, TypeOK
    <3>3. End(r, "done") \/ End(r, "failed")
      BY <2>1 DEF Write
    <3> QED
      BY <2>1, <3>1, <3>2, <3>3, EndTyped DEF Write, TypeOK
  <2>2. CASE Fail(r)
    <3>1. faults' \in 0..MaxFaults
      BY <2>2, FaultTyped DEF Fail, CallFails, TypeOK
    <3>2. dirs' \in [Parts -> (SUBSET Files) \cup {Absent}] /\ marked' \subseteq Parts
      BY <2>2, NoneTyped DEF Fail, EmptyStaging, TypeOK
    <3>3. End(r, "unstarted") \/ End(r, "failed")
      BY <2>2 DEF Fail
    <3> QED
      BY <2>2, <3>1, <3>2, <3>3, EndTyped DEF Fail, TypeOK
  <2>3. CASE Crash(r)
    <3>1. faults' \in 0..MaxFaults
      BY <2>3, FaultTyped DEF Crash
    <3>2. End(r, "unstarted") \/ End(r, "failed")
      BY <2>3 DEF Crash
    <3> QED
      BY <2>3, <3>1, <3>2, EndTyped DEF Crash, TypeOK
  <2> QED
    BY <1>9, <2>1, <2>2, <2>3
<1> QED
  BY <1>1, <1>2, <1>3, <1>4, <1>5, <1>6, <1>7, <1>8, <1>9 DEF Next, Step

(* Nothing but a run that writes its own manifest changes the manifests.   *)
LEMMA ManifestsWritten ==
  [Next]_vars => UNCHANGED manifests \/ \E r \in Runs : Write(r)
BY DEF Next, ClickHouse, Step, Query, List, ReadBase, Setup, Plan, AllStaged, Restage, Await,
  Redescribe, Describe, UploadsEnd, Fail, Head, StageBegins, Mark, Collect, Put, Link, Crash,
  PutFails, vars, bucketVars

LEMMA ManifestsStay ==
  TypeOK /\ [Next]_vars => Present \subseteq Present'
<1> SUFFICES ASSUME TypeOK, [Next]_vars PROVE Present \subseteq Present'
  OBVIOUS
<1>1. CASE \E r \in Runs : Write(r)
  BY <1>1, WrittenTyped DEF Write, Present, TypeOK
<1>2. CASE UNCHANGED manifests
  BY <1>2 DEF Present
<1> QED
  BY <1>1, <1>2, ManifestsWritten

LEMMA BaseListedNext == TypeOK /\ BaseListed /\ [Next]_vars => BaseListed'
<1> SUFFICES ASSUME TypeOK, BaseListed, [Next]_vars, NEW q \in Runs, pc'[q] = "base"
             PROVE base'[q] \in Present'
  BY DEF BaseListed
<1>1. CASE List(q) /\ pc[q] # "base"
  <2>1. base'[q] \in Present
    BY <1>1 DEF List, Goto, TypeOK
  <2> QED
    BY <2>1, ManifestsStay
<1>2. CASE ~(List(q) /\ pc[q] # "base")
  <2>1. base'[q] = base[q] /\ pc[q] = "base"
    BY <1>2 DEF Next, ClickHouse, Step, Query, List, ReadBase, Setup, Plan, AllStaged, Restage,
      Await, Redescribe, Describe, UploadsEnd, Write, Fail, Head, StageBegins, Mark, Collect,
      Put, Link, Crash, PutFails, End, Goto, vars, runVars, planVars, TypeOK
  <2> QED
    BY <2>1, ManifestsStay DEF BaseListed
<1> QED
  BY <1>1, <1>2

(* Every variable holds a value of its type.                               *)
THEOREM TypeCorrect == Spec => []TypeOK
<1>1. Init => TypeOK /\ BaseListed
  BY TypeInit DEF Init, BaseListed
<1>2. TypeOK /\ BaseListed /\ [Next]_vars => TypeOK' /\ BaseListed'
  BY TypeNext, BaseListedNext
<1> QED
  BY <1>1, <1>2, PTL DEF Spec

LEMMA BaseAlwaysListed == Spec => []BaseListed
<1>1. Init => TypeOK /\ BaseListed
  BY TypeInit DEF Init, BaseListed
<1>2. TypeOK /\ BaseListed /\ [Next]_vars => TypeOK' /\ BaseListed'
  BY TypeNext, BaseListedNext
<1> QED
  BY <1>1, <1>2, PTL DEF Spec

-----------------------------------------------------------------------------
(* What is one run's own                                                   *)

(* A step leaves the locals of run q alone, or it is a step of run q.      *)
Same(q) ==
  /\ pc'[q] = pc[q] /\ current'[q] = current[q] /\ listed'[q] = listed[q]
  /\ base'[q] = base[q] /\ known'[q] = known[q] /\ toHead'[q] = toHead[q]
  /\ found'[q] = found[q] /\ pass'[q] = pass[q] /\ toStage'[q] = toStage[q]
  /\ todo'[q] = todo[q] /\ missing'[q] = missing[q] /\ staged'[q] = staged[q]
  /\ left'[q] = left[q] /\ listing'[q] = listing[q] /\ uploaded'[q] = uploaded[q]
  /\ failing'[q] = failing[q]

Acts(q) == Query(q) \/ Step(q) \/ Crash(q) \/ \E h \in Parts : PutFails(q, h)

LEMMA OnlyOneActs ==
  ASSUME TypeOK, NEW r \in Runs, Acts(r), NEW q \in Runs, q # r
  PROVE  Same(q)
<1> USE DEF Same, hostVars, diskVars, bucketVars, planVars, headVars, stageVars, uploadVars
<1>1. CASE Query(r) \/ List(r) \/ ReadBase(r) \/ Setup(r) \/ Plan(r)
  BY <1>1 DEF Query, List, ReadBase, Setup, Plan, Goto, TypeOK
<1>2. CASE AllStaged(r) \/ Restage(r) \/ Await(r) \/ Redescribe(r) \/ Describe(r)
             \/ UploadsEnd(r)
  BY <1>2 DEF AllStaged, Restage, Await, Redescribe, Describe, UploadsEnd, Goto, TypeOK
<1>3. CASE Write(r) \/ Fail(r) \/ Crash(r)
  <2>1. PICK o \in Pc : End(r, o)
    BY <1>3 DEF Write, Fail, Crash, Pc
  <2>2. /\ pc'[q] = pc[q] /\ current'[q] = current[q] /\ listed'[q] = listed[q]
        /\ base'[q] = base[q] /\ known'[q] = known[q] /\ toHead'[q] = toHead[q]
        /\ found'[q] = found[q]
    BY <2>1 DEF End, Goto, TypeOK
  <2>3. /\ pass'[q] = pass[q] /\ toStage'[q] = toStage[q]
        /\ todo'[q] = todo[q] /\ missing'[q] = missing[q] /\ staged'[q] = staged[q]
        /\ left'[q] = left[q] /\ listing'[q] = listing[q] /\ uploaded'[q] = uploaded[q]
    BY <2>1 DEF End, TypeOK
  <2>4. failing'[q] = failing[q]
    BY <2>1 DEF End, TypeOK
  <2> QED
    BY <2>2, <2>3, <2>4
<1>4. CASE \E h \in Parts : Head(r, h) \/ StageBegins(r, h) \/ Mark(r, h)
                              \/ \E f \in Files : Link(r, h, f)
  BY <1>4 DEF Head, StageBegins, Mark, Link, TypeOK
<1>5. CASE \E h \in Parts : Collect(r, h) \/ Put(r, h) \/ PutFails(r, h)
  BY <1>5 DEF Collect, Put, PutFails, TypeOK
<1> QED
  BY <1>1, <1>2, <1>3, <1>4, <1>5 DEF Acts, Step

LEMMA RunsApart ==
  ASSUME TypeOK, [Next]_vars, NEW q \in Runs
  PROVE  Same(q) \/ Acts(q)
<1>1. CASE UNCHANGED vars \/ ClickHouse
  BY <1>1 DEF Same, ClickHouse, vars, runVars, planVars, headVars, stageVars, uploadVars
<1>2. CASE \E r \in Runs : Acts(r)
  BY <1>2, OnlyOneActs
<1> QED
  BY <1>1, <1>2 DEF Next, Acts

-----------------------------------------------------------------------------
(* The sizes                                                               *)

Over == {"done", "failed", "unstarted"}
Uploading == {"upload", "write"}

(* The HEAD checks of a run: they are of parts that the base manifest does *)
(* not have, and they have all returned when the metadata loop begins.     *)
Heads(r) ==
  /\ known[r] \cap (found[r] \cup toHead[r]) = {}
  /\ pc[r] \in {"idle", "list", "base"} \cup Over =>
       known[r] = {} /\ found[r] = {} /\ toHead[r] = {}
  /\ pc[r] \in {"meta"} \cup Uploading => toHead[r] = {}

(* The uploads of a run: of the parts that need one each has its turn or   *)
(* has had it, unless one has failed.                                      *)
Uploads(r) ==
  /\ pc[r] \notin Uploading => left[r] = {} /\ failing[r] = FALSE
  /\ pc[r] \notin Uploading \cup Over => uploaded[r] = {}
  /\ \A h \in Parts : listing[r][h] # Absent => h \in left[r]
  /\ pc[r] \in Uploading =>
       /\ left[r] \cup uploaded[r] \subseteq NeedUpload(r) \ found[r]
       /\ left[r] \cap uploaded[r] = {}
       /\ failing[r] = TRUE \/ NeedUpload(r) \ found[r] \subseteq left[r] \cup uploaded[r]
  /\ pc[r] = "write" => left[r] = {} /\ failing[r] = FALSE

(* What a run keeps of its staging passes.                                 *)
Passes(r) ==
  /\ pc[r] # "stage" => toStage[r] = {} /\ todo[r] = None
  /\ pc[r] \in {"idle", "list", "base", "setup"} \cup Over => staged[r] = {}
  /\ toStage[r] \cap staged[r] = {}
  /\ \A h \in toStage[r] : todo[r][h] = Absent

LEMMA HeadsInit == Init => \A r \in Runs : Heads(r) /\ Uploads(r) /\ Passes(r)
BY DEF Init, Heads, Uploads, Passes, None, Uploading, Over

LEMMA HeadsNext ==
  ASSUME TypeOK, [Next]_vars, NEW q \in Runs, Heads(q)
  PROVE  Heads(q)'
<1> USE DEF Over, Uploading
<1>1. CASE Same(q)
  BY <1>1 DEF Same, Heads
<1>2. CASE Query(q) \/ Setup(q) \/ Plan(q)
  BY <1>2 DEF Query, Setup, Plan, Goto, headVars, planVars, Heads, TypeOK
<1>3. CASE List(q)
  BY <1>3 DEF List, Goto, headVars, planVars, Heads, TypeOK
<1>4. CASE ReadBase(q)
  BY <1>4 DEF ReadBase, Goto, headVars, planVars, Heads, TypeOK
<1>5. CASE AllStaged(q) \/ Restage(q) \/ Await(q) \/ Redescribe(q) \/ Describe(q)
             \/ UploadsEnd(q)
  BY <1>5 DEF AllStaged, Restage, Await, Redescribe, Describe, UploadsEnd, PassOver, Goto,
    headVars, planVars, Heads, TypeOK
<1>6. CASE Write(q) \/ Fail(q) \/ Crash(q)
  <2>1. \E o \in Over : End(q, o)
    BY <1>6 DEF Write, Fail, Crash
  <2> QED
    BY <2>1 DEF End, Goto, Heads, TypeOK
<1>7. ASSUME NEW h \in Parts, Head(q, h)
      PROVE Heads(q)'
  BY <1>7 DEF Head, headVars, planVars, Heads, TypeOK
<1>8. CASE \E h \in Parts : \/ StageBegins(q, h) \/ Mark(q, h) \/ Collect(q, h) \/ Put(q, h)
                            \/ PutFails(q, h) \/ \E f \in Files : Link(q, h, f)
  BY <1>8 DEF StageBegins, Mark, Collect, Put, PutFails, Link, headVars, planVars, Heads
<1> QED
  BY RunsApart, <1>1, <1>2, <1>3, <1>4, <1>5, <1>6, <1>7, <1>8 DEF Acts, Step

LEMMA UploadsNext ==
  ASSUME TypeOK, [Next]_vars, NEW q \in Runs, Heads(q), Uploads(q)
  PROVE  Uploads(q)'
<1> USE DEF Over, Uploading
<1>1. CASE Same(q)
  BY <1>1 DEF Same, Uploads, NeedUpload
<1>2. CASE Query(q) \/ Setup(q) \/ Plan(q) \/ List(q) \/ ReadBase(q)
  BY <1>2 DEF Query, Setup, Plan, List, ReadBase, Goto, uploadVars, Uploads, TypeOK
<1>3. CASE AllStaged(q) \/ Restage(q) \/ Await(q) \/ Redescribe(q)
  BY <1>3 DEF AllStaged, Restage, Await, Redescribe, PassOver, Goto, uploadVars, Uploads, TypeOK
<1>4. CASE Describe(q)
  <2>1. /\ pc'[q] = "upload" /\ uploaded'[q] = {} /\ failing'[q] = FALSE
        /\ current'[q] = current[q] /\ known'[q] = known[q] /\ found'[q] = found[q]
    BY <1>4 DEF Describe, Goto, headVars, planVars, Uploads, TypeOK
  <2>2. left'[q] = (staged[q] \cap NeedUpload(q)) \ found[q]
    BY <1>4 DEF Describe, TypeOK
  <2>3. \A h \in Parts : listing'[q][h] = Absent
    BY <1>4 DEF Describe, Uploads
  <2>4. NeedUpload(q) \subseteq staged[q] \cup found[q]
    BY <1>4 DEF Describe, Backed
  <2> QED
    BY <2>1, <2>2, <2>3, <2>4 DEF Uploads, NeedUpload
<1>5. CASE UploadsEnd(q)
  BY <1>5 DEF UploadsEnd, Goto, uploadVars, planVars, headVars, Uploads, NeedUpload, TypeOK
<1>6. CASE Write(q) \/ Fail(q) \/ Crash(q)
  <2>1. \E o \in Over : End(q, o)
    BY <1>6 DEF Write, Fail, Crash
  <2> QED
    BY <2>1 DEF End, Goto, None, Uploads, TypeOK
<1>7. ASSUME NEW h \in Parts, Head(q, h)
      PROVE Uploads(q)'
  BY <1>7 DEF Head, uploadVars, planVars, Uploads, TypeOK
<1>8. CASE \E h \in Parts : \/ StageBegins(q, h) \/ Mark(q, h) \/ \E f \in Files : Link(q, h, f)
  BY <1>8 DEF StageBegins, Mark, Link, headVars, planVars, uploadVars, Uploads, NeedUpload
<1>9. ASSUME NEW h \in Parts, Collect(q, h)
      PROVE Uploads(q)'
  <2>1. /\ pc[q] = "upload" /\ pc'[q] = "upload" /\ uploaded'[q] = uploaded[q]
        /\ current'[q] = current[q] /\ known'[q] = known[q] /\ found'[q] = found[q]
        /\ h \in left[q] /\ listing[q][h] = Absent
    BY <1>9 DEF Collect, headVars, planVars
  <2>2. CASE dirs[h] # Absent
    <3>1. /\ left'[q] = left[q] /\ failing'[q] = failing[q]
          /\ \A g \in Parts : g # h => listing'[q][g] = listing[q][g]
      BY <1>9, <2>2 DEF Collect, TypeOK
    <3> QED
      BY <2>1, <3>1 DEF Uploads, NeedUpload
  <2>3. CASE dirs[h] = Absent
    <3>1. /\ left'[q] = left[q] \ {h} /\ failing'[q] = TRUE /\ listing'[q] = listing[q]
      BY <1>9, <2>3 DEF Collect, TypeOK
    <3> QED
      BY <2>1, <3>1 DEF Uploads, NeedUpload
  <2> QED
    BY <2>2, <2>3
<1>10. ASSUME NEW h \in Parts, Put(q, h)
      PROVE Uploads(q)'
  <2>1. /\ pc'[q] = pc[q] /\ uploaded'[q] = uploaded[q] \cup {h} /\ left'[q] = left[q] \ {h}
        /\ current'[q] = current[q] /\ known'[q] = known[q] /\ found'[q] = found[q]
        /\ listing[q][h] # Absent
    BY <1>10 DEF Put, headVars, planVars, TypeOK
  <2>2. failing'[q] = failing[q] \/ failing'[q] = TRUE
    BY <1>10 DEF Put, TypeOK
  <2>3. listing'[q][h] = Absent /\ \A g \in Parts : g # h => listing'[q][g] = listing[q][g]
    BY <1>10 DEF Put, TypeOK
  <2>4. h \in left[q] /\ pc[q] = "upload"
    BY <2>1 DEF Uploads, TypeOK
  <2> QED
    BY <2>1, <2>2, <2>3, <2>4 DEF Uploads, NeedUpload
<1>11. ASSUME NEW h \in Parts, PutFails(q, h)
      PROVE Uploads(q)'
  <2>1. /\ pc'[q] = pc[q] /\ uploaded'[q] = uploaded[q] /\ left'[q] = left[q] \ {h}
        /\ current'[q] = current[q] /\ known'[q] = known[q] /\ found'[q] = found[q]
        /\ listing[q][h] # Absent /\ failing'[q] = TRUE
    BY <1>11 DEF PutFails, headVars, planVars, TypeOK
  <2>2. listing'[q][h] = Absent /\ \A g \in Parts : g # h => listing'[q][g] = listing[q][g]
    BY <1>11 DEF PutFails, TypeOK
  <2>3. h \in left[q] /\ pc[q] = "upload"
    BY <2>1 DEF Uploads, TypeOK
  <2> QED
    BY <2>1, <2>2, <2>3 DEF Uploads, NeedUpload
<1> QED
  BY RunsApart, <1>1, <1>2, <1>3, <1>4, <1>5, <1>6, <1>7, <1>8, <1>9, <1>10, <1>11 DEF Acts, Step

LEMMA PassesNext ==
  ASSUME TypeOK, [Next]_vars, NEW q \in Runs, Passes(q)
  PROVE  Passes(q)'
<1> USE DEF Over
<1>1. CASE Same(q)
  BY <1>1 DEF Same, Passes, None
<1>2. CASE Query(q) \/ Setup(q) \/ List(q) \/ ReadBase(q)
  BY <1>2 DEF Query, Setup, List, ReadBase, Goto, stageVars, Passes, None, TypeOK
<1>3. CASE Plan(q)
  <2>1. /\ pc[q] = "plan" /\ pc'[q] = IF NeedStage(q) = {} THEN "await" ELSE "stage"
        /\ toStage'[q] = NeedStage(q) /\ todo'[q] = todo[q] /\ staged'[q] = staged[q]
    BY <1>3 DEF Plan, Goto, TypeOK
  <2>2. todo[q] = [h \in Parts |-> Absent] /\ NeedStage(q) \subseteq Parts
    BY <2>1, DrawnTypes DEF Passes, None
  <2> QED
    BY <2>1, <2>2 DEF Passes, NeedStage, None
<1>4. CASE AllStaged(q) \/ Restage(q) \/ Await(q) \/ Redescribe(q)
  BY <1>4 DEF AllStaged, Restage, Await, Redescribe, PassOver, Goto, stageVars, Passes, None,
    TypeOK
<1>5. CASE Describe(q) \/ UploadsEnd(q)
  BY <1>5 DEF Describe, UploadsEnd, Goto, stageVars, Passes, None, TypeOK
<1>6. CASE Write(q) \/ Fail(q) \/ Crash(q)
  <2>1. \E o \in Over : End(q, o)
    BY <1>6 DEF Write, Fail, Crash
  <2> QED
    BY <2>1 DEF End, Goto, None, Passes, TypeOK
<1>7. ASSUME NEW h \in Parts, StageBegins(q, h)
      PROVE Passes(q)'
  <2>1. /\ pc'[q] = pc[q] /\ h \in toStage[q] /\ toStage'[q] = toStage[q] \ {h}
        /\ staged'[q] \subseteq staged[q] \cup {h} /\ staged[q] \subseteq staged'[q]
    BY <1>7 DEF StageBegins, TypeOK
  <2>2. \A g \in Parts : g # h => todo'[q][g] = todo[q][g]
    BY <1>7 DEF StageBegins, TypeOK
  <2>3. pc[q] = "stage" /\ toStage[q] \subseteq Parts
    BY <2>1 DEF Passes, TypeOK
  <2> QED
    BY <2>1, <2>2, <2>3 DEF Passes
<1>8. ASSUME NEW h \in Parts, Mark(q, h) \/ \E f \in Files : Link(q, h, f)
      PROVE Passes(q)'
  <2>1. /\ pc'[q] = pc[q] /\ toStage'[q] = toStage[q]
        /\ staged'[q] \subseteq staged[q] \cup {h} /\ staged[q] \subseteq staged'[q]
    BY <1>8 DEF Mark, Link, TypeOK
  <2>2. \A g \in Parts : g # h => todo'[q][g] = todo[q][g]
    BY <1>8 DEF Mark, Link, TypeOK
  <2>3. todo[q][h] # Absent
    BY <1>8, AbsentAssumption DEF Mark, Link
  <2>4. pc[q] = "stage" /\ h \notin toStage[q] /\ toStage[q] \subseteq Parts
    BY <2>3 DEF Passes, None, TypeOK
  <2> QED
    BY <2>1, <2>2, <2>3, <2>4 DEF Passes
<1>9. CASE \E h \in Parts : Head(q, h) \/ Collect(q, h) \/ Put(q, h) \/ PutFails(q, h)
  BY <1>9 DEF Head, Collect, Put, PutFails, stageVars, Passes, None
<1> QED
  BY RunsApart, <1>1, <1>2, <1>3, <1>4, <1>5, <1>6, <1>7, <1>8, <1>9 DEF Acts, Step

(* What holds of every run, however many overlap.                          *)
RunsKept == TypeOK /\ BaseListed /\ \A r \in Runs : Heads(r) /\ Uploads(r) /\ Passes(r)

LEMMA RunsAlwaysKept == Spec => []RunsKept
<1>1. Init => RunsKept
  BY TypeInit, HeadsInit DEF Init, BaseListed, RunsKept
<1>2. RunsKept /\ [Next]_vars => RunsKept'
  BY TypeNext, BaseListedNext, HeadsNext, UploadsNext, PassesNext DEF RunsKept
<1> QED
  BY <1>1, <1>2, PTL DEF Spec

(* create_snapshot: when the manifest is to be written each part has its   *)
(* size, and from one source only: runs that share the staging tree may    *)
(* upload cut archives, they do not leave a part without a size.           *)
THEOREM EveryPartIsSized == Spec => []SizesKnown
<1>1. RunsKept => SizesKnown
  BY DEF RunsKept, Heads, Uploads, Uploading, SizesKnown, Sized, NeedUpload, TypeOK
<1> QED
  BY <1>1, RunsAlwaysKept, PTL

-----------------------------------------------------------------------------
(* The archives                                                            *)

OneAtATime == \A q, r \in Runs : Running(q) /\ Running(r) => q = r

(* A directory with its marker is complete, or has gone.                   *)
Markers == \A h \in marked : dirs[h] \in {Absent, Files}

(* The staging tree as a run needs it: of a part that is being staged what *)
(* is not there is still to be linked, what has been staged is complete,   *)
(* and so is what is to be uploaded.                                       *)
Tree(r) ==
  /\ \A h \in Parts :
       todo[r][h] # Absent => h \notin marked /\ dirs[h] = Files \ todo[r][h]
  /\ pc[r] \in {"plan", "stage", "await", "meta"} =>
       \A h \in staged[r] : h \in marked /\ dirs[h] = Files
  /\ \A h \in left[r] : dirs[h] = Files /\ listing[r][h] \in {Absent, Files}

(* Each archive in the bucket is whole, and there is one of each part that *)
(* a run knows of, has found or has uploaded.                              *)
Archives == \A h \in Parts : blobs[h] \in {Absent, Files}

Sources(r) == \A h \in known[r] \cup found[r] \cup uploaded[r] : blobs[h] = Files

LEMMA RunningBegins ==
  ASSUME TypeOK, [Next]_vars, NEW q \in Runs, Running(q)'
  PROVE  Running(q) \/ Query(q)
<1> USE DEF Running, Ended
<1>1. CASE Same(q)
  BY <1>1 DEF Same
<1>2. CASE Query(q)
  BY <1>2
<1>3. CASE Step(q)
  <2>1. CASE \E o \in {"done", "failed", "unstarted"} : End(q, o)
    BY <2>1 DEF End, Goto, TypeOK
  <2>2. CASE \E h \in Parts : \/ Head(q, h) \/ StageBegins(q, h) \/ Mark(q, h) \/ Collect(q, h)
                              \/ Put(q, h) \/ \E f \in Files : Link(q, h, f)
    BY <2>2 DEF Head, StageBegins, Mark, Collect, Put, Link
  <2> QED
    BY <1>3, <2>1, <2>2 DEF Step, List, ReadBase, Setup, Plan, AllStaged, PassOver, Restage, Await,
      Redescribe, Describe, UploadsEnd, Write, Fail
<1>4. CASE Crash(q) \/ \E h \in Parts : PutFails(q, h)
  BY <1>4 DEF Crash, PutFails
<1> QED
  BY RunsApart, <1>1, <1>2, <1>3, <1>4 DEF Acts

LEMMA OneAtATimeNext ==
  ASSUME ~MayOverlap, TypeOK, [Next]_vars, OneAtATime
  PROVE  OneAtATime'
<1> SUFFICES ASSUME NEW q \in Runs, NEW r \in Runs, Running(q)', Running(r)', q # r
             PROVE FALSE
  BY DEF OneAtATime
<1>1. CASE Query(q)
  <2>1. ~Running(r)
    BY <1>1 DEF Query
  <2>2. pc'[r] = pc[r]
    BY <1>1 DEF Query, Goto, TypeOK
  <2> QED
    BY <2>1, <2>2 DEF Running, Ended
<1>2. CASE Query(r)
  <2>1. ~Running(q)
    BY <1>2 DEF Query
  <2>2. pc'[q] = pc[q]
    BY <1>2 DEF Query, Goto, TypeOK
  <2> QED
    BY <2>1, <2>2 DEF Running, Ended
<1> QED
  BY <1>1, <1>2, RunningBegins DEF OneAtATime

(* Only a run that is under way touches the staging tree.                  *)
LEMMA TreeTouched ==
  ASSUME RunsKept, [Next]_vars
  PROVE  UNCHANGED diskVars \/ \E r \in Runs : Running(r) /\ Acts(r)
<1> USE DEF Running, Ended
<1>1. CASE UNCHANGED vars \/ ClickHouse
  BY <1>1 DEF vars, ClickHouse
<1>2. ASSUME NEW r \in Runs, Query(r) \/ List(r) \/ ReadBase(r) \/ Plan(r) \/ AllStaged(r)
                               \/ Restage(r) \/ Await(r) \/ Redescribe(r) \/ Write(r) \/ Crash(r)
      PROVE UNCHANGED diskVars
  BY <1>2 DEF Query, List, ReadBase, Plan, AllStaged, Restage, Await, Redescribe, Write, Crash
<1>3. ASSUME NEW r \in Runs, Setup(r) \/ Describe(r) \/ UploadsEnd(r) \/ Fail(r)
      PROVE Running(r) /\ Acts(r)
  BY <1>3 DEF Setup, Describe, UploadsEnd, Fail, Refused, CallFails, PassOver, Acts, Step
<1>4. ASSUME NEW r \in Runs, NEW h \in Parts, Head(r, h) \/ PutFails(r, h) \/ Collect(r, h)
      PROVE UNCHANGED diskVars
  BY <1>4 DEF Head, PutFails, Collect
<1>5. ASSUME NEW r \in Runs, NEW h \in Parts,
             StageBegins(r, h) \/ Mark(r, h) \/ \E f \in Files : Link(r, h, f)
      PROVE Running(r) /\ Acts(r)
  <2>1. toStage[r] # {} \/ todo[r][h] # Absent
    BY <1>5, AbsentAssumption DEF StageBegins, Mark, Link
  <2>2. pc[r] = "stage"
    BY <2>1 DEF RunsKept, Passes, None
  <2> QED
    BY <1>5, <2>2 DEF Acts, Step
<1>6. ASSUME NEW r \in Runs, NEW h \in Parts, Put(r, h)
      PROVE Running(r) /\ Acts(r)
  <2>1. pc[r] \in Uploading
    BY <1>6 DEF RunsKept, Uploads, Put
  <2> QED
    BY <1>6, <2>1 DEF Acts, Step, Uploading
<1> QED
  BY <1>1, <1>2, <1>3, <1>4, <1>5, <1>6 DEF Next, Step

(* A run that is not under way needs nothing of the tree.                  *)
LEMMA TreeOfIdle ==
  ASSUME RunsKept, NEW q \in Runs, ~Running(q)
  PROVE  Tree(q)
BY DEF RunsKept, Uploads, Passes, Tree, None, Running, Ended, Over, Uploading

(* What a run puts in the bucket is the whole part.                        *)
LEMMA PutWhole ==
  ASSUME RunsKept, NEW r \in Runs, NEW h \in Parts, Tree(r), Put(r, h)
  PROVE  /\ blobs' = [blobs EXCEPT ![h] = Files]
         /\ dirs' = [dirs EXCEPT ![h] = Absent]
         /\ marked' = marked \ {h}
<1>1. h \in left[r] /\ listing[r][h] # Absent
  BY DEF RunsKept, Uploads, Put
<1>2. listing[r][h] = Files /\ dirs[h] = Files /\ dirs[h] # Absent
  BY <1>1, AbsentAssumption DEF Tree
<1> QED
  BY <1>2 DEF Put

LEMMA TreeNext ==
  ASSUME RunsKept, RunsKept', OneAtATime, Markers, [Next]_vars, NEW q \in Runs, Tree(q)
  PROVE  Tree(q)'
<1> USE DEF diskVars
<1>1. CASE ~Running(q)'
  BY <1>1 DEF RunsKept, Uploads, Passes, Tree, None, Running, Ended, Over, Uploading
<1>2. CASE Same(q) /\ UNCHANGED diskVars
  BY <1>2 DEF Same, Tree
<1>3. CASE Query(q) \/ List(q) \/ ReadBase(q) \/ Plan(q) \/ AllStaged(q) \/ Restage(q)
             \/ Await(q) \/ Redescribe(q)
  <2>1. /\ UNCHANGED diskVars
        /\ todo'[q] = todo[q] /\ left'[q] = left[q] /\ listing'[q] = listing[q]
        /\ staged'[q] = staged[q]
    BY <1>3 DEF Query, List, ReadBase, Plan, AllStaged, Restage, Await, Redescribe, stageVars,
      uploadVars
  <2>2. staged[q] = {} \/ pc[q] \in {"plan", "stage", "await", "meta"}
    BY <1>3 DEF Query, List, ReadBase, Plan, AllStaged, PassOver, Restage, Await, Redescribe,
      RunsKept, Passes
  <2> QED
    BY <2>1, <2>2 DEF Tree
<1>4. CASE Setup(q)
  <2>1. pc[q] = "setup" /\ todo'[q] = todo[q] /\ left'[q] = left[q] /\ staged'[q] = staged[q]
    BY <1>4 DEF Setup, stageVars, uploadVars
  <2>2. staged[q] = {} /\ todo[q] = None /\ left[q] = {}
    BY <2>1 DEF RunsKept, Passes, Uploads, Uploading
  <2> QED
    BY <2>1, <2>2 DEF Tree, None
<1>5. ASSUME NEW g \in Parts, StageBegins(q, g)
      PROVE Tree(q)'
  <2>1. g \in toStage[q] /\ pc'[q] = pc[q] /\ left'[q] = left[q] /\ listing'[q] = listing[q]
    BY <1>5 DEF StageBegins, uploadVars
  <2>2. pc[q] = "stage" /\ g \notin staged[q] /\ todo[q][g] = Absent /\ left[q] = {}
    BY <2>1 DEF RunsKept, Passes, Uploads, Uploading
  <2>3. CASE g \notin onDisk
    BY <1>5, <2>1, <2>2, <2>3 DEF StageBegins, Tree
  <2>4. CASE g \in onDisk /\ IsStaged(g)
    <3>1. /\ UNCHANGED <<diskVars, todo>> /\ staged' = [staged EXCEPT ![q] = @ \cup {g}]
      BY <1>5, <2>4 DEF StageBegins
    <3>2. staged'[q] = staged[q] \cup {g}
      BY <3>1 DEF RunsKept, TypeOK
    <3>3. g \in marked /\ dirs[g] = Files
      BY <2>4 DEF IsStaged, Markers
    <3> QED
      BY <2>1, <2>2, <3>1, <3>2, <3>3 DEF Tree
  <2>5. CASE g \in onDisk /\ ~IsStaged(g)
    <3>1. /\ dirs' = [dirs EXCEPT ![g] = {}] /\ marked' = marked \ {g}
          /\ todo' = [todo EXCEPT ![q][g] = Files] /\ UNCHANGED staged
      BY <1>5, <2>5 DEF StageBegins
    <3>2. /\ dirs'[g] = {} /\ todo'[q][g] = Files
          /\ \A h \in Parts : h # g => dirs'[h] = dirs[h] /\ todo'[q][h] = todo[q][h]
      BY <3>1 DEF RunsKept, TypeOK
    <3>3. staged[q] \subseteq Parts
      BY DEF RunsKept, TypeOK
    <3> QED
      BY <2>1, <2>2, <3>1, <3>2, <3>3 DEF Tree
  <2> QED
    BY <2>3, <2>4, <2>5
<1>6. ASSUME NEW g \in Parts, NEW f \in Files, Link(q, g, f)
      PROVE Tree(q)'
  <2>1. /\ todo[q][g] # Absent /\ f \in todo[q][g] /\ pc'[q] = pc[q] /\ left'[q] = left[q]
        /\ listing'[q] = listing[q] /\ staged'[q] = staged[q] /\ marked' = marked
    BY <1>6 DEF Link, uploadVars
  <2>2. pc[q] = "stage" /\ left[q] = {} /\ staged[q] \subseteq Parts
    <3>1. pc[q] = "stage"
      BY <2>1 DEF RunsKept, Passes, None
    <3> QED
      BY <3>1 DEF RunsKept, Uploads, Uploading, TypeOK
  <2>3. /\ g \notin marked /\ dirs[g] = Files \ todo[q][g] /\ dirs[g] # Absent
    BY <2>1, AbsentAssumption DEF Tree
  <2>4. g \notin staged[q]
    BY <2>2, <2>3 DEF Tree
  <2>5. CASE g \in onDisk
    <3>1. /\ dirs'[g] = {f} \cup dirs[g] /\ todo'[q][g] = todo[q][g] \ {f}
          /\ \A h \in Parts : h # g => dirs'[h] = dirs[h] /\ todo'[q][h] = todo[q][h]
      BY <1>6, <2>3, <2>5 DEF Link, RunsKept, TypeOK
    <3>2. dirs'[g] = Files \ todo'[q][g]
      BY <2>3, <3>1
    <3> QED
      BY <2>1, <2>2, <2>3, <2>4, <3>1, <3>2 DEF Tree
  <2>6. CASE g \notin onDisk
    <3>1. /\ dirs' = dirs /\ todo'[q][g] = Absent
          /\ \A h \in Parts : h # g => todo'[q][h] = todo[q][h]
      BY <1>6, <2>6 DEF Link, RunsKept, TypeOK
    <3> QED
      BY <2>1, <2>2, <2>4, <3>1 DEF Tree
  <2> QED
    BY <2>5, <2>6
<1>7. ASSUME NEW g \in Parts, Mark(q, g)
      PROVE Tree(q)'
  <2>1. /\ todo[q][g] = {} /\ pc'[q] = pc[q] /\ left'[q] = left[q]
        /\ listing'[q] = listing[q] /\ dirs' = dirs
        /\ todo'[q][g] = Absent
        /\ \A h \in Parts : h # g => todo'[q][h] = todo[q][h]
    BY <1>7 DEF Mark, uploadVars, RunsKept, TypeOK
  <2>2. pc[q] = "stage" /\ left[q] = {}
    BY <2>1, AbsentAssumption DEF RunsKept, Passes, None, Uploads, Uploading
  <2>3. dirs[g] = Files /\ dirs[g] # Absent
    <3>1. Files # Absent /\ {} # Absent
      BY AbsentAssumption
    <3> QED
      BY <2>1, <3>1 DEF Tree
  <2>4. marked' = marked \cup {g} /\ staged'[q] = staged[q] \cup {g}
    BY <1>7, <2>3 DEF Mark, RunsKept, TypeOK
  <2> QED
    BY <2>1, <2>2, <2>3, <2>4 DEF Tree
<1>8. CASE Describe(q)
  <2>1. /\ pc[q] = "meta" /\ pc'[q] = "upload"
        /\ todo'[q] = todo[q] /\ listing'[q] = listing[q]
    BY <1>8 DEF Describe, Goto, stageVars, RunsKept, TypeOK
  <2>2. todo[q] = None /\ \A h \in Parts : listing[q][h] = Absent
    BY <2>1 DEF RunsKept, Passes, Uploads, Uploading
  <2>3. left'[q] = (staged[q] \cap NeedUpload(q)) \ found[q]
    BY <1>8 DEF Describe, RunsKept, TypeOK
  <2>4. \A h \in left'[q] : h \in Parts /\ dirs'[h] = dirs[h] /\ h \in staged[q]
    BY <1>8, <2>3 DEF Describe, RunsKept, TypeOK
  <2> QED
    BY <2>1, <2>2, <2>4 DEF Tree, None
<1>9. CASE UploadsEnd(q)
  <2>1. /\ pc[q] = "upload" /\ pc'[q] = "write" /\ left'[q] = left[q] /\ left[q] = {}
        /\ todo'[q] = todo[q]
    BY <1>9 DEF UploadsEnd, Goto, stageVars, uploadVars, RunsKept, TypeOK
  <2>2. todo[q] = None
    BY <2>1 DEF RunsKept, Passes
  <2> QED
    BY <2>1, <2>2 DEF Tree, None
<1>10. CASE Write(q) \/ Fail(q) \/ Crash(q)
  <2>1. \E o \in Over : End(q, o)
    BY <1>10 DEF Write, Fail, Crash, Over
  <2> QED
    BY <2>1 DEF End, Goto, None, Tree, RunsKept, TypeOK, Over
<1>11. ASSUME NEW g \in Parts, Head(q, g)
       PROVE Tree(q)'
  BY <1>11 DEF Head, stageVars, uploadVars, Tree
<1>12. ASSUME NEW g \in Parts, Collect(q, g) \/ PutFails(q, g)
       PROVE Tree(q)'
  <2>1. /\ UNCHANGED <<diskVars, pc, todo, staged>> /\ left'[q] \subseteq left[q]
        /\ \A h \in Parts : listing'[q][h] \in {listing[q][h], dirs[h], Absent}
    BY <1>12 DEF Collect, PutFails, stageVars, RunsKept, TypeOK
  <2>2. left[q] \subseteq Parts
    BY DEF RunsKept, TypeOK
  <2> QED
    BY <2>1, <2>2 DEF Tree
<1>13. ASSUME NEW g \in Parts, Put(q, g)
       PROVE Tree(q)'
  <2>1. /\ dirs' = [dirs EXCEPT ![g] = Absent] /\ marked' = marked \ {g}
    BY <1>13, PutWhole
  <2>2. /\ pc'[q] = pc[q] /\ todo'[q] = todo[q] /\ left'[q] = left[q] \ {g}
        /\ \A h \in Parts : h # g => listing'[q][h] = listing[q][h]
    BY <1>13 DEF Put, stageVars, RunsKept, TypeOK
  <2>3. pc[q] \in Uploading /\ left[q] \subseteq Parts
    BY <1>13 DEF Put, RunsKept, Uploads, TypeOK
  <2>4. todo[q] = None
    BY <2>3 DEF RunsKept, Passes, Uploading
  <2>5. \A h \in left'[q] : dirs'[h] = dirs[h]
    BY <2>1, <2>2, <2>3 DEF RunsKept, TypeOK
  <2> QED
    BY <2>1, <2>2, <2>3, <2>4, <2>5 DEF Tree, None, Uploading
<1>14. CASE Acts(q)
  BY <1>3, <1>4, <1>5, <1>6, <1>7, <1>8, <1>9, <1>10, <1>11, <1>12, <1>13, <1>14 DEF Acts, Step
<1>15. CASE Same(q) /\ Running(q)
  BY <1>2, <1>14, <1>15, TreeTouched DEF OneAtATime
<1> QED
  BY <1>1, <1>14, <1>15, RunsApart DEF Same, Running, Ended, RunsKept

LEMMA MarkersNext ==
  ASSUME RunsKept, \A r \in Runs : Tree(r), Markers, [Next]_vars
  PROVE  Markers'
<1> USE DEF diskVars, Markers
<1>1. CASE UNCHANGED diskVars
  BY <1>1
<1>2. ASSUME NEW r \in Runs, Setup(r) \/ UploadsEnd(r) \/ Fail(r)
      PROVE Markers'
  BY <1>2 DEF Setup, UploadsEnd, Fail, EmptyStaging
<1>3. ASSUME NEW r \in Runs, Describe(r)
      PROVE Markers'
  BY <1>3 DEF Describe, RunsKept, TypeOK
<1>4. ASSUME NEW r \in Runs, NEW g \in Parts, StageBegins(r, g)
      PROVE Markers'
  BY <1>4 DEF StageBegins, RunsKept, TypeOK
<1>5. ASSUME NEW r \in Runs, NEW g \in Parts, NEW f \in Files, Link(r, g, f)
      PROVE Markers'
  <2>1. g \notin marked /\ marked' = marked
    BY <1>5 DEF Link, Tree
  <2>2. \A h \in Parts : h # g => dirs'[h] = dirs[h]
    BY <1>5 DEF Link, RunsKept, TypeOK
  <2> QED
    BY <2>1, <2>2 DEF RunsKept, TypeOK
<1>6. ASSUME NEW r \in Runs, NEW g \in Parts, Mark(r, g)
      PROVE Markers'
  <2>1. dirs[g] = Files
    <3>1. {} # Absent /\ todo[r][g] = {}
      BY <1>6, AbsentAssumption DEF Mark
    <3>2. Tree(r)
      OBVIOUS
    <3> QED
      <4>1. dirs[g] = Files \ {}
        BY <3>1, <3>2 DEF Tree
      <4> QED
        BY <4>1
  <2>2. dirs' = dirs /\ marked' \subseteq marked \cup {g}
    BY <1>6 DEF Mark
  <2> QED
    BY <2>1, <2>2
<1>7. ASSUME NEW r \in Runs, NEW g \in Parts, Put(r, g)
      PROVE Markers'
  <2>1. dirs' = [dirs EXCEPT ![g] = Absent] /\ marked' = marked \ {g}
    BY <1>7, PutWhole
  <2> QED
    BY <2>1 DEF RunsKept, TypeOK
<1> QED
  BY <1>1, <1>2, <1>3, <1>4, <1>5, <1>6, <1>7 DEF Next, Step, ClickHouse, Query, List, ReadBase,
    Plan, AllStaged, Restage, Await, Redescribe, Write, Crash, Head, Collect, PutFails, vars

(* What is in the bucket stays, and what comes is whole.                   *)
LEMMA BlobsStep ==
  ASSUME RunsKept, \A r \in Runs : Tree(r), [Next]_vars, NEW h \in Parts
  PROVE  blobs'[h] = blobs[h] \/ blobs'[h] = Files
<1>1. CASE UNCHANGED blobs
  BY <1>1
<1>2. ASSUME NEW r \in Runs, NEW g \in Parts, Put(r, g)
      PROVE blobs'[h] = blobs[h] \/ blobs'[h] = Files
  BY <1>2, PutWhole DEF RunsKept, TypeOK
<1>3. ASSUME NEW r \in Runs, Query(r) \/ List(r) \/ ReadBase(r) \/ Setup(r) \/ Plan(r)
                               \/ AllStaged(r) \/ Restage(r) \/ Await(r) \/ Redescribe(r)
                               \/ Describe(r) \/ UploadsEnd(r)
      PROVE UNCHANGED blobs
  BY <1>3 DEF Query, List, ReadBase, Setup, Plan, AllStaged, Restage, Await, Redescribe, Describe,
    UploadsEnd, bucketVars
<1>4. ASSUME NEW r \in Runs, Write(r) \/ Fail(r) \/ Crash(r)
      PROVE UNCHANGED blobs
  BY <1>4 DEF Write, Fail, Crash, bucketVars
<1>5. ASSUME NEW r \in Runs, NEW g \in Parts,
             \/ Head(r, g) \/ StageBegins(r, g) \/ Mark(r, g) \/ Collect(r, g) \/ PutFails(r, g)
             \/ \E f \in Files : Link(r, g, f)
      PROVE UNCHANGED blobs
  BY <1>5 DEF Head, StageBegins, Mark, Collect, PutFails, Link, bucketVars
<1>6. CASE ClickHouse \/ UNCHANGED vars
  BY <1>6 DEF ClickHouse, vars, bucketVars
<1> QED
  BY <1>1, <1>2, <1>3, <1>4, <1>5, <1>6 DEF Next, Step

LEMMA SourcesNext ==
  ASSUME RunsKept, \A r \in Runs : Tree(r), Archives, ArchivesWhole, [Next]_vars,
         NEW q \in Runs, Sources(q)
  PROVE  Sources(q)'
<1> DEFINE S == known[q] \cup found[q] \cup uploaded[q]
<1>1. S \subseteq Parts /\ \A h \in Parts : blobs[h] = Files => blobs'[h] = Files
  BY BlobsStep DEF RunsKept, TypeOK
<1>2. CASE S' \subseteq S
  BY <1>1, <1>2 DEF Sources
<1>3. CASE Same(q)
  BY <1>2, <1>3 DEF Same
<1>4. CASE ReadBase(q)
  <2>1. /\ known'[q] = manifests[base[q]].parts /\ found'[q] = found[q]
        /\ uploaded'[q] = uploaded[q] /\ base[q] \in Present
    <3>1. base[q] \in Present
      BY <1>4 DEF ReadBase, RunsKept, BaseListed
    <3>2. known \in [Runs -> SUBSET Parts]
      BY DEF RunsKept, TypeOK
    <3> QED
      BY <1>4, <3>1, <3>2 DEF ReadBase, uploadVars
  <2>2. \A h \in manifests[base[q]].parts : blobs[h] = Files /\ h \in Parts
    BY <2>1, ManifestTyped DEF ArchivesWhole, RunsKept, Present
  <2> QED
    BY <1>1, <2>1, <2>2 DEF Sources
<1>5. ASSUME NEW g \in Parts, Head(q, g)
      PROVE Sources(q)'
  <2>1. known'[q] = known[q] /\ uploaded'[q] = uploaded[q] /\ blobs' = blobs
    BY <1>5 DEF Head, planVars, uploadVars, bucketVars
  <2>2. \/ found'[q] = found[q]
        \/ found'[q] = found[q] \cup {g} /\ blobs[g] # Absent
    <3>1. found \in [Runs -> SUBSET Parts]
      BY DEF RunsKept, TypeOK
    <3> QED
      <4>1. \/ found' = found
            \/ found' = [found EXCEPT ![q] = @ \cup {g}] /\ blobs[g] # Absent
        BY <1>5 DEF Head
      <4>2. CASE found' = found
        BY <4>2
      <4>3. CASE found' = [found EXCEPT ![q] = @ \cup {g}] /\ blobs[g] # Absent
        <5>1. found'[q] = found[q] \cup {g}
          BY <3>1, <4>3
        <5> QED
          BY <4>3, <5>1
      <4> QED
        BY <4>1, <4>2, <4>3
  <2> QED
    BY <2>1, <2>2 DEF Sources, Archives
<1>6. ASSUME NEW g \in Parts, Put(q, g)
      PROVE Sources(q)'
  <2>1. /\ known'[q] = known[q] /\ found'[q] = found[q]
        /\ uploaded'[q] = uploaded[q] \cup {g} /\ blobs'[g] = Files
    <3>1. uploaded \in [Runs -> SUBSET Parts] /\ blobs \in [Parts -> (SUBSET Files) \cup {Absent}]
      BY DEF RunsKept, TypeOK
    <3>2. blobs' = [blobs EXCEPT ![g] = Files]
      BY <1>6, PutWhole
    <3> QED
      BY <1>6, <3>1, <3>2 DEF Put, planVars, headVars
  <2> QED
    BY <1>1, <2>1 DEF Sources
<1>7. CASE Write(q) \/ Fail(q) \/ Crash(q)
  <2>1. \E o \in Over : End(q, o)
    BY <1>7 DEF Write, Fail, Crash, Over
  <2>2. S' \subseteq S
    BY <2>1 DEF End, RunsKept, TypeOK
  <2> QED
    BY <1>2, <2>2
<1>8. CASE Query(q) \/ List(q) \/ Setup(q) \/ Plan(q) \/ AllStaged(q) \/ Restage(q) \/ Await(q)
             \/ Redescribe(q) \/ Describe(q) \/ UploadsEnd(q)
  <2>1. S' = S
    BY <1>8 DEF Query, List, Setup, Plan, AllStaged, Restage, Await, Redescribe, Describe,
      UploadsEnd, planVars, headVars, uploadVars
  <2> QED
    BY <1>2, <2>1
<1>9. ASSUME NEW g \in Parts,
             \/ StageBegins(q, g) \/ Mark(q, g) \/ Collect(q, g) \/ PutFails(q, g)
             \/ \E f \in Files : Link(q, g, f)
      PROVE Sources(q)'
  <2>1. S' = S
    BY <1>9 DEF StageBegins, Mark, Collect, PutFails, Link, planVars, headVars, uploadVars
  <2> QED
    BY <1>2, <2>1
<1> QED
  BY RunsApart, <1>3, <1>4, <1>5, <1>6, <1>7, <1>8, <1>9 DEF Acts, Step, RunsKept

LEMMA ArchivesWholeNext ==
  ASSUME RunsKept, \A r \in Runs : Tree(r) /\ Sources(r), ArchivesWhole, [Next]_vars
  PROVE  ArchivesWhole'
<1> SUFFICES ASSUME NEW n \in Runs, n \in Present', NEW h \in manifests'[n].parts
             PROVE blobs'[h] = Files
  BY DEF ArchivesWhole, Present
<1>1. CASE manifests'[n] = manifests[n]
  <2>1. blobs[h] = Files /\ h \in Parts
    BY <1>1, ManifestTyped DEF ArchivesWhole, Present, RunsKept
  <2> QED
    BY <2>1, BlobsStep
<1>2. CASE Write(n)
  <2>1. manifests'[n].parts = current[n]
    BY <1>2 DEF Write, RunsKept, TypeOK
  <2>2. blobs' = blobs /\ current[n] \subseteq known[n] \cup found[n] \cup uploaded[n]
    BY <1>2 DEF Write, Sized
  <2> QED
    BY <2>1, <2>2 DEF Sources
<1>3. ASSUME NEW r \in Runs, Write(r), r # n
      PROVE manifests'[n] = manifests[n]
  BY <1>3 DEF Write, RunsKept, TypeOK
<1> QED
  BY <1>1, <1>2, <1>3, ManifestsWritten

(* While runs do not overlap.                                              *)
WholeInv ==
  /\ RunsKept /\ OneAtATime /\ Markers /\ Archives /\ ArchivesWhole
  /\ \A r \in Runs : Tree(r) /\ Sources(r)

(* create_snapshot and stage_part_dir_sync: as long as the backups of a    *)
(* host are not run at the same time, whatever a manifest references is in *)
(* the bucket with all its files, although ClickHouse removes parts while  *)
(* they are linked and uploaded and killed runs leave their staging tree.  *)
THEOREM WholeArchives == ~MayOverlap => (Spec => []ArchivesWhole)
<1> SUFFICES ASSUME ~MayOverlap PROVE Spec => []ArchivesWhole
  OBVIOUS
<1>1. Init => WholeInv
  <2> SUFFICES ASSUME Init PROVE WholeInv
    OBVIOUS
  <2>1. RunsKept
    BY TypeInit, HeadsInit DEF Init, BaseListed, RunsKept
  <2>2. OneAtATime /\ Markers /\ Archives /\ ArchivesWhole
    BY DEF Init, OneAtATime, Running, Ended, Markers, Archives, ArchivesWhole, Present, None
  <2>3. \A r \in Runs : Tree(r) /\ Sources(r)
    BY DEF Init, Tree, Sources, None
  <2> QED
    BY <2>1, <2>2, <2>3 DEF WholeInv
<1>2. WholeInv /\ [Next]_vars => WholeInv'
  <2> SUFFICES ASSUME WholeInv, [Next]_vars PROVE WholeInv'
    OBVIOUS
  <2> USE DEF WholeInv
  <2>1. RunsKept'
    BY TypeNext, BaseListedNext, HeadsNext, UploadsNext, PassesNext DEF RunsKept
  <2>2. OneAtATime' /\ Markers' /\ ArchivesWhole'
    BY OneAtATimeNext, MarkersNext, ArchivesWholeNext DEF RunsKept
  <2>3. Archives'
    BY BlobsStep DEF Archives
  <2>4. \A r \in Runs : Tree(r)' /\ Sources(r)'
    BY <2>1, TreeNext, SourcesNext
  <2> QED
    BY <2>1, <2>2, <2>3, <2>4
<1>3. WholeInv => ArchivesWhole
  BY DEF WholeInv
<1> QED
  BY <1>1, <1>2, <1>3, PTL DEF Spec

-----------------------------------------------------------------------------
(* The run as the bucket sees it                                           *)

(* What a run has before it has listed the manifests, and that it has not  *)
(* written its own before it ends.                                         *)
Begun(r) ==
  /\ pc[r] \in {"idle"} \cup Over => listed[r] = {}
  /\ pc[r] \in {"idle", "list"} \cup Over => base[r] = Absent
  /\ pc[r] \in {"list", "base"} => current[r] = listed[r]
  /\ manifests[r] # Absent => Ended(r)

LEMMA BegunNext ==
  ASSUME TypeOK, [Next]_vars, NEW q \in Runs, Begun(q)
  PROVE  Begun(q)'
<1> USE DEF Over
<1>1. CASE manifests'[q] = manifests[q]
  <2>1. CASE Same(q)
    BY <1>1, <2>1 DEF Same, Begun, Ended
  <2>2. CASE Query(q) \/ List(q) \/ ReadBase(q) \/ Setup(q) \/ Plan(q)
    BY <1>1, <2>2 DEF Query, List, ReadBase, Setup, Plan, Goto, planVars, Begun, Ended, TypeOK
  <2>3. CASE AllStaged(q) \/ Restage(q) \/ Await(q) \/ Redescribe(q) \/ Describe(q)
               \/ UploadsEnd(q)
    BY <1>1, <2>3 DEF AllStaged, Restage, Await, Redescribe, Describe, UploadsEnd, PassOver, Goto,
      planVars, Begun, Ended, TypeOK
  <2>4. CASE Write(q) \/ Fail(q) \/ Crash(q)
    <3>1. \E o \in Over : End(q, o)
      BY <2>4 DEF Write, Fail, Crash
    <3> QED
      BY <3>1 DEF End, Goto, Begun, Ended, TypeOK
  <2>5. CASE \E h \in Parts : \/ Head(q, h) \/ StageBegins(q, h) \/ Mark(q, h) \/ Collect(q, h)
                              \/ Put(q, h) \/ PutFails(q, h) \/ \E f \in Files : Link(q, h, f)
    BY <1>1, <2>5 DEF Head, StageBegins, Mark, Collect, Put, PutFails, Link, planVars, Begun, Ended
  <2> QED
    BY RunsApart, <2>1, <2>2, <2>3, <2>4, <2>5 DEF Acts, Step
<1>2. ASSUME NEW r \in Runs, Write(r), r # q
      PROVE manifests'[q] = manifests[q]
  BY <1>2 DEF Write, TypeOK
<1>3. CASE Write(q)
  <2>1. \E o \in Over : End(q, o)
    BY <1>3 DEF Write
  <2> QED
    BY <2>1 DEF End, Goto, Begun, Ended, TypeOK
<1> QED
  BY <1>1, <1>2, <1>3, ManifestsWritten

SeenInv == RunsKept /\ \A r \in Runs : Begun(r)

LEMMA SeenAlways == Spec => []SeenInv
<1>1. Init => SeenInv
  BY TypeInit, HeadsInit DEF Init, BaseListed, RunsKept, SeenInv, Begun, Over
<1>2. SeenInv /\ [Next]_vars => SeenInv'
  BY TypeNext, BaseListedNext, HeadsNext, UploadsNext, PassesNext, BegunNext DEF RunsKept, SeenInv
<1> QED
  BY <1>1, <1>2, PTL DEF Spec

LEMMA SeenPresent ==
  ASSUME TypeOK
  PROVE  /\ \A n \in Runs : SeenSnapshots[n] = Absent <=> manifests[n] = Absent
         /\ Seen!Present = Present
         /\ \A r \in Runs : Seen!OwnManifests(r) = Present
<1>1. ASSUME NEW n \in Runs
      PROVE SeenSnapshots[n] = Absent <=> manifests[n] = Absent
  <2>1. CASE manifests[n] = Absent
    BY <2>1 DEF SeenSnapshots
  <2>2. CASE manifests[n] # Absent
    <3>1. [refs |-> manifests[n].parts, by |-> n] \in [refs : SUBSET Parts, by : Runs]
      BY <2>2, ManifestTyped
    <3> QED
      BY <2>2, <3>1, AbsentAssumption DEF SeenSnapshots
  <2> QED
    BY <2>1, <2>2
<1>2. Seen!Present = Present
  BY <1>1 DEF Seen!Present, Present
<1>3. \A r \in Runs : Seen!OwnManifests(r) = Present
  BY <1>2 DEF Seen!OwnManifests, Present
<1> QED
  BY <1>1, <1>2, <1>3

LEMMA SeenStored == Seen!Stored = {h \in Parts : blobs[h] # Absent}
BY AbsentAssumption DEF Seen!Stored, SeenBlobs

(* What is seen of the other runs does not change when one acts.           *)
LEMMA SeenOfOne ==
  ASSUME TypeOK, NEW r \in Runs, Acts(r)
  PROVE  /\ SeenPc' = [SeenPc EXCEPT ![r] = SeenPc'[r]]
         /\ SeenParts' = [SeenParts EXCEPT ![r] = SeenParts'[r]]
<1>1. \A q \in Runs \ {r} : /\ pc'[q] = pc[q] /\ current'[q] = current[q]
                            /\ listed'[q] = listed[q]
  BY OnlyOneActs DEF Same
<1>2. \A q \in Runs \ {r} : SeenPc'[q] = SeenPc[q]
  BY <1>1 DEF SeenPc
<1>3. \A q \in Runs \ {r} : SeenParts'[q] = SeenParts[q]
  BY <1>1 DEF SeenParts
<1>4. SeenPc = [q \in Runs |-> SeenPc[q]] /\ SeenPc' = [q \in Runs |-> SeenPc'[q]]
  BY DEF SeenPc
<1>5. SeenParts = [q \in Runs |-> SeenParts[q]] /\ SeenParts' = [q \in Runs |-> SeenParts'[q]]
  BY DEF SeenParts
<1> QED
  BY <1>2, <1>3, <1>4, <1>5

(* What the bucket sees of a run does not change when neither what it has  *)
(* for its parts nor its stage does.                                       *)
LEMMA SeenSame ==
  ASSUME TypeOK, NEW r \in Runs, Acts(r),
         SeenPc'[r] = SeenPc[r], SeenParts'[r] = SeenParts[r]
  PROVE  SeenPc' = SeenPc /\ SeenParts' = SeenParts
<1>1. SeenPc = [q \in Runs |-> SeenPc[q]] /\ SeenParts = [q \in Runs |-> SeenParts[q]]
  BY DEF SeenPc, SeenParts
<1>2. /\ SeenPc' = [SeenPc EXCEPT ![r] = SeenPc[r]]
      /\ SeenParts' = [SeenParts EXCEPT ![r] = SeenParts[r]]
  BY SeenOfOne
<1> QED
  BY <1>1, <1>2

LEMMA SeenUnchanged ==
  /\ blobs' = blobs => SeenBlobs' = SeenBlobs
  /\ manifests' = manifests => SeenSnapshots' = SeenSnapshots
BY DEF SeenBlobs, SeenSnapshots

SeenVars == <<Seen!bucketVars, Seen!backupVars>>

LEMMA SeenStutters ==
  ASSUME /\ UNCHANGED bucketVars
         /\ SeenPc' = SeenPc /\ SeenParts' = SeenParts
         /\ UNCHANGED <<base, known, headVars, uploaded>>
  PROVE  UNCHANGED SeenVars
BY SeenUnchanged DEF SeenVars, bucketVars, headVars, Seen!bucketVars, Seen!backupVars

(* Before the manifests are listed Backup has not begun.                   *)
LEMMA QueryUnseen ==
  ASSUME SeenInv, NEW r \in Runs, Query(r)
  PROVE  UNCHANGED SeenVars
<1>1. /\ pc[r] = "idle" /\ pc'[r] = "list" /\ listed[r] = {}
  BY DEF Query, Goto, SeenInv, RunsKept, TypeOK, Begun
<1>2. SeenPc'[r] = SeenPc[r] /\ SeenParts'[r] = SeenParts[r]
  BY <1>1 DEF SeenPc, SeenParts
<1>3. SeenPc' = SeenPc /\ SeenParts' = SeenParts
  BY <1>2, SeenSame DEF Acts, SeenInv, RunsKept
<1>4. UNCHANGED <<bucketVars, base, known, headVars, uploaded>>
  BY DEF Query, uploadVars
<1> QED
  BY <1>3, <1>4, SeenStutters

(* The listing is where Backup begins, with the first list of parts.       *)
LEMMA ListSeen ==
  ASSUME SeenInv, NEW r \in Runs, List(r)
  PROVE  Seen!BackupStart(r)
<1>1. /\ pc[r] = "list" /\ current[r] = listed[r] /\ listed'[r] = listed[r]
      /\ listed[r] \in SUBSET Parts
  BY DEF List, SeenInv, RunsKept, TypeOK, Begun
<1>2. pc'[r] \in {"setup", "base"}
  BY DEF List, Goto, SeenInv, RunsKept, TypeOK
<1>3. SeenPc[r] = "idle" /\ SeenPc'[r] = (IF pc'[r] = "setup" THEN "stage" ELSE "base")
  BY <1>1, <1>2 DEF SeenPc
<1>4. SeenParts'[r] = current[r]
  BY <1>1, <1>2 DEF SeenParts
<1>5. /\ SeenPc' = [SeenPc EXCEPT ![r] = SeenPc'[r]]
      /\ SeenParts' = [SeenParts EXCEPT ![r] = current[r]]
  BY <1>4, SeenOfOne DEF Acts, Step, SeenInv, RunsKept
<1>6. Seen!OwnManifests(r) = Present
  BY SeenPresent DEF SeenInv, RunsKept
<1>7. SeenBlobs' = SeenBlobs /\ SeenSnapshots' = SeenSnapshots
  BY SeenUnchanged DEF List, bucketVars
<1>8. [q \in Runs |-> 0] = [[q \in Runs |-> 0] EXCEPT ![r] = 0] /\ 0 <= 0
  OBVIOUS
<1>9. CASE Present = {} /\ pc'[r] = "setup"
  <2>1. /\ toHead' = [toHead EXCEPT ![r] = current[r] \cap Large]
        /\ UNCHANGED <<base, known, found, uploaded>>
    BY <1>9 DEF List, uploadVars
  <2>2. \E P \in SUBSET Parts :
          /\ SeenParts' = [SeenParts EXCEPT ![r] = P]
          /\ Seen!OwnManifests(r) = {}
          /\ SeenPc' = [SeenPc EXCEPT ![r] = "stage"]
          /\ toHead' = [toHead EXCEPT ![r] = P \cap Large]
          /\ UNCHANGED base
    BY <1>1, <1>3, <1>5, <1>6, <1>9, <2>1
  <2> QED
    BY <1>1, <1>3, <1>7, <1>8, <2>1, <2>2 DEF Seen!BackupStart, Seen!bucketVars
<1>10. CASE Present # {}
  <2>1. /\ \E q \in Present :
             /\ \A m \in Present : m <= q
             /\ base' = [base EXCEPT ![r] = q]
        /\ pc'[r] = "base"
        /\ UNCHANGED <<toHead, known, found, uploaded>>
    BY <1>10 DEF List, uploadVars, Goto, SeenInv, RunsKept, TypeOK
  <2>2. \E P \in SUBSET Parts :
          /\ SeenParts' = [SeenParts EXCEPT ![r] = P]
          /\ \E n \in Seen!OwnManifests(r) :
               /\ \A m \in Seen!OwnManifests(r) : m <= n
               /\ base' = [base EXCEPT ![r] = n]
          /\ SeenPc' = [SeenPc EXCEPT ![r] = "base"]
          /\ UNCHANGED toHead
    BY <1>1, <1>3, <1>5, <1>6, <2>1
  <2> QED
    BY <1>1, <1>3, <1>7, <1>8, <2>1, <2>2 DEF Seen!BackupStart, Seen!bucketVars
<1> QED
  BY <1>9, <1>10 DEF List, Goto, SeenInv, RunsKept, TypeOK

LEMMA ReadBaseSeen ==
  ASSUME SeenInv, NEW r \in Runs, ReadBase(r)
  PROVE  Seen!BackupReadBase(r)
<1>1. /\ pc[r] = "base" /\ pc'[r] = "setup" /\ listed'[r] = listed[r] /\ base[r] \in Present
      /\ current[r] = listed[r]
  BY DEF ReadBase, Goto, SeenInv, RunsKept, BaseListed, TypeOK, Begun
<1>2. /\ SeenPc[r] = "base" /\ SeenPc'[r] = "stage"
      /\ SeenParts'[r] = listed[r] /\ SeenParts[r] = listed[r]
  BY <1>1 DEF SeenPc, SeenParts
<1>3. /\ SeenPc' = [SeenPc EXCEPT ![r] = "stage"] /\ SeenParts' = SeenParts
  <2>1. SeenPc' = [SeenPc EXCEPT ![r] = "stage"]
    BY <1>2, SeenOfOne DEF Acts, Step, SeenInv, RunsKept
  <2>2. SeenParts' = [SeenParts EXCEPT ![r] = SeenParts[r]]
    BY <1>2, SeenOfOne DEF Acts, Step, SeenInv, RunsKept
  <2> QED
    BY <2>1, <2>2 DEF SeenParts
<1>4. SeenBlobs' = SeenBlobs /\ SeenSnapshots' = SeenSnapshots
  BY SeenUnchanged DEF ReadBase, bucketVars
<1>5. base[r] \in Seen!Present /\ SeenSnapshots[base[r]].refs = manifests[base[r]].parts
  BY <1>1, SeenPresent DEF SeenSnapshots, Present, SeenInv, RunsKept
<1>6. /\ known' = [known EXCEPT ![r] = manifests[base[r]].parts]
      /\ toHead' = [toHead EXCEPT ![r] = (current[r] \cap Large) \ manifests[base[r]].parts]
      /\ UNCHANGED <<base, found, uploaded>>
  BY DEF ReadBase, uploadVars
<1> QED
  BY <1>1, <1>2, <1>3, <1>4, <1>5, <1>6 DEF Seen!BackupReadBase, Seen!bucketVars

(* Nothing of the staging is seen, nor of an upload that does not reach    *)
(* the bucket.                                                             *)
LEMMA StagingUnseen ==
  ASSUME SeenInv, NEW r \in Runs,
         \/ Setup(r) \/ Plan(r) \/ AllStaged(r) \/ Restage(r) \/ Await(r) \/ Redescribe(r)
         \/ UploadsEnd(r)
  PROVE  UNCHANGED SeenVars
<1>1. /\ listed'[r] = listed[r]
      /\ \/ /\ pc[r] \in {"setup", "plan", "stage", "await", "meta"}
            /\ pc'[r] \in {"setup", "plan", "stage", "await", "meta"}
         \/ pc[r] = "upload" /\ pc'[r] = "write" /\ current'[r] = current[r]
  BY DEF Setup, Plan, AllStaged, PassOver, Restage, Await, Redescribe, UploadsEnd, Goto, planVars,
    SeenInv, RunsKept, TypeOK
<1>2. SeenPc'[r] = SeenPc[r] /\ SeenParts'[r] = SeenParts[r]
  BY <1>1 DEF SeenPc, SeenParts
<1>3. SeenPc' = SeenPc /\ SeenParts' = SeenParts
  BY <1>2, SeenSame DEF Acts, Step, SeenInv, RunsKept
<1>4. UNCHANGED <<bucketVars, base, known, headVars, uploaded>>
  BY DEF Setup, Plan, AllStaged, Restage, Await, Redescribe, UploadsEnd, planVars, uploadVars
<1> QED
  BY <1>3, <1>4, SeenStutters

LEMMA FilesUnseen ==
  ASSUME SeenInv, NEW r \in Runs, NEW h \in Parts,
         \/ StageBegins(r, h) \/ Mark(r, h) \/ Collect(r, h) \/ PutFails(r, h)
         \/ \E f \in Files : Link(r, h, f)
  PROVE  UNCHANGED SeenVars
<1>1. UNCHANGED <<pc, planVars, bucketVars, headVars, uploaded>>
  BY DEF StageBegins, Mark, Collect, PutFails, Link, uploadVars
<1>2. SeenPc' = SeenPc /\ SeenParts' = SeenParts
  BY <1>1 DEF SeenPc, SeenParts, planVars
<1> QED
  BY <1>1, <1>2, SeenStutters DEF planVars

LEMMA HeadSeen ==
  ASSUME SeenInv, NEW r \in Runs, NEW h \in Parts, Head(r, h)
  PROVE  Seen!BackupHead(r, h)
<1>1. UNCHANGED <<pc, planVars, bucketVars, uploaded>>
  BY DEF Head, uploadVars
<1>2. SeenPc' = SeenPc /\ SeenParts' = SeenParts
  BY <1>1 DEF SeenPc, SeenParts, planVars
<1>3. SeenPc[r] = "stage"
  BY DEF Head, SeenPc
<1>4. SeenBlobs' = SeenBlobs /\ SeenSnapshots' = SeenSnapshots
  BY <1>1, SeenUnchanged DEF bucketVars
<1>5. /\ h \in toHead[r] /\ toHead' = [toHead EXCEPT ![r] = @ \ {h}]
      /\ \/ h \in Seen!Stored /\ found' = [found EXCEPT ![r] = @ \cup {h}]
         \/ UNCHANGED found
  BY SeenStored DEF Head
<1> QED
  BY <1>1, <1>2, <1>3, <1>4, <1>5 DEF Seen!BackupHead, Seen!bucketVars, planVars

(* With the metadata complete the parts that are backed up are settled.    *)
LEMMA DescribeSeen ==
  ASSUME SeenInv, NEW r \in Runs, Describe(r)
  PROVE  Seen!BackupStaged(r)
<1>1. /\ pc[r] = "meta" /\ pc'[r] = "upload" /\ current'[r] = current[r]
      /\ current[r] \in SUBSET Parts /\ toHead[r] = {}
  BY DEF Describe, Goto, planVars, SeenInv, RunsKept, Heads, TypeOK
<1>2. SeenPc[r] = "stage" /\ SeenPc'[r] = "upload" /\ SeenParts'[r] = current[r]
  BY <1>1 DEF SeenPc, SeenParts
<1>3. /\ SeenPc' = [SeenPc EXCEPT ![r] = "upload"]
      /\ SeenParts' = [SeenParts EXCEPT ![r] = current[r]]
  BY <1>2, SeenOfOne DEF Acts, Step, SeenInv, RunsKept
<1>4. UNCHANGED <<bucketVars, base, known, headVars, uploaded>>
  BY DEF Describe, planVars
<1>5. SeenBlobs' = SeenBlobs /\ SeenSnapshots' = SeenSnapshots
  BY <1>4, SeenUnchanged DEF bucketVars
<1> QED
  BY <1>1, <1>2, <1>3, <1>4, <1>5 DEF Seen!BackupStaged, Seen!bucketVars, headVars

LEMMA PutSeen ==
  ASSUME SeenInv, NEW r \in Runs, NEW h \in Parts, Put(r, h)
  PROVE  Seen!BackupUpload(r, h)
<1>1. /\ UNCHANGED <<pc, planVars, headVars, manifests>>
      /\ uploaded' = [uploaded EXCEPT ![r] = @ \cup {h}]
  BY DEF Put
<1>2. SeenPc' = SeenPc /\ SeenParts' = SeenParts
  BY <1>1 DEF SeenPc, SeenParts, planVars
<1>3. h \in left[r] /\ pc[r] \in Uploading
  BY DEF Put, SeenInv, RunsKept, Uploads
<1>4. SeenPc[r] = "upload" /\ SeenParts[r] = current[r]
  BY <1>3 DEF SeenPc, SeenParts, Uploading
<1>5. h \in Seen!NeedUpload(r) \ uploaded[r]
  BY <1>3, <1>4 DEF Seen!NeedUpload, NeedUpload, SeenInv, RunsKept, Uploads
<1>6. SeenBlobs' = [SeenBlobs EXCEPT ![h] = 0]
  <2>1. PICK v \in SUBSET Files : blobs' = [blobs EXCEPT ![h] = v]
    BY DEF Put, SeenInv, RunsKept, TypeOK
  <2>2. v # Absent
    BY AbsentAssumption
  <2>3. blobs'[h] # Absent /\ \A g \in Parts : g # h => blobs'[g] = blobs[g]
    BY <2>1, <2>2 DEF SeenInv, RunsKept, TypeOK
  <2> QED
    BY <2>3 DEF SeenBlobs
<1>7. SeenSnapshots' = SeenSnapshots
  BY <1>1, SeenUnchanged
<1> QED
  BY <1>1, <1>2, <1>4, <1>5, <1>6, <1>7 DEF Seen!BackupUpload, Seen!PutBlob, planVars, headVars

(* The end of a run that had listed the manifests.                         *)
LEMMA EndSeen ==
  ASSUME SeenInv, NEW r \in Runs, NEW o \in {"done", "failed"}, End(r, o), Acts(r), blobs' = blobs
  PROVE  Seen!BackupEnd(r, o)
<1>1. pc'[r] = o /\ listed'[r] = {}
  BY DEF End, Goto, SeenInv, RunsKept, TypeOK
<1>2. SeenPc'[r] = o /\ SeenParts'[r] = {}
  BY <1>1 DEF SeenPc, SeenParts
<1>3. SeenPc' = [SeenPc EXCEPT ![r] = o] /\ SeenParts' = [SeenParts EXCEPT ![r] = {}]
  BY <1>2, SeenOfOne DEF SeenInv, RunsKept
<1>4. SeenBlobs' = SeenBlobs
  BY SeenUnchanged
<1> QED
  BY <1>3, <1>4 DEF End, Seen!BackupEnd

LEMMA WriteSeen ==
  ASSUME SeenInv, NEW r \in Runs, Write(r)
  PROVE  \E o \in {"done", "failed"} : Seen!BackupWrite(r, o)
<1>1. PICK o \in {"done", "failed"} : End(r, o)
  BY DEF Write
<1>2. Seen!BackupEnd(r, o)
  BY <1>1, EndSeen DEF Write, Acts, Step
<1>3. pc[r] = "write" /\ SeenPc[r] = "upload" /\ SeenParts[r] = current[r]
  BY DEF Write, SeenPc, SeenParts
<1>4. Seen!NeedUpload(r) \subseteq uploaded[r]
  BY <1>3 DEF Seen!NeedUpload, Write, Sized
<1>5. SeenSnapshots[r] = Absent
  BY <1>3 DEF SeenSnapshots, SeenInv, Begun, Ended
<1>6. SeenSnapshots' = [SeenSnapshots EXCEPT ![r] = [refs |-> SeenParts[r], by |-> r]]
  <2>1. /\ manifests'[r] # Absent /\ manifests'[r].parts = current[r]
        /\ \A n \in Runs : n # r => manifests'[n] = manifests[n]
    BY WrittenTyped DEF Write, SeenInv, RunsKept, TypeOK
  <2> QED
    BY <1>3, <2>1 DEF SeenSnapshots
<1> QED
  BY <1>2, <1>3, <1>4, <1>5, <1>6 DEF Seen!BackupWrite, Seen!WriteManifest

(* A run that fails or is killed.                                          *)
LEMMA FailSeen ==
  ASSUME SeenInv, NEW r \in Runs, Fail(r) \/ Crash(r)
  PROVE  Seen!BackupFail(r) \/ UNCHANGED SeenVars
<1>1. UNCHANGED bucketVars
  BY DEF Fail, Crash
<1>2. CASE pc[r] = "list"
  <2>1. End(r, "unstarted")
    BY <1>2 DEF Fail, Crash
  <2>2. /\ pc'[r] = "unstarted" /\ listed'[r] = {}
    BY <2>1 DEF End, Goto, SeenInv, RunsKept, TypeOK
  <2>3. SeenPc'[r] = SeenPc[r] /\ SeenParts'[r] = SeenParts[r]
    BY <1>2, <2>2 DEF SeenPc, SeenParts
  <2>4. SeenPc' = SeenPc /\ SeenParts' = SeenParts
    BY <2>3, SeenSame DEF Acts, Step, SeenInv, RunsKept
  <2>5. base[r] = Absent /\ known[r] = {} /\ found[r] = {} /\ toHead[r] = {}
    BY <1>2 DEF SeenInv, RunsKept, Begun, Heads
  <2>6. UNCHANGED <<base, known, headVars, uploaded>>
    BY <2>1, <2>5 DEF End, headVars, SeenInv, RunsKept, TypeOK
  <2> QED
    BY <1>1, <2>4, <2>6, SeenStutters
<1>3. CASE pc[r] # "list"
  <2>1. End(r, "failed")
    BY <1>3 DEF Fail, Crash
  <2>2. Seen!BackupEnd(r, "failed")
    BY <1>1, <2>1, EndSeen DEF Acts, Step, bucketVars
  <2>3. pc[r] \in {"base", "setup", "plan", "stage", "await", "meta", "upload", "write"}
    BY <1>3 DEF Fail, Crash, Refused, CallFails, PassOver, Running, Ended, SeenInv, RunsKept, TypeOK,
      Pc
  <2>4. SeenPc[r] \in {"base", "stage", "upload"}
    BY <2>3 DEF SeenPc
  <2> QED
    BY <1>1, <2>2, <2>4, SeenUnchanged DEF Seen!BackupFail, Seen!Running, bucketVars
<1> QED
  BY <1>2, <1>3

LEMMA SeenInit == Init => Seen!BucketInit /\ Seen!BackupInit
<1> SUFFICES ASSUME Init PROVE Seen!BucketInit /\ Seen!BackupInit
  OBVIOUS
<1>1. SeenBlobs = [h \in Parts |-> Absent]
  BY DEF Init, None, SeenBlobs
<1>2. SeenSnapshots = [n \in Runs |-> Absent]
  BY DEF Init, SeenSnapshots
<1>3. SeenPc = [r \in Runs |-> "idle"]
  BY DEF Init, SeenPc
<1>4. SeenParts = [r \in Runs |-> {}]
  BY DEF Init, SeenParts
<1> QED
  BY <1>1, <1>2, <1>3, <1>4 DEF Init, Seen!BucketInit, Seen!BackupInit

LEMMA SeenNext == SeenInv /\ [Next]_vars => [Seen!BackupsNext]_SeenVars
<1> SUFFICES ASSUME SeenInv, [Next]_vars PROVE Seen!BackupsNext \/ UNCHANGED SeenVars
  OBVIOUS
<1> USE DEF Seen!BackupsNext, Seen!BackupStep
<1>1. CASE UNCHANGED vars \/ ClickHouse
  <2>1. UNCHANGED <<bucketVars, runVars>>
    BY <1>1 DEF vars, ClickHouse
  <2>2. SeenPc' = SeenPc /\ SeenParts' = SeenParts
    BY <2>1 DEF SeenPc, SeenParts, runVars, planVars
  <2> QED
    BY <2>1, <2>2, SeenStutters DEF runVars, planVars, uploadVars
<1>2. ASSUME NEW r \in Runs, Query(r) \/ List(r) \/ ReadBase(r)
      PROVE Seen!BackupsNext \/ UNCHANGED SeenVars
  BY <1>2, QueryUnseen, ListSeen, ReadBaseSeen
<1>3. ASSUME NEW r \in Runs,
             \/ Setup(r) \/ Plan(r) \/ AllStaged(r) \/ Restage(r) \/ Await(r) \/ Redescribe(r)
             \/ UploadsEnd(r)
      PROVE UNCHANGED SeenVars
  BY <1>3, StagingUnseen
<1>4. ASSUME NEW r \in Runs, NEW h \in Parts,
             \/ StageBegins(r, h) \/ Mark(r, h) \/ Collect(r, h) \/ PutFails(r, h)
             \/ \E f \in Files : Link(r, h, f)
      PROVE UNCHANGED SeenVars
  BY <1>4, FilesUnseen
<1>5. ASSUME NEW r \in Runs, NEW h \in Parts, Head(r, h) \/ Put(r, h)
      PROVE Seen!BackupsNext
  BY <1>5, HeadSeen, PutSeen
<1>6. ASSUME NEW r \in Runs, Describe(r) \/ Write(r)
      PROVE Seen!BackupsNext
  BY <1>6, DescribeSeen, WriteSeen
<1>7. ASSUME NEW r \in Runs, Fail(r) \/ Crash(r)
      PROVE Seen!BackupsNext \/ UNCHANGED SeenVars
  BY <1>7, FailSeen
<1> QED
  BY <1>1, <1>2, <1>3, <1>4, <1>5, <1>6, <1>7 DEF Next, Step

(* create_snapshot implements Backup, for any number of runs that share a  *)
(* staging tree or take turns: the merges and drops, the passes and the    *)
(* attempts, the overlapped HEAD checks, the failures and the crashes      *)
(* included, the bucket sees of a run what Backup says.                    *)
THEOREM BackupImplemented == Spec => ImplementsBackup
<1>1. Spec => []SeenInv
  BY SeenAlways
<1>2. Init => Seen!BucketInit /\ Seen!BackupInit
  BY SeenInit
<1>3. SeenInv /\ [Next]_vars => [Seen!BackupsNext]_<<Seen!bucketVars, Seen!backupVars>>
  BY SeenNext DEF SeenVars
<1> QED
  BY <1>1, <1>2, <1>3, PTL DEF Spec, ImplementsBackup, Seen!BackupsSpec
=============================================================================
