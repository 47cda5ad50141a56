------------------------- MODULE BulkDelete_proofs -------------------------
(***************************************************************************)
(* Proofs about BulkDelete for any keys, shards, batch sizes, numbers of   *)
(* attempts and faults: its counters, what is left when the lock is lost,  *)
(* and that it does what Gc relies on (Deletion).                          *)
(***************************************************************************)
EXTENDS BulkDelete, FiniteSetTheorems, TLAPS

(* What is true of a batch b at each phase.                                *)
BatchSound(b) ==
  /\ todo[b] \subseteq b /\ refused[b] \subseteq b
  /\ phase[b] = "queued" => attempt[b] = 0
  /\ phase[b] = "wait" => attempt[b] < MaxAttempts
  /\ phase[b] = "call" => b \ (todo[b] \cup refused[b]) \subseteq gone
  /\ \A k \in sent \cap b : phase[b] = "single" /\ k \notin todo[b]

TypeInv ==
  /\ Types
  /\ batches \in Batchings
  /\ \A b \in batches : BatchSound(b)

LEMMA TypeInit == Init => TypeInv
<1> SUFFICES ASSUME Init PROVE TypeInv
  OBVIOUS
<1>1. batches \in Batchings /\ batches \subseteq SUBSET Keys
  BY DEF Init, Batchings
<1>2. Types
  <2>1. dropped \in BOOLEAN
    BY ZenonT(20) DEF Init
  <2>2. attempt \in [batches -> 0..MaxAttempts] /\ faults \in 0..MaxFaults
    BY NumbersAssumption DEF Init
  <2>3. phase \in [batches -> Phase]
    BY DEF Init, Phase
  <2>4. todo \in [batches -> SUBSET Keys] /\ refused \in [batches -> SUBSET Keys]
    BY DEF Init
  <2>5. /\ stored \subseteq Keys /\ sent \subseteq Keys /\ late \subseteq Keys /\ gone \subseteq Keys
        /\ success \in Nat /\ errors \in Nat /\ throttled \in Nat
    BY DEF Init
  <2> QED BY <1>1, <2>1, <2>2, <2>3, <2>4, <2>5, ZenonT(20) DEF Types
<1>3. \A b \in batches : BatchSound(b)
  BY <1>1 DEF Init, BatchSound
<1> QED BY <1>1, <1>2, <1>3 DEF TypeInv

(* A key is in one batch.                                                  *)
LEMMA OneBatch ==
  ASSUME TypeInv
  PROVE  /\ \A b \in batches : b \subseteq Keys /\ IsFiniteSet(b)
         /\ \A k \in Keys : \E b \in batches : k \in b
         /\ \A b, c \in batches, k \in Keys : k \in b /\ k \in c => b = c
<1>1. batches \in Batchings
  BY DEF TypeInv
<1>2. \A b \in batches : b \subseteq Keys
  BY <1>1 DEF Batchings
<1>3. ASSUME NEW b \in batches PROVE IsFiniteSet(b)
  BY <1>2, KeysAssumption, FS_Subset
<1>4. UNION batches = Keys
  BY <1>1 DEF Batchings
<1>5. ASSUME NEW b \in batches, NEW c \in batches, NEW k \in Keys, k \in b, k \in c PROVE b = c
  BY <1>1, <1>5 DEF Batchings
<1> QED BY <1>2, <1>3, <1>4, <1>5

LEMMA TypeStep == TypeInv /\ [Next]_vars => TypeInv'
<1> SUFFICES ASSUME TypeInv, [Next]_vars PROVE TypeInv'
  OBVIOUS
<1>t. Types /\ \A b \in batches : BatchSound(b)
  BY DEF TypeInv
<1>n. MaxAttempts \in Nat \ {0} /\ MaxFaults \in Nat
  BY NumbersAssumption
<1>b. UNCHANGED batches
  BY DEF Next, Step, Fails, Begin, Retry, Call, Answered, FallbackEnds, DeleteKey, SendOne,
     DeletedOne, Unanswered, Rejected, RefuseKey, FailedOne, Drop, DeleteLate, NeverDeleted,
     Upload, batchVars, vars
<1> SUFFICES Types' /\ \A c \in batches : BatchSound(c)'
  BY <1>b DEF TypeInv
<1> USE DEF Types, BatchSound, Phase
<1>1. ASSUME NEW b \in batches, Begin(b) \/ Retry(b)
      PROVE  Types' /\ \A c \in batches : BatchSound(c)'
  <2>1. Call(b) /\ attempt[b] + 1 \in 0..MaxAttempts /\ b \subseteq Keys
    BY <1>1, <1>t, <1>n, OneBatch DEF Begin, Retry
  <2>2. phase[b] # "single"
    BY <1>1 DEF Begin, Retry
  <2> QED BY <1>t, <2>1, <2>2 DEF Call, Goto, counters
<1>2. ASSUME NEW b \in batches, NEW k \in Keys, DeleteKey(b, k)
      PROVE  Types' /\ \A c \in batches : BatchSound(c)'
  BY <1>2, <1>t DEF DeleteKey, Erase, counters
<1>3. ASSUME NEW b \in batches, NEW k \in Keys, RefuseKey(b, k)
      PROVE  Types' /\ \A c \in batches : BatchSound(c)'
  BY <1>3, <1>t, <1>n DEF RefuseKey, Fault, counters
<1>4. ASSUME NEW b \in batches, Answered(b)
      PROVE  Types' /\ \A c \in batches : BatchSound(c)'
  <2>1. /\ IsFiniteSet(b) /\ refused[b] \in SUBSET b
    BY <1>t, OneBatch
  <2>2. /\ Cardinality(b) \in Nat /\ Cardinality(refused[b]) \in Nat
        /\ Cardinality(refused[b]) <= Cardinality(b)
    BY <2>1, FS_CardinalityType, FS_Subset
  <2>3. success' \in Nat /\ errors' \in Nat /\ throttled' \in Nat
    BY <1>4, <1>t, <2>2 DEF Answered
  <2> QED BY <1>4, <1>t, <2>3 DEF Answered, Goto
<1>5. ASSUME NEW b \in batches, Unanswered(b)
      PROVE  Types' /\ \A c \in batches : BatchSound(c)'
  <2>1. Cardinality(b) \in Nat
    BY OneBatch, FS_CardinalityType
  <2>2. success' \in Nat /\ errors' \in Nat /\ throttled' \in Nat
    BY <1>5, <1>t, <2>1 DEF Unanswered, counters
  <2>3. phase'[b] = "wait" => attempt[b] < MaxAttempts
    BY <1>5, <1>t, <1>n DEF Unanswered, Goto, LastAttempt
  <2> QED BY <1>5, <1>t, <1>n, <2>2, <2>3 DEF Unanswered, Goto, Fault
<1>6. ASSUME NEW b \in batches, Rejected(b) \/ FallbackEnds(b)
      PROVE  Types' /\ \A c \in batches : BatchSound(c)'
  BY <1>6, <1>t, <1>n DEF Rejected, FallbackEnds, Goto, Fault, counters
<1>7. ASSUME NEW b \in batches, NEW k \in Keys, SendOne(b, k)
      PROVE  Types' /\ \A c \in batches : BatchSound(c)'
  BY <1>7, <1>t, OneBatch DEF SendOne, counters
<1>8. ASSUME NEW k \in Keys, DeletedOne(k) \/ FailedOne(k)
      PROVE  Types' /\ \A c \in batches : BatchSound(c)'
  BY <1>8, <1>t, <1>n DEF DeletedOne, FailedOne, Erase, Fault
<1>9. CASE Drop
  BY <1>9, <1>t DEF Drop, batchVars, counters
<1>10. ASSUME NEW k \in Keys, DeleteLate(k) \/ NeverDeleted(k) \/ Upload(k)
       PROVE  Types' /\ \A c \in batches : BatchSound(c)'
  BY <1>10, <1>t DEF DeleteLate, NeverDeleted, Upload, Erase, batchVars, counters
<1>11. CASE UNCHANGED vars
  BY <1>11, <1>t DEF vars, batchVars, counters
<1> QED
  BY <1>1, <1>2, <1>3, <1>4, <1>5, <1>6, <1>7, <1>8, <1>9, <1>10, <1>11 DEF Next, Step, Fails

-----------------------------------------------------------------------------
(* What is counted is finite, and a step counts nothing, a whole batch or  *)
(* one key.                                                                *)
LEMMA CountedFinite ==
  ASSUME TypeInv
  PROVE  /\ Counted \in SUBSET Keys /\ IsFiniteSet(Counted) /\ IsFiniteSet(Counted \ gone)
         /\ Cardinality(Counted) \in Nat /\ Cardinality(Counted \ gone) \in Nat
<1>1. Counted \in SUBSET Keys /\ Counted \ gone \in SUBSET Keys
  BY DEF Counted
<1> QED
  BY <1>1, KeysAssumption, FS_Subset, FS_CardinalityType

LEMMA CountsNothing ==
  ASSUME TypeInv, UNCHANGED <<batches, phase, todo, sent>>
  PROVE  Counted' = Counted
  BY DEF Counted

LEMMA BatchCountsNothing ==
  ASSUME TypeInv, NEW b \in batches,
         \/ Begin(b) \/ Retry(b) \/ Rejected(b) \/ FallbackEnds(b)
         \/ \E k \in Keys : DeleteKey(b, k) \/ RefuseKey(b, k) \/ SendOne(b, k)
  PROVE  Counted' = Counted
<1>t. Types /\ (\A c \in batches : BatchSound(c))
  BY DEF TypeInv
<1> USE <1>t, OneBatch DEF Types, Counted
<1>1. CASE Begin(b) \/ Retry(b)
  BY <1>1 DEF Begin, Retry, Call, Goto
<1>2. CASE Rejected(b)
  BY <1>2 DEF Rejected, Goto
<1>3. CASE FallbackEnds(b)
  BY <1>3 DEF FallbackEnds, Goto
<1>4. ASSUME NEW k \in Keys, DeleteKey(b, k) \/ RefuseKey(b, k) PROVE Counted' = Counted
  BY <1>4 DEF DeleteKey, RefuseKey
<1>5. ASSUME NEW k \in Keys, SendOne(b, k) PROVE Counted' = Counted
  <2>1. k \in b
    BY <1>5 DEF SendOne, BatchSound
  <2> QED BY <1>5, <2>1 DEF SendOne
<1> QED
  BY <1>1, <1>2, <1>3, <1>4, <1>5

LEMMA CountsBatch ==
  ASSUME TypeInv, NEW b \in batches, phase[b] = "call", Goto(b, "done"),
         UNCHANGED <<batches, todo, sent>>
  PROVE  Counted' = Counted \cup b /\ Counted \cap b = {} /\ b \subseteq Keys
  BY OneBatch DEF TypeInv, Types, Counted, Goto

LEMMA CountsOne ==
  ASSUME TypeInv, NEW k \in sent, sent' = sent \ {k}, UNCHANGED <<batches, phase, todo>>
  PROVE  Counted' = Counted \cup {k} /\ k \notin Counted
<1>t. Types /\ (\A c \in batches : BatchSound(c)) /\ k \in Keys
  BY DEF TypeInv, Types
<1>1. PICK b \in batches : k \in b
  BY <1>t, OneBatch
<1>2. phase[b] = "single" /\ k \notin todo[b]
  BY <1>t, <1>1 DEF BatchSound
<1> QED
  BY <1>t, <1>1, <1>2, OneBatch DEF Counted, Types

(* The numbers, and at what each step adds to them.                        *)
CountInv ==
  /\ success + errors = Cardinality(Counted)
  /\ throttled <= errors
  /\ Cardinality(Counted \ gone) <= errors

LEMMA CountInit == Init => CountInv
<1> SUFFICES ASSUME Init PROVE CountInv
  OBVIOUS
<1>1. Counted = {}
  BY DEF Init, Counted
<1>2. Cardinality(Counted) = 0 /\ Cardinality(Counted \ gone) = 0
  BY <1>1, FS_EmptySet
<1> QED
  BY <1>2 DEF Init, CountInv

(* Nothing is counted, and keys may go.                                    *)
LEMMA SameCount ==
  ASSUME TypeInv, CountInv, UNCHANGED counters, Counted' = Counted, gone \subseteq gone'
  PROVE  CountInv'
<1>1. Counted' \ gone' \in SUBSET (Counted \ gone)
  OBVIOUS
<1>2. /\ Cardinality(Counted' \ gone') \in Nat
      /\ Cardinality(Counted' \ gone') <= Cardinality(Counted \ gone)
  BY <1>1, CountedFinite, FS_Subset, FS_CardinalityType
<1> QED
  BY <1>2, CountedFinite DEF CountInv, counters, TypeInv, Types

(* Keys are counted, of which all but those in R have gone.                *)
LEMMA MoreCount ==
  ASSUME TypeInv, CountInv, NEW K \in SUBSET Keys, NEW R \in SUBSET K, NEW t \in Nat,
         Counted' = Counted \cup K, Counted \cap K = {}, gone \subseteq gone', K \ R \subseteq gone',
         success' = success + (Cardinality(K) - Cardinality(R)),
         errors' = errors + Cardinality(R), throttled' = throttled + t, t <= Cardinality(R)
  PROVE  CountInv'
<1>1. IsFiniteSet(K) /\ IsFiniteSet(R)
  BY KeysAssumption, FS_Subset
<1>2. Cardinality(K) \in Nat /\ Cardinality(R) \in Nat
  BY <1>1, FS_CardinalityType
<1>3. Cardinality(Counted') = Cardinality(Counted) + Cardinality(K)
  <2>1. Cardinality(Counted \cup K) =
          Cardinality(Counted) + Cardinality(K) - Cardinality(Counted \cap K)
    BY <1>1, CountedFinite, FS_Union
  <2>2. Cardinality(Counted \cap K) = 0
    BY FS_EmptySet
  <2> QED BY <1>2, <2>1, <2>2, CountedFinite
<1>4. /\ IsFiniteSet((Counted \ gone) \cup R)
      /\ Cardinality((Counted \ gone) \cup R) <= Cardinality(Counted \ gone) + Cardinality(R)
  <2>1. (Counted \ gone) \cap R \in SUBSET R
    OBVIOUS
  <2>2. Cardinality((Counted \ gone) \cap R) \in Nat
    BY <1>1, <2>1, FS_Subset, FS_CardinalityType
  <2>3. /\ IsFiniteSet((Counted \ gone) \cup R)
        /\ Cardinality((Counted \ gone) \cup R) =
             Cardinality(Counted \ gone) + Cardinality(R) - Cardinality((Counted \ gone) \cap R)
    BY <1>1, CountedFinite, FS_Union
  <2> QED BY <1>2, <2>2, <2>3, CountedFinite
<1>5. Counted' \ gone' \in SUBSET ((Counted \ gone) \cup R)
  OBVIOUS
<1>6. /\ Cardinality(Counted' \ gone') \in Nat
      /\ Cardinality(Counted' \ gone') <= Cardinality((Counted \ gone) \cup R)
      /\ Cardinality((Counted \ gone) \cup R) \in Nat
  BY <1>4, <1>5, FS_Subset, FS_CardinalityType
<1>7. success \in Nat /\ errors \in Nat /\ throttled \in Nat
  BY DEF TypeInv, Types
<1> QED
  BY <1>2, <1>3, <1>4, <1>6, <1>7, CountedFinite DEF CountInv

LEMMA CountStep == TypeInv /\ CountInv /\ [Next]_vars => CountInv'
<1> SUFFICES ASSUME TypeInv, CountInv, [Next]_vars PROVE CountInv'
  OBVIOUS
<1>t. Types /\ (\A c \in batches : BatchSound(c) /\ c \subseteq Keys /\ IsFiniteSet(c))
  BY OneBatch DEF TypeInv
<1>1. ASSUME NEW b \in batches,
             \/ Begin(b) \/ Retry(b) \/ Rejected(b) \/ FallbackEnds(b)
             \/ \E k \in Keys : DeleteKey(b, k) \/ RefuseKey(b, k) \/ SendOne(b, k)
      PROVE  CountInv'
  <2>1. UNCHANGED counters /\ gone \subseteq gone'
    BY <1>1 DEF Begin, Retry, Rejected, FallbackEnds, DeleteKey, RefuseKey, SendOne, Call, Erase
  <2> QED BY <1>1, <2>1, BatchCountsNothing, SameCount
<1>2. ASSUME NEW b \in batches, Answered(b) PROVE CountInv'
  <2>1. Counted' = Counted \cup b /\ Counted \cap b = {}
    BY <1>2, CountsBatch DEF Answered
  <2>2. refused[b] \in SUBSET b /\ b \ refused[b] \subseteq gone
    BY <1>2, <1>t DEF Answered, BatchSound
  <2>3. PICK t \in 0..Cardinality(refused[b]) : throttled' = throttled + t
    BY <1>2 DEF Answered
  <2>4. Cardinality(refused[b]) \in Nat
    BY <2>2, <1>t, FS_Subset, FS_CardinalityType
  <2>5. /\ success' = success + (Cardinality(b) - Cardinality(refused[b]))
        /\ errors' = errors + Cardinality(refused[b])
        /\ gone' = gone
    BY <1>2 DEF Answered
  <2>6. t \in Nat /\ t <= Cardinality(refused[b])
    BY <2>4
  <2> QED BY <1>t, <2>1, <2>2, <2>3, <2>5, <2>6, MoreCount
<1>3. ASSUME NEW b \in batches, Unanswered(b) PROVE CountInv'
  <2>1. CASE Goto(b, "wait") /\ UNCHANGED counters
    <3>1. Counted' = Counted
      BY <1>3, <2>1, <1>t, OneBatch DEF Unanswered, Goto, Counted, Types
    <3> QED BY <1>3, <2>1, <3>1, SameCount DEF Unanswered
  <2>2. CASE /\ Goto(b, "done") /\ UNCHANGED success
             /\ errors' = errors + Cardinality(b)
             /\ throttled' = throttled + Cardinality(b)
    <3>1. Counted' = Counted \cup b /\ Counted \cap b = {}
      BY <1>3, <2>2, CountsBatch DEF Unanswered
    <3>2. Cardinality(b) \in Nat
      BY <1>t, FS_CardinalityType
    <3>3. success' = success + (Cardinality(b) - Cardinality(b))
      BY <2>2, <3>2, <1>t DEF Types
    <3> QED BY <1>3, <1>t, <2>2, <3>1, <3>2, <3>3, MoreCount DEF Unanswered
  <2> QED BY <1>3, <2>1, <2>2 DEF Unanswered
<1>4. ASSUME NEW k \in Keys, DeletedOne(k) PROVE CountInv'
  <2>1. Counted' = Counted \cup {k} /\ Counted \cap {k} = {}
    BY <1>4, CountsOne DEF DeletedOne
  <2>2. Cardinality({k}) = 1 /\ Cardinality({}) = 0
    BY FS_Singleton, FS_EmptySet
  <2>3. /\ success' = success + 1 /\ errors' = errors /\ throttled' = throttled
        /\ gone' = gone \cup {k}
    BY <1>4 DEF DeletedOne, Erase
  <2>4. /\ success' = success + (Cardinality({k}) - Cardinality({}))
        /\ errors' = errors + Cardinality({}) /\ throttled' = throttled + 0
    BY <2>2, <2>3, <1>t DEF Types
  <2>5. {k} \in SUBSET Keys /\ {} \in SUBSET {k} /\ 0 \in Nat /\ 0 <= Cardinality({})
    BY <2>2
  <2>6. gone \subseteq gone' /\ {k} \ {} \subseteq gone'
    BY <2>3
  <2> QED BY ONLY TypeInv, CountInv, <2>1, <2>4, <2>5, <2>6, MoreCount
<1>5. ASSUME NEW k \in Keys, FailedOne(k) PROVE CountInv'
  <2>1. Counted' = Counted \cup {k} /\ Counted \cap {k} = {}
    BY <1>5, CountsOne DEF FailedOne
  <2>2. Cardinality({k}) = 1
    BY FS_Singleton
  <2>3. success' = success /\ errors' = errors + 1 /\ throttled' = throttled /\ gone' = gone
    BY <1>5 DEF FailedOne
  <2>4. /\ success' = success + (Cardinality({k}) - Cardinality({k}))
        /\ errors' = errors + Cardinality({k}) /\ throttled' = throttled + 0
    BY <2>2, <2>3, <1>t DEF Types
  <2>5. {k} \in SUBSET Keys /\ {k} \in SUBSET {k} /\ 0 \in Nat /\ 0 <= Cardinality({k})
    BY <2>2
  <2>6. gone \subseteq gone' /\ {k} \ {k} \subseteq gone'
    BY <2>3
  <2> QED BY ONLY TypeInv, CountInv, <2>1, <2>4, <2>5, <2>6, MoreCount
<1>6. CASE Drop \/ UNCHANGED vars
  <2>1. UNCHANGED <<counters, gone, batches, phase, todo, sent>>
    BY <1>6 DEF Drop, vars, batchVars
  <2> QED BY <2>1, CountsNothing, SameCount
<1>7. ASSUME NEW k \in Keys, DeleteLate(k) \/ NeverDeleted(k) \/ Upload(k) PROVE CountInv'
  <2>1. UNCHANGED <<counters, batches, phase, todo, sent>> /\ gone \subseteq gone'
    BY <1>7 DEF DeleteLate, NeverDeleted, Upload, Erase, batchVars
  <2> QED BY <2>1, CountsNothing, SameCount
<1> QED
  BY <1>1, <1>2, <1>3, <1>4, <1>5, <1>6, <1>7 DEF Next, Step, Fails

LEMMA CountsKept == Spec => []CountInv
<1>1. TypeInv /\ CountInv /\ [Next]_vars => (TypeInv /\ CountInv)'
  BY TypeStep, CountStep
<1>2. Init => TypeInv /\ CountInv
  BY TypeInit, CountInit
<1> QED
  BY <1>1, <1>2, PTL DEF Spec

(* Each key is counted once, however a batch is tried, answered in part or *)
(* handed to the fallback.                                                 *)
THEOREM CountsAreRight == Spec => []CountsAddUp
<1>1. ASSUME TypeInv, CountInv PROVE CountsAddUp
  <2>1. Returned => Counted = Keys
    BY <1>1, OneBatch DEF Returned, Counted
  <2> QED BY <1>1, <2>1 DEF CountInv, CountsAddUp
<1>2. Spec => []TypeInv
  BY TypeInit, TypeStep, PTL DEF Spec
<1> QED
  BY CountsKept, <1>1, <1>2, PTL

(* What is reported as deleted was deleted.                                *)
THEOREM ReportsAreTrue == Spec => []ErrorsCoverWhatStays
<1>1. CountInv => ErrorsCoverWhatStays
  BY DEF CountInv, ErrorsCoverWhatStays
<1> QED
  BY CountsKept, <1>1, PTL

-----------------------------------------------------------------------------
(* No more batches are at work than may be, and while nothing has failed   *)
(* what is late was dropped with one of them.                              *)
WorkInv ==
  /\ Cardinality({b \in batches : AtWork(b)}) <= Concurrency
  /\ faults = 0 => /\ \A b \in batches : phase[b] # "single" /\ phase[b] # "wait"
                   /\ ~dropped => late = {}
                   /\ late \subseteq UNION {b \in batches : AtWork(b)}

LEMMA BatchesFinite ==
  ASSUME TypeInv, NEW B \in SUBSET batches
  PROVE  IsFiniteSet(B) /\ Cardinality(B) \in Nat
<1>1. IsFiniteSet(SUBSET Keys) /\ B \in SUBSET SUBSET Keys
  BY KeysAssumption, FS_SUBSET DEF TypeInv, Types
<1> QED
  BY <1>1, FS_Subset, FS_CardinalityType

LEMMA WorkInit == TypeInv /\ Init => WorkInv
<1> SUFFICES ASSUME TypeInv, Init PROVE WorkInv
  OBVIOUS
<1>1. {b \in batches : AtWork(b)} = {}
  BY DEF Init, AtWork
<1>2. Cardinality({b \in batches : AtWork(b)}) <= Concurrency
  BY <1>1, FS_EmptySet, NumbersAssumption
<1>3. \A b \in batches : phase[b] = "queued"
  BY DEF Init
<1> QED
  BY <1>2, <1>3 DEF Init, WorkInv

LEMMA WorkStep == TypeInv /\ WorkInv /\ [Next]_vars => WorkInv'
<1> SUFFICES ASSUME TypeInv, WorkInv, [Next]_vars PROVE WorkInv'
  OBVIOUS
<1>t. Types /\ \A b \in batches : BatchSound(b)
  BY DEF TypeInv
<1> DEFINE W == {b \in batches : AtWork(b)}
<1>f. /\ W \in SUBSET batches /\ IsFiniteSet(W) /\ Cardinality(W) \in Nat
      /\ Concurrency \in Nat
  BY BatchesFinite, NumbersAssumption
<1>s. ASSUME W' \in SUBSET W PROVE Cardinality(W') <= Concurrency
  <2>1. Cardinality(W') <= Cardinality(W)
    BY <1>f, <1>s, FS_Subset
  <2>2. Cardinality(W') \in Nat
    BY <1>f, <1>s, FS_Subset, FS_CardinalityType
  <2>3. Cardinality(W) <= Concurrency
    BY DEF WorkInv
  <2> HIDE DEF W
  <2> QED BY <1>f, <2>1, <2>2, <2>3
<1>z. faults \in Nat /\ (faults' = faults + 1 => faults' # 0)
  BY <1>t, NumbersAssumption DEF Types
<1>1. ASSUME NEW b \in batches, Begin(b) PROVE WorkInv'
  <2>1. W' = W \cup {b} /\ b \notin W
    BY <1>1, <1>t DEF Begin, Call, Goto, AtWork, Types
  <2>2. Cardinality(W) < Concurrency
    BY <1>1 DEF Begin
  <2>3. Cardinality(W') = Cardinality(W) + 1
    BY <1>f, <2>1, FS_AddElement
  <2>4. Cardinality(W') <= Concurrency
    <3> HIDE DEF W
    <3> QED BY <1>f, <2>2, <2>3
  <2>5. late' = {} \/ faults' # 0
    BY <1>1 DEF Begin, Call, WorkInv
  <2> QED BY <1>1, <1>t, <2>4, <2>5 DEF Begin, Call, Goto, WorkInv, Types
<1>2. ASSUME faults' = faults + 1, NEW b \in batches, Unanswered(b) \/ Rejected(b)
      PROVE  WorkInv'
  <2>1. W' \in SUBSET W
    BY <1>2, <1>t DEF Unanswered, Rejected, Goto, AtWork, Types
  <2> QED BY <1>2, <1>s, <1>z, <2>1 DEF WorkInv
<1>3. ASSUME faults' = faults + 1, UNCHANGED <<batches, phase>> PROVE WorkInv'
  <2>1. W' = W
    BY <1>3 DEF AtWork
  <2> QED BY <1>3, <1>s, <1>z, <2>1 DEF WorkInv
<1>4. ASSUME NEW b \in batches, Retry(b) \/ Answered(b) \/ FallbackEnds(b) PROVE WorkInv'
  <2>1. W' \in SUBSET W
    BY <1>4, <1>t DEF Retry, Call, Answered, FallbackEnds, Goto, AtWork, Types
  <2>2. faults' = 0 => late' = {}
    BY <1>4 DEF Retry, Call, Answered, FallbackEnds, WorkInv
  <2>3. faults' = 0 => \A c \in batches' : phase'[c] # "single" /\ phase'[c] # "wait"
    BY <1>4, <1>t DEF Retry, Call, Answered, FallbackEnds, Goto, WorkInv, Types
  <2> QED BY <1>s, <2>1, <2>2, <2>3 DEF WorkInv
<1>5. CASE Drop
  <2>1. W' = W /\ UNCHANGED <<batches, phase, faults>>
    BY <1>5 DEF Drop, AtWork, batchVars
  <2>2. faults' = 0 => late' \subseteq UNION W
    <3> SUFFICES ASSUME faults = 0, NEW k \in late' PROVE k \in UNION W
      BY <2>1
    <3>1. late = {} /\ \A b \in batches : phase[b] # "single"
      BY <1>5 DEF Drop, WorkInv
    <3>2. sent = {}
      BY <1>t, <3>1, OneBatch DEF BatchSound, Types
    <3>3. PICK b \in batches : phase[b] = "call" /\ k \in todo[b]
      BY <1>5, <3>1, <3>2 DEF Drop
    <3> QED BY <1>t, <3>3 DEF BatchSound, AtWork
  <2>3. dropped' = TRUE
    BY <1>5 DEF Drop
  <2> QED BY <1>s, <2>1, <2>2, <2>3 DEF WorkInv
<1>6. ASSUME UNCHANGED <<batches, phase, dropped, faults>>, late' \subseteq late PROVE WorkInv'
  <2>1. W' = W
    BY <1>6 DEF AtWork
  <2>2. faults' = 0 => (~dropped' => late' = {}) /\ late' \subseteq UNION W'
    BY <1>6, <2>1 DEF WorkInv
  <2> QED BY <1>6, <1>s, <2>1, <2>2 DEF WorkInv
<1>7. ASSUME NEW b \in batches, NEW k \in Keys, DeleteKey(b, k) \/ SendOne(b, k) PROVE WorkInv'
  BY <1>6, <1>7 DEF DeleteKey, SendOne
<1>8. ASSUME NEW k \in Keys,
             DeletedOne(k) \/ DeleteLate(k) \/ NeverDeleted(k) \/ Upload(k)
      PROVE  WorkInv'
  BY <1>6, <1>8 DEF DeletedOne, DeleteLate, NeverDeleted, Upload, batchVars
<1>9. CASE UNCHANGED vars
  BY <1>6, <1>9 DEF vars, batchVars
<1>10. ASSUME NEW b \in batches, Unanswered(b) \/ Rejected(b) PROVE WorkInv'
  BY <1>2, <1>10 DEF Unanswered, Rejected, Fault
<1>11. ASSUME NEW b \in batches, NEW k \in Keys, RefuseKey(b, k) PROVE WorkInv'
  BY <1>3, <1>11 DEF RefuseKey, Fault
<1>12. ASSUME NEW k \in Keys, FailedOne(k) PROVE WorkInv'
  BY <1>3, <1>12 DEF FailedOne, Fault
<1> QED
  BY <1>1, <1>4, <1>5, <1>7, <1>8, <1>9, <1>10, <1>11, <1>12 DEF Next, Step, Fails

(* The limits: no more batches are at work than may be, by WorkInv, and of *)
(* each no more DELETEs are under way than FALLBACK_CONCURRENCY.           *)
SentInv == \A b \in batches : Cardinality(sent \cap b) <= FallbackConcurrency

LEMMA SentInit == TypeInv /\ Init => SentInv
<1> SUFFICES ASSUME TypeInv, Init, NEW b \in batches
             PROVE  Cardinality(sent \cap b) <= FallbackConcurrency
  BY DEF SentInv
<1>1. sent \cap b = {}
  BY DEF Init
<1> QED
  BY <1>1, FS_EmptySet, NumbersAssumption

LEMMA SentStep == TypeInv /\ SentInv /\ [Next]_vars => SentInv'
<1> SUFFICES ASSUME TypeInv, SentInv, [Next]_vars, NEW c \in batches
             PROVE  UNCHANGED batches /\ Cardinality(sent' \cap c) <= FallbackConcurrency
  BY DEF SentInv, Next, vars, batchVars, Step, Fails, Begin, Retry, Call, Answered,
     FallbackEnds, DeleteKey, SendOne, DeletedOne, Unanswered, Rejected, RefuseKey, FailedOne,
     Drop, DeleteLate, NeverDeleted, Upload
<1>b. UNCHANGED batches
  BY DEF Next, vars, batchVars, Step, Fails, Begin, Retry, Call, Answered,
     FallbackEnds, DeleteKey, SendOne, DeletedOne, Unanswered, Rejected, RefuseKey, FailedOne,
     Drop, DeleteLate, NeverDeleted, Upload
<1>f. /\ IsFiniteSet(sent \cap c) /\ Cardinality(sent \cap c) \in Nat
      /\ Cardinality(sent \cap c) <= FallbackConcurrency /\ FallbackConcurrency \in Nat
  <2>1. IsFiniteSet(c) /\ sent \cap c \in SUBSET c
    BY OneBatch
  <2> QED BY <2>1, FS_Subset, FS_CardinalityType, NumbersAssumption DEF SentInv
<1>1. ASSUME sent' \subseteq sent PROVE Cardinality(sent' \cap c) <= FallbackConcurrency
  <2>1. sent' \cap c \in SUBSET (sent \cap c)
    BY <1>1
  <2>2. /\ Cardinality(sent' \cap c) \in Nat
        /\ Cardinality(sent' \cap c) <= Cardinality(sent \cap c)
    BY <1>f, <2>1, FS_Subset, FS_CardinalityType
  <2> QED BY <1>f, <2>2
<1>2. ASSUME NEW b \in batches, NEW k \in Keys, SendOne(b, k)
      PROVE  Cardinality(sent' \cap c) <= FallbackConcurrency
  <2>1. k \in b /\ sent' = sent \cup {k}
    BY <1>2 DEF SendOne, TypeInv, BatchSound
  <2>2. CASE b = c
    <3>1. sent' \cap c = (sent \cap c) \cup {k}
      BY <2>1, <2>2
    <3>2. Cardinality(sent \cap c) < FallbackConcurrency
      BY <1>2, <2>2 DEF SendOne
    <3>3. \/ Cardinality(sent' \cap c) = Cardinality(sent \cap c)
          \/ Cardinality(sent' \cap c) = Cardinality(sent \cap c) + 1
      BY <1>f, <3>1, FS_AddElement
    <3> QED BY <1>f, <3>2, <3>3
  <2>3. CASE b # c
    <3>1. sent' \cap c = sent \cap c
      BY <2>1, <2>3, OneBatch
    <3> QED BY <1>f, <3>1
  <2> QED BY <2>2, <2>3
<1>3. sent' \subseteq sent \/ \E b \in batches, k \in Keys : SendOne(b, k)
  BY DEF Next, vars, batchVars, Step, Fails, Begin, Retry, Call, Answered,
     FallbackEnds, DeleteKey, DeletedOne, Unanswered, Rejected, RefuseKey, FailedOne,
     Drop, DeleteLate, NeverDeleted, Upload
<1> QED
  BY <1>b, <1>1, <1>2, <1>3

(* Every variable of BulkDelete keeps its type: a DeleteObjects call is    *)
(* attempted max_attempts times at most.  No more batches are at work than *)
(* delete_concurrency allows, and of none are more DELETEs under way than  *)
(* FALLBACK_CONCURRENCY.                                                   *)
THEOREM TypeCorrect == Spec => []TypeOK
<1> DEFINE Inv == TypeInv /\ WorkInv /\ SentInv
<1>1. Init => Inv
  BY TypeInit, WorkInit, SentInit
<1>2. Inv /\ [Next]_vars => Inv'
  BY TypeStep, WorkStep, SentStep
<1>3. Inv => TypeOK
  BY DEF TypeInv, WorkInv, SentInv, TypeOK, Limits
<1> QED
  BY <1>1, <1>2, <1>3, PTL DEF Spec

(* When the lock is lost, S3 may still delete keys of no more batches than *)
(* may be at work at a time, if nothing has failed.                        *)
THEOREM DropLeavesFewBatches == Spec => []DropLeavesFew
<1>1. TypeInv /\ WorkInv /\ [Next]_vars => (TypeInv /\ WorkInv)'
  BY TypeStep, WorkStep
<1>2. Init => TypeInv /\ WorkInv
  BY TypeInit, WorkInit
<1>3. ASSUME WorkInv PROVE DropLeavesFew
  <2> DEFINE W == {b \in batches : AtWork(b)}
  <2>1. W \in SUBSET batches
    OBVIOUS
  <2>2. Cardinality(W) <= Concurrency /\ (faults = 0 => late \subseteq UNION W)
    BY <1>3 DEF WorkInv
  <2> HIDE DEF W
  <2> QED BY <2>1, <2>2 DEF DropLeavesFew
<1> QED
  BY <1>1, <1>2, <1>3, PTL DEF Spec

-----------------------------------------------------------------------------
(* What Deletion calls doomed, and its steps.                              *)
Doomed == Undecided \cup late

LEMMA UndecidedIs ==
  /\ ~dropped => Undecided = Keys \ Counted
  /\ dropped => Undecided = {}
  BY DEF Undecided

LEMMA Settles ==
  ASSUME UNCHANGED stored, Doomed' \subseteq Doomed
  PROVE  [Promise!Next]_(Promise!deletionVars)
  BY DEF Promise!Next, Promise!Settle, Doomed

LEMMA Deletes ==
  ASSUME NEW k \in Keys, k \in Doomed, stored' = stored \ {k},
         Doomed' = Doomed \/ Doomed' = Doomed \ {k}
  PROVE  [Promise!Next]_(Promise!deletionVars)
  BY DEF Promise!Next, Promise!Delete, Promise!DeleteAndSettle, Doomed

(* What is at work is not counted.                                         *)
LEMMA AtWorkUncounted ==
  ASSUME TypeInv
  PROVE  /\ sent \subseteq Keys \ Counted
         /\ \A b \in batches : phase[b] = "call" => b \subseteq Keys \ Counted
<1>t. Types /\ (\A c \in batches : BatchSound(c))
  BY DEF TypeInv
<1>1. ASSUME NEW b \in batches, phase[b] = "call" PROVE b \subseteq Keys \ Counted
  BY <1>1, OneBatch DEF Counted
<1>2. ASSUME NEW k \in sent PROVE k \in Keys \ Counted
  <2>1. k \in Keys
    BY <1>t DEF Types
  <2>2. ASSUME NEW b \in batches, k \in b PROVE phase[b] # "done"
    BY <1>t, <2>2 DEF BatchSound
  <2> QED BY <2>1, <2>2 DEF Counted
<1> QED
  BY <1>1, <1>2

LEMMA PromiseInit == Init => Promise!Init
<1> SUFFICES ASSUME Init PROVE Promise!Init
  OBVIOUS
<1>1. Counted = {}
  BY DEF Init, Counted
<1>2. ~dropped /\ late = {}
  BY DEF Init
<1>3. Undecided \cup late = Keys
  BY <1>1, <1>2, UndecidedIs
<1>4. stored \in SUBSET Keys
  BY DEF Init
<1> QED
  BY <1>3, <1>4 DEF Promise!Init

LEMMA PromiseStep == TypeInv /\ [Next]_vars => [Promise!Next]_(Promise!deletionVars)
<1> SUFFICES ASSUME TypeInv, [Next]_vars PROVE [Promise!Next]_(Promise!deletionVars)
  OBVIOUS
<1>t. Types /\ (\A c \in batches : BatchSound(c) /\ c \subseteq Keys)
  BY OneBatch DEF TypeInv
<1>u. ASSUME ~dropped, UNCHANGED dropped
      PROVE  Undecided = Keys \ Counted /\ Undecided' = Keys \ Counted'
  <2>1. ~dropped'
    BY <1>u, ZenonT(20)
  <2> QED BY <1>u, <2>1 DEF Undecided
<1>1. ASSUME NEW b \in batches, NEW k \in Keys, DeleteKey(b, k)
      PROVE  [Promise!Next]_(Promise!deletionVars)
  <2>1. Counted' = Counted /\ late' = late /\ stored' = stored \ {k} /\ ~dropped /\ dropped' = dropped
    BY <1>1, BatchCountsNothing DEF DeleteKey, Erase
  <2>2. k \in Keys \ Counted
    BY <1>1, <1>t, AtWorkUncounted DEF DeleteKey, BatchSound
  <2> QED BY <1>u, <2>1, <2>2, Deletes DEF Doomed
<1>2. ASSUME NEW b \in batches,
             \/ Begin(b) \/ Retry(b) \/ Rejected(b) \/ FallbackEnds(b)
             \/ \E k \in Keys : RefuseKey(b, k) \/ SendOne(b, k)
      PROVE  [Promise!Next]_(Promise!deletionVars)
  <2>1. /\ Counted' = Counted /\ late' = late /\ stored' = stored
        /\ ~dropped /\ dropped' = dropped
    BY <1>2, BatchCountsNothing
    DEF Begin, Retry, Call, Rejected, FallbackEnds, RefuseKey, SendOne
  <2> QED BY <1>u, <2>1, Settles DEF Doomed
<1>3. ASSUME NEW b \in batches, Answered(b) PROVE [Promise!Next]_(Promise!deletionVars)
  <2>1. /\ Counted' = Counted \cup b /\ late' = late /\ stored' = stored
        /\ ~dropped /\ dropped' = dropped
    BY <1>3, CountsBatch DEF Answered
  <2> QED BY <1>u, <2>1, Settles DEF Doomed
<1>4. ASSUME NEW b \in batches, Unanswered(b) PROVE [Promise!Next]_(Promise!deletionVars)
  <2>1. /\ late' = late \cup todo[b] /\ stored' = stored /\ phase[b] = "call"
        /\ ~dropped /\ dropped' = dropped
    BY <1>4 DEF Unanswered
  <2>2. todo[b] \subseteq Keys \ Counted
    BY <1>t, <2>1, AtWorkUncounted DEF BatchSound
  <2>3. Counted \subseteq Counted'
    <3>1. CASE Goto(b, "wait")
      BY <1>4, <1>t, <3>1, OneBatch DEF Unanswered, Goto, Counted, Types
    <3>2. CASE Goto(b, "done")
      BY <1>4, <3>2, CountsBatch DEF Unanswered
    <3> QED BY <1>4, <3>1, <3>2 DEF Unanswered
  <2> QED BY <1>u, <2>1, <2>2, <2>3, Settles DEF Doomed
<1>5. ASSUME NEW k \in Keys, DeletedOne(k) PROVE [Promise!Next]_(Promise!deletionVars)
  <2>1. /\ Counted' = Counted \cup {k} /\ late' = late /\ stored' = stored \ {k}
        /\ ~dropped /\ dropped' = dropped
    BY <1>5, CountsOne DEF DeletedOne, Erase
  <2>2. k \in Keys \ Counted
    BY <1>5, AtWorkUncounted DEF DeletedOne
  <2>3. Doomed = (Keys \ Counted) \cup late /\ Doomed' = (Keys \ (Counted \cup {k})) \cup late
    BY <1>u, <2>1 DEF Doomed
  <2>4. Doomed' = Doomed \/ Doomed' = Doomed \ {k}
    <3>1. CASE k \in late
      BY <2>3, <3>1
    <3>2. CASE k \notin late
      BY <2>3, <3>2
    <3> QED BY <3>1, <3>2
  <2> QED BY <2>1, <2>2, <2>3, <2>4, Deletes
<1>6. ASSUME NEW k \in Keys, FailedOne(k) PROVE [Promise!Next]_(Promise!deletionVars)
  <2>1. /\ Counted' = Counted \cup {k} /\ late' = late \cup {k} /\ stored' = stored
        /\ ~dropped /\ dropped' = dropped
    BY <1>6, CountsOne DEF FailedOne
  <2>2. k \in Keys \ Counted
    BY <1>6, AtWorkUncounted DEF FailedOne
  <2> QED BY <1>u, <2>1, <2>2, Settles DEF Doomed
<1>7. CASE Drop
  <2>1. ~dropped /\ dropped' = TRUE /\ stored' = stored
    BY <1>7 DEF Drop
  <2>2. late' \subseteq late \cup (Keys \ Counted)
    BY <1>7, <1>t, AtWorkUncounted DEF Drop, BatchSound
  <2>3. Undecided = Keys \ Counted /\ Undecided' = {}
    BY <2>1 DEF Undecided
  <2> QED BY <2>1, <2>2, <2>3, Settles DEF Doomed
<1>8. ASSUME NEW k \in Keys, DeleteLate(k) \/ NeverDeleted(k) \/ Upload(k)
      PROVE  [Promise!Next]_(Promise!deletionVars)
  <2>1. Undecided' = Undecided
    BY <1>8, CountsNothing DEF DeleteLate, NeverDeleted, Upload, batchVars, Undecided
  <2>2. CASE DeleteLate(k)
    <3>1. k \in late /\ late' = late \ {k} /\ stored' = stored \ {k}
      BY <2>2 DEF DeleteLate, Erase
    <3>2. Doomed' = Doomed \/ Doomed' = Doomed \ {k}
      <4>1. CASE k \in Undecided
        BY <2>1, <3>1, <4>1 DEF Doomed
      <4>2. CASE k \notin Undecided
        BY <2>1, <3>1, <4>2 DEF Doomed
      <4> QED BY <4>1, <4>2
    <3> QED BY <3>1, <3>2, Deletes DEF Doomed
  <2>3. CASE NeverDeleted(k)
    BY <2>1, <2>3, Settles DEF NeverDeleted, Doomed
  <2>4. CASE Upload(k)
    BY <2>1, <2>4 DEF Upload, Promise!Next, Promise!Upload
  <2> QED BY <1>8, <2>2, <2>3, <2>4
<1>9. CASE UNCHANGED vars
  <2>1. Undecided' = Undecided /\ late' = late /\ stored' = stored
    BY <1>9, CountsNothing DEF vars, batchVars, Undecided
  <2> QED BY <2>1, Settles DEF Doomed
<1> QED
  BY <1>1, <1>2, <1>3, <1>4, <1>5, <1>6, <1>7, <1>8, <1>9 DEF Next, Step, Fails

(* delete_objects_bulk implements Deletion: retries, partial answers, the  *)
(* fallback and a lost lock included, it deletes none but its keys, and    *)
(* none after the last request for it was answered or took effect.         *)
THEOREM DeletionImplemented == Spec => ImplementsDeletion
<1>1. Spec => []TypeInv
  BY TypeInit, TypeStep, PTL DEF Spec
<1> QED
  BY PromiseInit, PromiseStep, <1>1, PTL DEF Spec, ImplementsDeletion, Promise!Spec
=============================================================================
