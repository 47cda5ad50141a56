----------------------------- MODULE BulkDelete -----------------------------
(***************************************************************************)
(* delete_objects_bulk (storage.rs): how the blobs that a collection has   *)
(* doomed are deleted.  The keys are put in batches of one shard each;     *)
(* some batches are at work at a time; a batch is one DeleteObjects call,  *)
(* which is retried, or replaced by a DELETE for each key when S3 refuses  *)
(* the call as such.  S3 deletes the keys of a request one by one.         *)
(*                                                                         *)
(* The client gives a request up when its answer does not come, or when    *)
(* the lock is lost and with_gc_lock drops the closure: what S3 has not    *)
(* done by then it may still do.                                           *)
(***************************************************************************)
EXTENDS Integers, FiniteSets

CONSTANTS
  Keys,                 \* the keys of the call
  Shard,                \* Shard[k]: the shard prefix of k
  BatchSize,            \* BATCH_SIZE
  Concurrency,          \* delete_concurrency
  FallbackConcurrency,  \* FALLBACK_CONCURRENCY
  MaxAttempts,          \* max_attempts of the batch's with_retry
  MayUpload,            \* keys that backups may upload meanwhile
  MaxFaults             \* bound: keys or requests that fail

ASSUME KeysAssumption == IsFiniteSet(Keys)
ASSUME NumbersAssumption ==
  /\ BatchSize \in Nat \ {0} /\ Concurrency \in Nat \ {0}
  /\ FallbackConcurrency \in Nat \ {0} /\ MaxAttempts \in Nat \ {0}
  /\ MaxFaults \in Nat

VARIABLES
  stored,       \* the keys that are in the bucket
  batches,      \* the batches, as sets of keys
  phase,        \* phase[b]: where batch b is
  attempt,      \* attempt[b]: the number of its DeleteObjects call
  todo,         \* todo[b]: keys that call has not come to, or keys that the
                \* fallback has not sent
  refused,      \* refused[b]: keys for which the answer will hold an error
  sent,         \* keys whose own DELETE is on its way
  late,         \* keys that a request may yet delete whose answer is not awaited
  success, errors, throttled,   \* the counters
  dropped,      \* the lock was lost: nothing is polled any more
  faults,       \* how many faults there have been
  gone          \* history: the keys that were out of the bucket at some time

counters == <<success, errors, throttled>>
batchVars == <<batches, phase, attempt, todo, refused, sent>>
vars == <<stored, batchVars, late, counters, dropped, faults, gone>>

Phase == {"queued", "call", "wait", "single", "done"}

(* What batch_keys_by_shard may return: the keys of each shard in chunks   *)
(* of BatchSize, of which one may be smaller.                              *)
Batchings ==
  {B \in SUBSET (SUBSET Keys \ {{}}) :
     /\ UNION B = Keys
     /\ \A b \in B : Cardinality(b) <= BatchSize /\ \A k, l \in b : Shard[k] = Shard[l]
     /\ \A b, c \in B : b \cap c # {} => b = c
     /\ \A b, c \in B :
          Cardinality(b) < BatchSize /\ Cardinality(c) < BatchSize
            /\ (\E k \in b, l \in c : Shard[k] = Shard[l]) => b = c}

Init ==
  /\ stored \in SUBSET Keys
  /\ batches \in Batchings
  /\ phase = [b \in batches |-> "queued"]
  /\ attempt = [b \in batches |-> 0]
  /\ todo = [b \in batches |-> {}]
  /\ refused = [b \in batches |-> {}]
  /\ sent = {}
  /\ late = {}
  /\ success = 0
  /\ errors = 0
  /\ throttled = 0
  /\ dropped = FALSE
  /\ faults = 0
  /\ gone = Keys \ stored

(* Mutant of AtWork: a batch that is done keeps its place.                 *)
AtWorkForever(b) == phase[b] # "queued"

AtWork(b) == phase[b] \notin {"queued", "done"}
Returned == \A b \in batches : phase[b] = "done"

Goto(b, p) == phase' = [phase EXCEPT ![b] = p]
Fault == faults < MaxFaults /\ faults' = faults + 1

(* S3 deletes the key k, which may not be there.                           *)
Erase(k) ==
  /\ stored' = stored \ {k}
  /\ gone' = gone \cup {k}

(* The request for the whole of b goes out.                                *)
Call(b) ==
  /\ Goto(b, "call")
  /\ attempt' = [attempt EXCEPT ![b] = @ + 1]
  /\ todo' = [todo EXCEPT ![b] = b]
  /\ refused' = [refused EXCEPT ![b] = {}]
  /\ UNCHANGED <<stored, batches, sent, late, counters, dropped, faults, gone>>

(* Mutant of Begin: all batches at once.                                   *)
BeginAtOnce(b) ==
  /\ ~dropped
  /\ phase[b] = "queued"
  /\ Call(b)

(* buffer_unordered takes the next batch.                                  *)
Begin(b) ==
  /\ ~dropped
  /\ phase[b] = "queued"
  /\ Cardinality({c \in batches : AtWork(c)}) < Concurrency
  /\ Call(b)

(* The delay before another attempt is over.                               *)
Retry(b) ==
  /\ ~dropped
  /\ phase[b] = "wait"
  /\ Call(b)

(* S3 comes to a key of the request.                                       *)
DeleteKey(b, k) ==
  /\ ~dropped
  /\ phase[b] = "call"
  /\ k \in todo[b]
  /\ Erase(k)
  /\ todo' = [todo EXCEPT ![b] = @ \ {k}]
  /\ UNCHANGED <<batches, phase, attempt, refused, sent, late, counters, dropped, faults>>

RefuseKey(b, k) ==
  /\ ~dropped
  /\ phase[b] = "call"
  /\ k \in todo[b]
  /\ todo' = [todo EXCEPT ![b] = @ \ {k}]
  /\ refused' = [refused EXCEPT ![b] = @ \cup {k}]
  /\ Fault
  /\ UNCHANGED <<stored, batches, phase, attempt, sent, late, counters, dropped, gone>>

(* Mutant of Answered: the errors in the answer are not subtracted.        *)
AnsweredOk(b) ==
  /\ ~dropped
  /\ phase[b] = "call"
  /\ todo[b] = {}
  /\ Goto(b, "done")
  /\ success' = success + Cardinality(b)
  /\ UNCHANGED <<stored, batches, attempt, todo, refused, sent, late, errors, throttled,
                 dropped, faults, gone>>

(* The answer, with the errors of single keys, some of them of throttling. *)
Answered(b) ==
  /\ ~dropped
  /\ phase[b] = "call"
  /\ todo[b] = {}
  /\ Goto(b, "done")
  /\ success' = success + (Cardinality(b) - Cardinality(refused[b]))
  /\ errors' = errors + Cardinality(refused[b])
  /\ \E n \in 0..Cardinality(refused[b]) : throttled' = throttled + n
  /\ UNCHANGED <<stored, batches, attempt, todo, refused, sent, late, dropped, faults, gone>>

(* Mutant of LastAttempt: one attempt too many.                            *)
LastAttemptExclusive(b) == attempt[b] > MaxAttempts

LastAttempt(b) == attempt[b] >= MaxAttempts

(* A retryable error of the call as a whole.  S3 may have come to any      *)
(* number of its keys, and may yet come to the others.  After the last     *)
(* attempt all keys of the batch are errors.                               *)
Unanswered(b) ==
  /\ ~dropped
  /\ phase[b] = "call"
  /\ Fault
  /\ late' = late \cup todo[b]
  /\ \/ /\ ~LastAttempt(b)
        /\ Goto(b, "wait")
        /\ UNCHANGED counters
     \/ /\ LastAttempt(b)
        /\ Goto(b, "done")
        /\ errors' = errors + Cardinality(b)
        /\ throttled' = throttled + Cardinality(b)
        /\ UNCHANGED success
  /\ UNCHANGED <<stored, batches, attempt, todo, refused, sent, dropped, gone>>

(* Mutant of Rejected: the keys count as errors, and then the fallback     *)
(* counts them again.                                                      *)
RejectedCounted(b) ==
  /\ ~dropped
  /\ phase[b] = "call"
  /\ todo[b] \in {b, {}}
  /\ Fault
  /\ Goto(b, "single")
  /\ todo' = [todo EXCEPT ![b] = b]
  /\ refused' = [refused EXCEPT ![b] = {}]
  /\ errors' = errors + Cardinality(b)
  /\ UNCHANGED <<stored, batches, attempt, sent, late, success, throttled, dropped, gone>>

(* A fatal error: S3 does not accept the call and has deleted nothing, or  *)
(* it has come to every key and the client cannot read its answer.  The    *)
(* fallback starts from the whole batch.                                   *)
Rejected(b) ==
  /\ ~dropped
  /\ phase[b] = "call"
  /\ todo[b] \in {b, {}}
  /\ Fault
  /\ Goto(b, "single")
  /\ todo' = [todo EXCEPT ![b] = b]
  /\ refused' = [refused EXCEPT ![b] = {}]
  /\ UNCHANGED <<stored, batches, attempt, sent, late, counters, dropped, gone>>

(* The fallback: a DELETE for each key, some at a time, tried once.        *)
SendOne(b, k) ==
  /\ ~dropped
  /\ phase[b] = "single"
  /\ k \in todo[b]
  /\ Cardinality(sent \cap b) < FallbackConcurrency
  /\ todo' = [todo EXCEPT ![b] = @ \ {k}]
  /\ sent' = sent \cup {k}
  /\ UNCHANGED <<stored, batches, phase, attempt, refused, late, counters, dropped, faults, gone>>

DeletedOne(k) ==
  /\ ~dropped
  /\ k \in sent
  /\ Erase(k)
  /\ sent' = sent \ {k}
  /\ success' = success + 1
  /\ UNCHANGED <<batches, phase, attempt, todo, refused, late, errors, throttled, dropped, faults>>

(* An error, whether S3 has deleted the key, will delete it or will not.   *)
FailedOne(k) ==
  /\ ~dropped
  /\ k \in sent
  /\ Fault
  /\ sent' = sent \ {k}
  /\ late' = late \cup {k}
  /\ errors' = errors + 1
  /\ UNCHANGED <<stored, batches, phase, attempt, todo, refused, success, throttled, dropped, gone>>

(* Mutant of FallbackEnds: the batch ends with its last DELETE sent.       *)
FallbackEndsEarly(b) ==
  /\ ~dropped
  /\ phase[b] = "single"
  /\ todo[b] = {}
  /\ Goto(b, "done")
  /\ UNCHANGED <<stored, batches, attempt, todo, refused, sent, late, counters, dropped, faults, gone>>

FallbackEnds(b) ==
  /\ ~dropped
  /\ phase[b] = "single"
  /\ todo[b] \cup (sent \cap b) = {}
  /\ Goto(b, "done")
  /\ UNCHANGED <<stored, batches, attempt, todo, refused, sent, late, counters, dropped, faults, gone>>

(* The lock is lost: select! drops the future.  The requests that are on   *)
(* their way are not taken back.                                           *)
Drop ==
  /\ ~dropped
  /\ ~Returned
  /\ dropped' = TRUE
  /\ late' = late \cup sent \cup UNION {todo[b] : b \in {b \in batches : phase[b] = "call"}}
  /\ UNCHANGED <<stored, batchVars, counters, faults, gone>>

(* A request that nobody waits for comes to a key, or never does.          *)
DeleteLate(k) ==
  /\ k \in late
  /\ Erase(k)
  /\ late' = late \ {k}
  /\ UNCHANGED <<batchVars, counters, dropped, faults>>

NeverDeleted(k) ==
  /\ k \in late
  /\ late' = late \ {k}
  /\ UNCHANGED <<stored, batchVars, counters, dropped, faults, gone>>

(* A backup uploads the blob again.                                        *)
Upload(k) ==
  /\ k \in MayUpload \ stored
  /\ stored' = stored \cup {k}
  /\ UNCHANGED <<batchVars, late, counters, dropped, faults, gone>>

Step ==
  \/ \E b \in batches :
       \/ Begin(b) \/ Retry(b) \/ Answered(b) \/ FallbackEnds(b)
       \/ \E k \in Keys : DeleteKey(b, k) \/ SendOne(b, k)
  \/ \E k \in Keys : DeletedOne(k)

Fails ==
  \/ \E b \in batches :
       Unanswered(b) \/ Rejected(b) \/ \E k \in Keys : RefuseKey(b, k)
  \/ \E k \in Keys : FailedOne(k)

Next ==
  \/ Step \/ Fails \/ Drop
  \/ \E k \in Keys : DeleteLate(k) \/ NeverDeleted(k) \/ Upload(k)

Spec == Init /\ [][Next]_vars

(* The future is polled, and S3 answers.                                   *)
FairSpec == Spec /\ WF_vars(Step)

-----------------------------------------------------------------------------
Types ==
  /\ stored \subseteq Keys
  /\ batches \subseteq SUBSET Keys
  /\ phase \in [batches -> Phase]
  /\ attempt \in [batches -> 0..MaxAttempts]
  /\ todo \in [batches -> SUBSET Keys]
  /\ refused \in [batches -> SUBSET Keys]
  /\ sent \subseteq Keys
  /\ late \subseteq Keys
  /\ success \in Nat /\ errors \in Nat /\ throttled \in Nat
  /\ dropped \in BOOLEAN
  /\ faults \in 0..MaxFaults
  /\ gone \subseteq Keys

Limits ==
  /\ Cardinality({b \in batches : AtWork(b)}) <= Concurrency
  /\ \A b \in batches : Cardinality(sent \cap b) <= FallbackConcurrency

(* Every variable holds a value of its type, with the attempts of a call   *)
(* in their bound, and the limits on the batches at work and on the        *)
(* DELETEs of a batch under way are kept (delete_objects_bulk).            *)
TypeOK == Types /\ Limits

(* The keys that have been counted: those of a batch that is done, and     *)
(* those whose own DELETE was answered.                                    *)
Counted ==
  {k \in Keys : \E b \in batches :
     /\ k \in b
     /\ phase[b] = "done" \/ (phase[b] = "single" /\ k \notin todo[b] \cup sent)}

(* Each key is counted once, as deleted or as an error, whatever attempts, *)
(* partial answers and fallbacks it has gone through, so that at the end   *)
(* the two numbers add up to the keys (delete_objects_bulk); throttled     *)
(* counts errors only.                                                     *)
CountsAddUp ==
  /\ success + errors = Cardinality(Counted)
  /\ Returned => Counted = Keys
  /\ throttled <= errors

(* What is reported as deleted was deleted: at most as many keys as there  *)
(* are errors have stayed in the bucket all along.                         *)
ErrorsCoverWhatStays == Cardinality(Counted \ gone) <= errors

(* When the lock is lost and no call has failed, S3 may still delete keys  *)
(* of as many batches as are at work at a time, and no others              *)
(* (with_gc_lock's select, buffer_unordered in delete_objects_bulk).       *)
DropLeavesFew ==
  dropped /\ faults = 0 =>
    \E B \in SUBSET batches : Cardinality(B) <= Concurrency /\ late \subseteq UNION B

(* A call of delete_objects_bulk deletes none but its keys, and none after *)
(* the last request for it was answered or, if an answer did not come,     *)
(* took effect (Gc's doomed).                                              *)
Undecided == {k \in Keys \ Counted : ~dropped}
Promise == INSTANCE Deletion WITH doomed <- Undecided \cup late
ImplementsDeletion == Promise!Spec

(* The call returns, whichever requests fail (finitely many: MaxFaults),   *)
(* unless the lock is lost.                                                *)
BulkEnds == <>(Returned \/ dropped)
=============================================================================
