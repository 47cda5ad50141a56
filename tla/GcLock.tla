------------------------------- MODULE GcLock -------------------------------
(***************************************************************************)
(* The lock that serializes collection runs (gc/lock.rs, and with_gc_lock  *)
(* in gc.rs): one S3 object, created with If-None-Match, refreshed with    *)
(* If-Match by a heartbeat task, broken by whoever reads it expired.       *)
(*                                                                         *)
(* The lock object is its content, the owner and the time acquired_at; so  *)
(* is its ETag, which S3 computes from the content.  Each action is one S3 *)
(* call, applied at once; what a run does with the answer is an action of  *)
(* its own where others can get in between.                                *)
(***************************************************************************)
EXTENDS Integers

CONSTANTS
  Procs,        \* collection runs, each with the UUID of its own instance_id
  None,         \* no lock object; no answer yet
  TTL,          \* TTL_SECS
  Heartbeat,    \* HEARTBEAT_SECS
  MaxAttempts,  \* attempts of acquire_with_retry
  Backoff,      \* Backoff[n]: the delay after attempt n found the lock held
  ErrorDelay,   \* the delay after an attempt that failed
  Latency,      \* timing assumption: from an answer to the use made of it
  MaxTime,      \* bound: the clock stops here
  MaxFaults     \* bound: calls that fail, and crashes

ASSUME NoneAssumption == None \notin [owner : Procs, at : Int]
ASSUME TimesAssumption ==
  /\ TTL \in Nat /\ Heartbeat \in Nat /\ Latency \in Nat /\ ErrorDelay \in Nat
  /\ MaxTime \in Nat /\ MaxFaults \in Nat /\ MaxAttempts \in Nat \ {0}
ASSUME BackoffAssumption == Backoff \in [1..MaxAttempts -> Nat]

(* A lock that is refreshed on time and read or released without delay is  *)
(* never as old as the TTL.                                                *)
ASSUME TTLCoversHeartbeat == Heartbeat + 2 * Latency <= TTL

VARIABLES
  now,          \* seconds since the epoch, the same on every host
  lock,         \* the object at LOCK_KEY
  pc,           \* pc[p]: where run p is
  attempt,      \* attempt[p]: number of the attempt at acquire
  seen,         \* seen[p]: the LockInfo that p's GET returned
  etag,         \* etag[p]: the heartbeat task's ETag
  beatAt,       \* beatAt[p]: when the heartbeat refreshes, or the retry starts
  heldUp,       \* heldUp[p]: since when p is between an answer and its use
  lost,         \* lost[p]: the lock_lost token is cancelled
  faults,       \* how many faults there have been
  since,        \* history: when the object was last created
  slack,        \* history: slack[p]: the time p's failed refreshes have cost
  contested     \* history: the runs that met another live run as they acquired

lockVars == <<lock, etag>>
historyVars == <<since, slack, contested>>
vars == <<now, lock, pc, attempt, seen, etag, beatAt, heldUp, lost, faults,
          historyVars>>

LockInfo == [owner : Procs, at : 0..MaxTime]

Pc == {"idle", "put", "get", "check", "break", "reput", "wait", "work",
       "delete", "release", "unlock", "done", "gaveup", "crashed"}

Init ==
  /\ now = 0
  /\ lock = None
  /\ pc = [p \in Procs |-> "idle"]
  /\ attempt = [p \in Procs |-> 0]
  /\ seen = [p \in Procs |-> None]
  /\ etag = [p \in Procs |-> None]
  /\ beatAt = [p \in Procs |-> 0]
  /\ heldUp = [p \in Procs |-> 0]
  /\ lost = [p \in Procs |-> FALSE]
  /\ faults = 0
  /\ since = 0
  /\ slack = [p \in Procs |-> 0]
  /\ contested = {}

Info(p) == [owner |-> p, at |-> now]

Working(p) == pc[p] \in {"work", "delete"}

Goto(p, l) == pc' = [pc EXCEPT ![p] = l]

Fault == faults < MaxFaults /\ faults' = faults + 1

-----------------------------------------------------------------------------
(* with_gc_lock begins: the first attempt of acquire_with_retry.           *)
Start(p) ==
  /\ pc[p] = "idle"
  /\ Goto(p, "put")
  /\ attempt' = [attempt EXCEPT ![p] = 1]
  /\ UNCHANGED <<now, lock, seen, etag, beatAt, heldUp, lost, faults>>

(* Mutant of NextAttempt: one attempt too many.                            *)
NextAttemptInclusive(p, delay) ==
  IF attempt[p] <= MaxAttempts
  THEN /\ Goto(p, "wait")
       /\ beatAt' = [beatAt EXCEPT ![p] = now + delay]
  ELSE /\ Goto(p, "gaveup")
       /\ UNCHANGED beatAt

(* The attempt ends without the lock: another one after the delay, or none.*)
NextAttempt(p, delay) ==
  IF attempt[p] < MaxAttempts
  THEN /\ Goto(p, "wait")
       /\ beatAt' = [beatAt EXCEPT ![p] = now + delay]
  ELSE /\ Goto(p, "gaveup")
       /\ UNCHANGED beatAt

Held(p) == NextAttempt(p, Backoff[attempt[p]])

(* try_put creates the object: the run has the lock, and the heartbeat     *)
(* task starts to sleep.                                                   *)
PutCreates(p) ==
  /\ pc[p] \in {"put", "reput"}
  /\ lock = None
  /\ lock' = Info(p)
  /\ etag' = [etag EXCEPT ![p] = Info(p)]
  /\ beatAt' = [beatAt EXCEPT ![p] = now + Heartbeat]
  /\ Goto(p, "work")
  /\ UNCHANGED <<now, attempt, seen, heldUp, lost, faults>>

(* try_put meets an object.  The first time p goes on to read it; after a  *)
(* break, or when the object had disappeared, it gives the attempt up.     *)
PutConflicts(p) ==
  /\ lock # None
  /\ \/ /\ pc[p] = "put"
        /\ Goto(p, "get")
        /\ UNCHANGED beatAt
     \/ /\ pc[p] = "reput"
        /\ Held(p)
  /\ UNCHANGED <<now, lock, attempt, seen, etag, heldUp, lost, faults>>

(* try_put fails, having created the object or not.                        *)
PutFails(p) ==
  /\ pc[p] \in {"put", "reput"}
  /\ \/ UNCHANGED lock
     \/ lock = None /\ lock' = Info(p)
  /\ NextAttempt(p, ErrorDelay)
  /\ Fault
  /\ UNCHANGED <<now, attempt, seen, etag, heldUp, lost>>

(* GET of the object that was in the way.                                  *)
Get(p) ==
  /\ pc[p] = "get"
  /\ lock # None
  /\ seen' = [seen EXCEPT ![p] = lock]
  /\ heldUp' = [heldUp EXCEPT ![p] = now]
  /\ Goto(p, "check")
  /\ UNCHANGED <<now, lock, attempt, etag, beatAt, lost, faults>>

(* It has disappeared: try_put once more.                                  *)
GetNothing(p) ==
  /\ pc[p] = "get"
  /\ lock = None
  /\ Goto(p, "reput")
  /\ UNCHANGED <<now, lock, attempt, seen, etag, beatAt, heldUp, lost, faults>>

(* So too when the GET itself fails.                                       *)
GetFails(p) ==
  /\ pc[p] = "get"
  /\ Goto(p, "reput")
  /\ Fault
  /\ UNCHANGED <<now, lock, attempt, seen, etag, beatAt, heldUp, lost>>

IsExpired(info) == now > info.at + TTL

(* Mutant of Check: an expired object is never broken.                     *)
CheckNeverBreaks(p) ==
  /\ pc[p] = "check"
  /\ Held(p)
  /\ seen' = [seen EXCEPT ![p] = None]
  /\ UNCHANGED <<now, lock, attempt, etag, heldUp, lost, faults>>

(* The object as p read it is expired, or not.                             *)
Check(p) ==
  /\ pc[p] = "check"
  /\ \/ /\ IsExpired(seen[p])
        /\ Goto(p, "break")
        /\ UNCHANGED beatAt
     \/ /\ ~IsExpired(seen[p])
        /\ Held(p)
  /\ seen' = [seen EXCEPT ![p] = None]
  /\ UNCHANGED <<now, lock, attempt, etag, heldUp, lost, faults>>

(* break_stale's DELETE, of whatever object is there by now.  Its error is *)
(* ignored.                                                                *)
Break(p) ==
  /\ pc[p] = "break"
  /\ lock' = None
  /\ Goto(p, "reput")
  /\ UNCHANGED <<now, attempt, seen, etag, beatAt, heldUp, lost, faults>>

BreakFails(p) ==
  /\ pc[p] = "break"
  /\ Goto(p, "reput")
  /\ Fault
  /\ UNCHANGED <<now, lock, attempt, seen, etag, beatAt, heldUp, lost>>

(* The delay is over: the next attempt.                                    *)
Retry(p) ==
  /\ pc[p] = "wait"
  /\ now >= beatAt[p]
  /\ Goto(p, "put")
  /\ attempt' = [attempt EXCEPT ![p] = @ + 1]
  /\ UNCHANGED <<now, lock, seen, etag, beatAt, heldUp, lost, faults>>

-----------------------------------------------------------------------------
(* The heartbeat's sleep is over: refresh, a PUT with If-Match.            *)
BeatDue(p) == Working(p) /\ ~lost[p] /\ now >= beatAt[p]

SleepAgain(p) == beatAt' = [beatAt EXCEPT ![p] = now + Heartbeat]

(* Mutant of Refresh: it puts the object with its old acquired_at.         *)
RefreshOldTime(p) ==
  /\ BeatDue(p)
  /\ lock = etag[p]
  /\ SleepAgain(p)
  /\ UNCHANGED <<now, lockVars, pc, attempt, seen, heldUp, lost, faults>>

Refresh(p) ==
  /\ BeatDue(p)
  /\ lock = etag[p]
  /\ lock' = Info(p)
  /\ etag' = [etag EXCEPT ![p] = Info(p)]
  /\ SleepAgain(p)
  /\ UNCHANGED <<now, pc, attempt, seen, heldUp, lost, faults>>

(* Mutant of RefreshConflicts: the conflict is only warned about.          *)
RefreshConflictIgnored(p) ==
  /\ BeatDue(p)
  /\ lock \notin {None, etag[p]}
  /\ SleepAgain(p)
  /\ UNCHANGED <<now, lockVars, pc, attempt, seen, heldUp, lost, faults>>

(* 412: another object is there.                                           *)
RefreshConflicts(p) ==
  /\ BeatDue(p)
  /\ lock \notin {None, etag[p]}
  /\ lost' = [lost EXCEPT ![p] = TRUE]
  /\ UNCHANGED <<now, lockVars, pc, attempt, seen, beatAt, heldUp, faults>>

(* 404: no object is there.  An error like any other: a warning.           *)
RefreshNothing(p) ==
  /\ BeatDue(p)
  /\ lock = None
  /\ SleepAgain(p)
  /\ UNCHANGED <<now, lockVars, pc, attempt, seen, heldUp, lost, faults>>

(* The call fails, having replaced the object or not; the ETag stays.      *)
RefreshFails(p) ==
  /\ BeatDue(p)
  /\ \/ UNCHANGED lock
     \/ lock = etag[p] /\ lock' = Info(p)
  /\ SleepAgain(p)
  /\ Fault
  /\ UNCHANGED <<now, pc, attempt, seen, etag, heldUp, lost>>

-----------------------------------------------------------------------------
(* The work: bail_if_lock_lost, then a destructive call, again and again.  *)
BeginDelete(p) ==
  /\ pc[p] = "work"
  /\ ~lost[p]
  /\ Goto(p, "delete")
  /\ UNCHANGED <<now, lockVars, attempt, seen, beatAt, heldUp, lost, faults>>

EndDelete(p) ==
  /\ pc[p] = "delete"
  /\ Goto(p, "work")
  /\ UNCHANGED <<now, lockVars, attempt, seen, beatAt, heldUp, lost, faults>>

(* select! sees the token: the work is dropped where it is, and the lock,  *)
(* being lost, is not released.                                            *)
AbandonWork(p) ==
  /\ Working(p)
  /\ lost[p]
  /\ Goto(p, "done")
  /\ UNCHANGED <<now, lockVars, attempt, seen, beatAt, heldUp, lost, faults>>

(* The work returns and the heartbeat has stopped: release.                *)
Finish(p) ==
  /\ pc[p] = "work"
  /\ ~lost[p]
  /\ heldUp' = [heldUp EXCEPT ![p] = now]
  /\ Goto(p, "release")
  /\ UNCHANGED <<now, lockVars, attempt, seen, beatAt, lost, faults>>

(* release reads the object: another's is left alone.                      *)
ReleaseGet(p) ==
  /\ pc[p] = "release"
  /\ IF lock # None /\ lock.owner # p THEN Goto(p, "done") ELSE Goto(p, "unlock")
  /\ UNCHANGED <<now, lockVars, attempt, seen, beatAt, heldUp, lost, faults>>

(* When the GET fails the object is deleted unread.                        *)
ReleaseGetFails(p) ==
  /\ pc[p] = "release"
  /\ Goto(p, "unlock")
  /\ Fault
  /\ UNCHANGED <<now, lockVars, attempt, seen, beatAt, heldUp, lost>>

Unlock(p) ==
  /\ pc[p] = "unlock"
  /\ lock' = None
  /\ Goto(p, "done")
  /\ UNCHANGED <<now, attempt, seen, etag, beatAt, heldUp, lost, faults>>

UnlockFails(p) ==
  /\ pc[p] = "unlock"
  /\ Goto(p, "done")
  /\ Fault
  /\ UNCHANGED <<now, lockVars, attempt, seen, beatAt, heldUp, lost>>

Crash(p) ==
  /\ pc[p] \notin {"idle", "done", "gaveup", "crashed"}
  /\ Goto(p, "crashed")
  /\ Fault
  /\ UNCHANGED <<now, lockVars, attempt, seen, beatAt, heldUp, lost>>
-----------------------------------------------------------------------------
(* Time passes.  A heartbeat that is due is not put off, a run whose lock  *)
(* is lost stops at once, and Latency bounds the exchanges that it is      *)
(* meant for; all else may take any time.                                  *)
Tick ==
  /\ now < MaxTime
  /\ \A p \in Procs :
       /\ Working(p) => ~lost[p] /\ now < beatAt[p]
       /\ pc[p] \in {"check", "release", "unlock"} => now < heldUp[p] + Latency
  /\ now' = now + 1
  /\ UNCHANGED <<lockVars, pc, attempt, seen, beatAt, heldUp, lost, faults>>

Acquire(p) ==
  \/ Start(p) \/ PutCreates(p) \/ PutConflicts(p) \/ PutFails(p)
  \/ Get(p) \/ GetNothing(p) \/ GetFails(p) \/ Check(p)
  \/ Break(p) \/ BreakFails(p) \/ Retry(p)

Beat(p) == Refresh(p) \/ RefreshConflicts(p) \/ RefreshNothing(p)

Work(p) ==
  \/ BeginDelete(p) \/ EndDelete(p) \/ AbandonWork(p) \/ Finish(p)
  \/ ReleaseGet(p) \/ ReleaseGetFails(p) \/ Unlock(p) \/ UnlockFails(p)

Acquiring(p) == pc[p] \in {"put", "get", "check", "break", "reput", "wait"}
Alive(p) == Acquiring(p) \/ Working(p) \/ pc[p] \in {"release", "unlock"}

(* The history variables follow whatever step is taken.                    *)
History ==
  /\ since' = IF lock = None /\ lock' # None THEN now ELSE since
  /\ contested' = contested \cup
       {p \in Procs : Acquiring(p)' /\ \E q \in Procs \ {p} : Alive(q)'}

Next ==
  /\ \/ /\ \/ Tick
           \/ \E p \in Procs : Acquire(p) \/ Beat(p) \/ Work(p) \/ Crash(p)
        /\ UNCHANGED slack
     \/ \E p \in Procs :
          /\ RefreshFails(p)
          /\ slack' = [slack EXCEPT ![p] = @ + Heartbeat]
  /\ History

Spec == Init /\ [][Next]_vars

-----------------------------------------------------------------------------
(* Every variable holds a value of its type.                               *)
TypeOK ==
  /\ now \in 0..MaxTime
  /\ lock \in LockInfo \cup {None}
  /\ pc \in [Procs -> Pc]
  /\ attempt \in [Procs -> 0..MaxAttempts]
  /\ seen \in [Procs -> LockInfo \cup {None}]
  /\ etag \in [Procs -> LockInfo \cup {None}]
  /\ beatAt \in [Procs -> Nat]
  /\ heldUp \in [Procs -> 0..MaxTime]
  /\ lost \in [Procs -> BOOLEAN]
  /\ faults \in 0..MaxFaults
  /\ since \in 0..MaxTime
  /\ slack \in [Procs -> Nat]
  /\ contested \subseteq Procs

(* lock.rs:3 and gc.rs:8-10: the lock prevents two concurrent runs from    *)
(* racing deletes.  It does not: of two runs that read the same expired    *)
(* object, the second to break it deletes the lock the first has created.  *)
MutualExclusion ==
  \A p, q \in Procs : Working(p) /\ Working(q) => p = q

(* While no call fails and no run crashes the lock excludes.  The          *)
(* heartbeat keeps an object that is read from being judged expired, and   *)
(* release has its own object to delete: this needs Heartbeat well below   *)
(* the TTL (spawn_heartbeat, is_expired, release).                         *)
MutexWithoutFaults == faults = 0 => MutualExclusion

(* Whatever fails, and whoever broke or took the lock, a run goes on       *)
(* working beside another's lock object for at most one heartbeat after    *)
(* that object was created, and one more for each refresh of its own that  *)
(* failed (spawn_heartbeat, bail_if_lock_lost, with_gc_lock's select).     *)
TheftNoticedInTime ==
  \A p \in Procs :
    Working(p) /\ lock # None /\ lock.owner # p
      => now <= since + Heartbeat + slack[p]

(* The delays suffice for MaxFaults faults.  At attempt M[k] at the latest *)
(* a run that knows of k faults finds the object expired that was in its   *)
(* way after the last of them.  W[n] is the time that the first n - 1      *)
(* delays take; the one after the attempt that failed does not count, for  *)
(* it is ErrorDelay.                                                       *)
Schedule(W, M) ==
  /\ W \in [1..MaxAttempts -> Nat]
  /\ \A m, n \in 1..MaxAttempts : m <= n => W[m] <= W[n]
  /\ \A n \in 1..MaxAttempts : n < MaxAttempts => W[n + 1] <= W[n] + Backoff[n]
  /\ M \in [0..MaxFaults -> 1..MaxAttempts]
  /\ \A k \in 0..MaxFaults :
       k < MaxFaults => M[k] < MaxAttempts /\ W[M[k + 1]] > W[M[k] + 1] + TTL

DelaysCover == \E W, M : Schedule(W, M)

(* A run that is the only one alive never gives the lock up, whatever      *)
(* objects crashed runs, or its own failed calls, left behind: the delays  *)
(* of acquire_with_retry add up to more than the TTL, after a fault too    *)
(* (DelaysCover).                                                          *)
LoneRunNeverGivesUp ==
  \A p \in Procs : pc[p] = "gaveup" => p \in contested
=============================================================================
