--------------------------- MODULE GcLock_proofs ---------------------------
(***************************************************************************)
(* Proofs about GcLock for any set of runs and any timing that satisfies   *)
(* the module's assumptions: the types, mutual exclusion while nothing     *)
(* fails, and the bound on how long a theft of the lock goes unnoticed.    *)
(***************************************************************************)
EXTENDS GcLock, TLAPS

(* Every step is an action of one run, or a tick, with what it does to the *)
(* history variables.  Refresh failures are the only steps that cost slack.*)
LEMMA StepCases ==
  ASSUME Next
  PROVE  /\ History
         /\ \/ /\ Tick \/ \E p \in Procs : Acquire(p) \/ Beat(p) \/ Work(p) \/ Crash(p)
               /\ UNCHANGED slack
            \/ \E p \in Procs :
                 RefreshFails(p) /\ slack' = [slack EXCEPT ![p] = @ + Heartbeat]
  BY DEF Next

-----------------------------------------------------------------------------
(* Backoff is read for a run that has an attempt under way.                *)
AttemptOK ==
  \A p \in Procs :
    /\ pc[p] # "idle" => attempt[p] \in 1..MaxAttempts
    /\ pc[p] = "wait" => attempt[p] < MaxAttempts

TypeInv == TypeOK /\ AttemptOK

LEMMA TypeInit == Init => TypeInv
  BY TimesAssumption DEF Init, TypeInv, TypeOK, AttemptOK, Pc

LEMMA InfoType ==
  ASSUME TypeOK, NEW p \in Procs
  PROVE  Info(p) \in LockInfo /\ Info(p) # None /\ Info(p).owner = p /\ Info(p).at = now
  BY NoneAssumption DEF Info, LockInfo, TypeOK

(* NextAttempt keeps pc, beatAt and the bound on attempts in their types.  *)
LEMMA NextAttemptType ==
  ASSUME TypeInv, NEW p \in Procs, NEW delay \in Nat, NextAttempt(p, delay)
  PROVE  /\ pc' \in [Procs -> Pc]
         /\ beatAt' \in [Procs -> Nat]
         /\ pc' = [pc EXCEPT ![p] = pc'[p]]
         /\ pc'[p] \in {"wait", "gaveup"}
         /\ pc'[p] = "wait" => attempt[p] < MaxAttempts
  BY TimesAssumption DEF TypeInv, TypeOK, NextAttempt, Goto, Pc

LEMMA HeldType ==
  ASSUME TypeInv, NEW p \in Procs, pc[p] # "idle", Held(p)
  PROVE  /\ pc' \in [Procs -> Pc]
         /\ beatAt' \in [Procs -> Nat]
         /\ pc' = [pc EXCEPT ![p] = pc'[p]]
         /\ pc'[p] \in {"wait", "gaveup"}
         /\ pc'[p] = "wait" => attempt[p] < MaxAttempts
  <1>1. Backoff[attempt[p]] \in Nat
    BY BackoffAssumption DEF TypeInv, AttemptOK
  <1> QED
    BY <1>1, NextAttemptType DEF Held

LEMMA HistoryType ==
  ASSUME TypeOK, History
  PROVE  since' \in 0..MaxTime /\ contested' \subseteq Procs
  BY DEF TypeOK, History

(* What remains of the types beside the history variables.                 *)
LEMMA TypeStep == TypeInv /\ [Next]_vars => TypeInv'
<1> SUFFICES ASSUME TypeInv, Next PROVE TypeInv'
  BY DEF TypeInv, TypeOK, AttemptOK, vars, historyVars
<1> USE TimesAssumption DEF TypeInv, TypeOK, AttemptOK, Goto, Fault, lockVars, Pc
<1>h. since' \in 0..MaxTime /\ contested' \subseteq Procs
  BY HistoryType, StepCases
<1>1. CASE Tick /\ UNCHANGED slack
  BY <1>1, <1>h DEF Tick
<1>2. ASSUME NEW p \in Procs, Acquire(p), UNCHANGED slack PROVE TypeInv'
  <2> USE <1>2, <1>h, InfoType
  <2>1. CASE Start(p) BY <2>1 DEF Start
  <2>2. CASE PutCreates(p) BY <2>2 DEF PutCreates
  <2>3. CASE PutConflicts(p)
    <3>1. CASE pc[p] = "put" BY <2>3, <3>1 DEF PutConflicts
    <3>2. CASE pc[p] = "reput" BY <2>3, <3>2, HeldType DEF PutConflicts
    <3> QED BY <2>3, <3>1, <3>2 DEF PutConflicts
  <2>4. CASE PutFails(p) BY <2>4, NextAttemptType DEF PutFails
  <2>5. CASE Get(p) BY <2>5 DEF Get
  <2>6. CASE GetNothing(p) BY <2>6 DEF GetNothing
  <2>7. CASE GetFails(p) BY <2>7 DEF GetFails
  <2>8. CASE Check(p)
    <3>1. CASE IsExpired(seen[p]) BY <2>8, <3>1 DEF Check
    <3>2. CASE ~IsExpired(seen[p]) BY <2>8, <3>2, HeldType DEF Check
    <3> QED BY <3>1, <3>2
  <2>9. CASE Break(p) BY <2>9 DEF Break
  <2>10. CASE BreakFails(p) BY <2>10 DEF BreakFails
  <2>11. CASE Retry(p) BY <2>11 DEF Retry
  <2> QED
    BY <2>1, <2>2, <2>3, <2>4, <2>5, <2>6, <2>7, <2>8, <2>9, <2>10, <2>11 DEF Acquire
<1>3. ASSUME NEW p \in Procs, Beat(p), UNCHANGED slack PROVE TypeInv'
  <2> USE <1>3, <1>h, InfoType DEF SleepAgain
  <2>1. CASE Refresh(p) BY <2>1 DEF Refresh
  <2>2. CASE RefreshConflicts(p) BY <2>2 DEF RefreshConflicts
  <2>3. CASE RefreshNothing(p) BY <2>3 DEF RefreshNothing
  <2> QED BY <2>1, <2>2, <2>3 DEF Beat
<1>4. ASSUME NEW p \in Procs, RefreshFails(p),
             slack' = [slack EXCEPT ![p] = @ + Heartbeat]
      PROVE TypeInv'
  BY <1>4, <1>h, InfoType DEF RefreshFails, SleepAgain
<1>5. ASSUME NEW p \in Procs, Work(p), UNCHANGED slack PROVE TypeInv'
  <2> USE <1>5, <1>h
  <2>1. CASE BeginDelete(p) BY <2>1 DEF BeginDelete
  <2>2. CASE EndDelete(p) BY <2>2 DEF EndDelete
  <2>3. CASE AbandonWork(p) BY <2>3 DEF AbandonWork, Working
  <2>4. CASE Finish(p) BY <2>4 DEF Finish
  <2>5. CASE ReleaseGet(p) BY <2>5 DEF ReleaseGet
  <2>6. CASE ReleaseGetFails(p) BY <2>6 DEF ReleaseGetFails
  <2>7. CASE Unlock(p) BY <2>7 DEF Unlock
  <2>8. CASE UnlockFails(p) BY <2>8 DEF UnlockFails
  <2> QED BY <2>1, <2>2, <2>3, <2>4, <2>5, <2>6, <2>7, <2>8 DEF Work
<1>6. ASSUME NEW p \in Procs, Crash(p), UNCHANGED slack PROVE TypeInv'
  BY <1>6, <1>h DEF Crash
<1> QED
  BY <1>1, <1>2, <1>3, <1>4, <1>5, <1>6, StepCases

(* Every variable keeps its type: the attempts stay within the budget of   *)
(* acquire_with_retry, and the times within the clock's range.             *)
THEOREM LockTypeCorrect == Spec => []TypeOK
<1>1. Spec => []TypeInv
  BY TypeInit, TypeStep, PTL DEF Spec
<1> QED
  BY <1>1, PTL DEF TypeInv

-----------------------------------------------------------------------------
(* A run that holds the lock: it works, or it is about to release.         *)
Holding(p) == Working(p) \/ pc[p] \in {"release", "unlock"}

(* Without faults the object in the bucket is its holder's, with the ETag  *)
(* the holder knows, and only a holder has an object there.                *)
LockIsHolders ==
  /\ \A p \in Procs : Holding(p) => lock # None /\ lock.owner = p /\ lock = etag[p]
  /\ lock # None => Holding(lock.owner)

(* The object is never older than a heartbeat and what release may take.   *)
LockIsFresh ==
  \A p \in Procs :
    /\ Working(p) => beatAt[p] = lock.at + Heartbeat /\ now <= beatAt[p]
    /\ pc[p] \in {"release", "unlock"} =>
         now <= heldUp[p] + Latency /\ heldUp[p] <= lock.at + Heartbeat

(* What a run has read is young enough not to be judged expired.           *)
SeenIsFresh ==
  \A p \in Procs : pc[p] = "check" =>
    /\ seen[p] # None
    /\ now <= heldUp[p] + Latency
    /\ heldUp[p] <= seen[p].at + Heartbeat + Latency

(* So no run breaks the lock, and none loses it.                           *)
NoTheft == \A p \in Procs : pc[p] \notin {"break", "crashed"} /\ ~lost[p]

CalmInv == LockIsHolders /\ LockIsFresh /\ SeenIsFresh /\ NoTheft

LEMMA CalmInit == Init => CalmInv
  BY DEF Init, CalmInv, LockIsHolders, LockIsFresh, SeenIsFresh, NoTheft, Holding, Working

LEMMA CalmExcludes == CalmInv => MutualExclusion
  BY DEF CalmInv, LockIsHolders, Holding, MutualExclusion

(* Taking the lock: there was no object, so there is no holder.            *)
LEMMA CalmPutCreates ==
  ASSUME TypeInv, CalmInv, NEW p \in Procs, PutCreates(p)
  PROVE  CalmInv'
<1> USE TimesAssumption
<1>1. \A q \in Procs : ~Holding(q)
  BY DEF CalmInv, LockIsHolders, PutCreates
<1>2. /\ lock' # None /\ lock'.owner = p /\ lock'.at = now /\ lock' = etag'[p]
      /\ beatAt'[p] = now + Heartbeat
      /\ pc' = [pc EXCEPT ![p] = "work"]
      /\ UNCHANGED <<now, seen, heldUp, lost>>
  BY InfoType DEF PutCreates, Goto, TypeInv, TypeOK
<1>3. \A q \in Procs : Holding(q)' <=> q = p
  BY <1>1, <1>2 DEF Holding, Working, TypeInv, TypeOK
<1>4. LockIsHolders'
  BY <1>2, <1>3 DEF LockIsHolders
<1>5. LockIsFresh'
  BY <1>2, <1>3 DEF LockIsFresh, Holding, Working, TypeInv, TypeOK
<1>6. SeenIsFresh' /\ NoTheft'
  BY <1>2 DEF CalmInv, SeenIsFresh, NoTheft, TypeInv, TypeOK
<1> QED
  BY <1>4, <1>5, <1>6 DEF CalmInv

(* What a GET returns without faults is at most a heartbeat and a release  *)
(* old, so that the check that follows finds it valid.                     *)
LEMMA CalmGet ==
  ASSUME TypeInv, CalmInv, NEW p \in Procs, Get(p)
  PROVE  CalmInv'
<1> USE TimesAssumption
<1>1. lock # None /\ Holding(lock.owner) /\ lock.owner \in Procs /\ lock.at \in Nat
  BY DEF Get, CalmInv, LockIsHolders, TypeInv, TypeOK, LockInfo
<1>2. now <= lock.at + Heartbeat + Latency
  BY <1>1 DEF CalmInv, LockIsFresh, Holding, TypeInv, TypeOK
<1> QED
  BY <1>1, <1>2 DEF Get, Goto, CalmInv, LockIsHolders, LockIsFresh, SeenIsFresh,
       NoTheft, Holding, Working, TypeInv, TypeOK

(* The ETag that refresh sends matches, and the heartbeat starts afresh.   *)
LEMMA CalmRefresh ==
  ASSUME TypeInv, CalmInv, NEW p \in Procs, Refresh(p)
  PROVE  CalmInv'
<1> USE TimesAssumption
<1>1. Holding(p) /\ \A q \in Procs : Holding(q) => q = p
  BY DEF Refresh, BeatDue, Holding, CalmInv, LockIsHolders
<1>2. /\ lock' # None /\ lock'.owner = p /\ lock'.at = now /\ lock' = etag'[p]
      /\ beatAt'[p] = now + Heartbeat
      /\ UNCHANGED <<now, pc, seen, heldUp, lost>>
  BY InfoType DEF Refresh, SleepAgain, TypeInv, TypeOK
<1>3. LockIsHolders'
  BY <1>1, <1>2 DEF LockIsHolders, Holding, Working
<1>4. LockIsFresh'
  BY <1>1, <1>2 DEF LockIsFresh, Holding, Working, Refresh, BeatDue, TypeInv, TypeOK
<1>5. SeenIsFresh' /\ NoTheft'
  BY <1>2 DEF CalmInv, SeenIsFresh, NoTheft
<1> QED
  BY <1>3, <1>4, <1>5 DEF CalmInv

(* An attempt that ends without the lock changes pc and beatAt of a run    *)
(* that is no holder.                                                      *)
LEMMA CalmHeld ==
  ASSUME TypeInv, CalmInv, NEW p \in Procs, ~Holding(p), pc[p] # "idle", Held(p),
         UNCHANGED <<now, lock, etag, heldUp, lost>>,
         \A q \in Procs \ {p} : seen'[q] = seen[q]
  PROVE  CalmInv'
<1>1. /\ pc' = [pc EXCEPT ![p] = pc'[p]]
      /\ pc'[p] \in {"wait", "gaveup"}
  BY HeldType
<1>2. \A q \in Procs \ {p} : pc'[q] = pc[q] /\ beatAt'[q] = beatAt[q]
  BY <1>1 DEF Held, NextAttempt, TypeInv, TypeOK
<1> QED
  BY <1>1, <1>2 DEF CalmInv, LockIsHolders, LockIsFresh, SeenIsFresh, NoTheft,
       Holding, Working, TypeInv, TypeOK, LockInfo

LEMMA CalmStep ==
  ASSUME TypeInv, CalmInv, Next, faults' = 0
  PROVE  CalmInv'
<1> USE TimesAssumption
    DEF CalmInv, LockIsHolders, LockIsFresh, SeenIsFresh, NoTheft, Holding, Working,
        TypeInv, TypeOK, Goto, Fault, lockVars
<1>1. CASE Tick BY <1>1 DEF Tick
<1>2. ASSUME NEW p \in Procs, Acquire(p) PROVE CalmInv'
  <2> USE <1>2
  <2>1. CASE Start(p) BY <2>1 DEF Start
  <2>2. CASE PutCreates(p) BY <2>2, CalmPutCreates
  <2>3. CASE PutConflicts(p)
    <3>1. CASE pc[p] = "put" BY <2>3, <3>1 DEF PutConflicts, LockInfo
    <3>2. CASE pc[p] = "reput" BY <2>3, <3>2, CalmHeld DEF PutConflicts
    <3> QED BY <2>3, <3>1, <3>2 DEF PutConflicts
  <2>4. CASE Get(p) BY <2>4, CalmGet
  <2>5. CASE GetNothing(p) BY <2>5 DEF GetNothing
  <2>6. CASE Check(p)
    <3>1. ~IsExpired(seen[p])
      BY <2>6, TTLCoversHeartbeat DEF Check, IsExpired, LockInfo
    <3>2. \A q \in Procs \ {p} : seen'[q] = seen[q]
      BY <2>6 DEF Check
    <3> QED BY <2>6, <3>1, <3>2, CalmHeld DEF Check
  <2>7. CASE Retry(p) BY <2>7 DEF Retry
  <2>8. ~Break(p)
    BY DEF Break
  <2>9. ~PutFails(p) /\ ~GetFails(p) /\ ~BreakFails(p)
    BY DEF PutFails, GetFails, BreakFails
  <2> QED
    BY <2>1, <2>2, <2>3, <2>4, <2>5, <2>6, <2>7, <2>8, <2>9 DEF Acquire
<1>3. ASSUME NEW p \in Procs, Beat(p) PROVE CalmInv'
  <2>1. CASE Refresh(p) BY <2>1, CalmRefresh
  <2>2. ~RefreshConflicts(p) /\ ~RefreshNothing(p)
    BY DEF RefreshConflicts, RefreshNothing, BeatDue
  <2> QED BY <1>3, <2>1, <2>2 DEF Beat
<1>4. ASSUME NEW p \in Procs, Work(p) PROVE CalmInv'
  <2> USE <1>4
  <2>1. CASE BeginDelete(p) BY <2>1 DEF BeginDelete
  <2>2. CASE EndDelete(p) BY <2>2 DEF EndDelete
  <2>3. ~AbandonWork(p) BY DEF AbandonWork
  <2>4. CASE Finish(p) BY <2>4 DEF Finish
  <2>5. CASE ReleaseGet(p) BY <2>5 DEF ReleaseGet
  <2>6. CASE Unlock(p) BY <2>6 DEF Unlock
  <2>7. ~ReleaseGetFails(p) /\ ~UnlockFails(p)
    BY DEF ReleaseGetFails, UnlockFails
  <2> QED BY <2>1, <2>2, <2>3, <2>4, <2>5, <2>6, <2>7 DEF Work
<1>5. \A p \in Procs : ~Crash(p) /\ ~RefreshFails(p)
  BY DEF Crash, RefreshFails
<1> QED
  BY <1>1, <1>2, <1>3, <1>4, <1>5, StepCases

(* The number of faults never falls.                                       *)
LEMMA FaultsGrow ==
  ASSUME TypeInv, Next
  PROVE  faults' >= faults
  BY DEF Next, Tick, Acquire, Start, PutCreates, PutConflicts, PutFails, Get, GetNothing,
       GetFails, Check, Break, BreakFails, Retry, Beat, Refresh, RefreshConflicts,
       RefreshNothing, RefreshFails, Work, BeginDelete, EndDelete, AbandonWork, Finish,
       ReleaseGet, ReleaseGetFails, Unlock, UnlockFails, Crash, Fault, TypeInv, TypeOK

(* As long as no call fails and no run crashes, at most one run works: a   *)
(* lock that is refreshed every Heartbeat and used within Latency never    *)
(* reaches the TTL, so nobody breaks it.                                   *)
THEOREM LockExcludes == Spec => []MutexWithoutFaults
<1> DEFINE Inv == TypeInv /\ (faults = 0 => CalmInv)
<1>1. Init => Inv
  BY TypeInit, CalmInit
<1>2. Inv /\ [Next]_vars => Inv'
  <2>1. CASE Next
    BY <2>1, TypeStep, CalmStep, FaultsGrow DEF TypeInv, TypeOK
  <2>2. CASE UNCHANGED vars
    <3>1. Inv => TypeInv'
      BY <2>2, TypeStep
    <3>2. (faults' = faults) /\ (CalmInv => CalmInv')
      BY <2>2 DEF vars, historyVars, CalmInv, LockIsHolders, LockIsFresh, SeenIsFresh,
           NoTheft, Holding, Working
    <3> QED BY <3>1, <3>2
  <2> QED BY <2>1, <2>2
<1>3. Inv => MutexWithoutFaults
  BY CalmExcludes DEF MutexWithoutFaults
<1> QED
  BY <1>1, <1>2, <1>3, PTL DEF Spec

-----------------------------------------------------------------------------
(* The heartbeat of a run that works: its next refresh is within reach, it *)
(* is overdue only once the loss is noticed, and an object of another run  *)
(* was created too late for the refresh after it to be further than this.  *)
BeatOK(p) ==
  /\ etag[p] # None /\ etag[p].owner = p
  /\ beatAt[p] <= now + Heartbeat
  /\ ~lost[p] => now <= beatAt[p]
  /\ lock # None /\ lock.owner # p =>
       /\ now <= since + Heartbeat + slack[p]
       /\ ~lost[p] => beatAt[p] <= since + Heartbeat + slack[p]

TheftInv == \A p \in Procs : Working(p) => BeatOK(p)

LEMMA TheftInit == Init => TheftInv
  BY DEF Init, TheftInv, Working

(* A step that changes nothing of what a run q that works depends on.      *)
LEMMA BeatFrame ==
  ASSUME TheftInv, NEW q \in Procs, Working(q),
         UNCHANGED <<now, since>>, etag'[q] = etag[q], beatAt'[q] = beatAt[q],
         lost'[q] = lost[q], slack'[q] = slack[q],
         lock' # None => lock # None /\ (lock'.owner # q => lock.owner # q)
  PROVE  BeatOK(q)'
  BY DEF TheftInv, BeatOK

(* A step of p that takes the lock, or may have: the object is new.        *)
LEMMA BeatNewLock ==
  ASSUME TypeInv, TheftInv, History, NEW q \in Procs, Working(q),
         lock = None, lock' # None, now' = now, slack' = slack,
         etag'[q] = etag[q], beatAt'[q] = beatAt[q], lost'[q] = lost[q]
  PROVE  BeatOK(q)'
<1>1. since' = now
  BY DEF History
<1>2. slack[q] \in Nat /\ beatAt[q] \in Nat /\ now \in Nat
  BY DEF TypeInv, TypeOK
<1> QED
  BY <1>1, <1>2, TimesAssumption DEF TheftInv, BeatOK

(* Only the creation of an object touches since.                           *)
LEMMA SinceStays ==
  ASSUME History, lock' = None \/ lock # None
  PROVE  since' = since
  BY DEF History

LEMMA TheftStep ==
  ASSUME TypeInv, TheftInv, Next
  PROVE  TheftInv'
<1> SUFFICES ASSUME NEW q \in Procs, Working(q)' PROVE BeatOK(q)'
  BY DEF TheftInv
<1> USE TimesAssumption
<1>t. TypeOK
  BY DEF TypeInv
<1>h. History
  BY StepCases
<1>1. CASE Tick /\ UNCHANGED slack
  <2>1. Working(q) /\ ~lost[q] /\ now < beatAt[q] /\ now' = now + 1
    BY <1>1 DEF Tick, Working
  <2>2. since' = since
    BY <1>1, <1>h, SinceStays DEF Tick, lockVars
  <2> QED
    BY <1>1, <1>t, <2>1, <2>2 DEF Tick, lockVars, TheftInv, BeatOK, TypeOK
<1>2. ASSUME NEW p \in Procs, Acquire(p), UNCHANGED slack PROVE BeatOK(q)'
  <2> USE <1>2, <1>t, <1>h DEF Goto, Working
  <2>1. CASE PutCreates(p)
    <3>1. CASE p = q
      BY <2>1, <3>1, InfoType DEF PutCreates, BeatOK, TypeOK
    <3>2. CASE p # q
      BY <2>1, <3>2, InfoType, BeatNewLock DEF PutCreates, TypeOK
    <3> QED BY <3>1, <3>2
  <2>2. CASE PutFails(p)
    <3>1. p # q /\ Working(q) /\ beatAt'[q] = beatAt[q]
      BY <2>2 DEF PutFails, NextAttempt, TypeOK
    <3>2. CASE UNCHANGED lock
      BY <2>2, <3>1, <3>2, SinceStays, BeatFrame DEF PutFails, History
    <3>3. CASE lock = None /\ lock' = Info(p)
      BY <2>2, <3>1, <3>3, InfoType, BeatNewLock DEF PutFails
    <3> QED BY <2>2, <3>2, <3>3 DEF PutFails
  <2>3. CASE ~PutCreates(p) /\ ~PutFails(p)
    <3>1. /\ Working(q)
          /\ UNCHANGED <<now, etag, lost>>
          /\ lock' \in {lock, None}
          /\ beatAt'[q] = beatAt[q]
      BY <2>3 DEF Acquire, Start, PutConflicts, Get, GetNothing, GetFails, Check,
           Break, BreakFails, Retry, Held, NextAttempt, TypeOK
    <3>2. since' = since
      BY <3>1 DEF History
    <3> QED BY <3>1, <3>2, BeatFrame
  <2> QED BY <2>1, <2>2, <2>3
<1>3. ASSUME NEW p \in Procs, Beat(p), UNCHANGED slack PROVE BeatOK(q)'
  <2> USE <1>3, <1>t, <1>h DEF BeatDue, SleepAgain, Working
  <2>1. CASE Refresh(p)
    <3>1. lock = etag[p] /\ lock # None /\ lock.owner = p /\ since' = since
      BY <2>1, InfoType DEF Refresh, TheftInv, BeatOK, History
    <3>2. CASE p = q
      BY <2>1, <3>1, <3>2, InfoType DEF Refresh, BeatOK, TypeOK
    <3>3. CASE p # q
      BY <2>1, <3>1, <3>3, InfoType, BeatFrame DEF Refresh, TypeOK
    <3> QED BY <3>2, <3>3
  <2>2. CASE RefreshConflicts(p)
    <3>1. since' = since
      BY <2>2, SinceStays DEF RefreshConflicts, lockVars
    <3> QED
      BY <2>2, <3>1 DEF RefreshConflicts, lockVars, TheftInv, BeatOK, TypeOK
  <2>3. CASE RefreshNothing(p)
    BY <2>3 DEF RefreshNothing, lockVars, TheftInv, BeatOK, TypeOK
  <2> QED BY <2>1, <2>2, <2>3 DEF Beat
<1>4. ASSUME NEW p \in Procs, RefreshFails(p),
             slack' = [slack EXCEPT ![p] = @ + Heartbeat]
      PROVE BeatOK(q)'
  <2> USE <1>4, <1>t, <1>h DEF BeatDue, SleepAgain, Working
  <2>1. Working(p) /\ Working(q) /\ UNCHANGED <<now, etag, lost>>
    BY DEF RefreshFails
  <2>2. lock' = lock \/ (lock # None /\ lock.owner = p /\ lock' # None /\ lock'.owner = p)
    BY <2>1, InfoType DEF RefreshFails, TheftInv, BeatOK
  <2>3. since' = since
    BY <2>2, SinceStays DEF History
  <2>4. CASE p = q
    BY <2>1, <2>2, <2>3, <2>4 DEF RefreshFails, TheftInv, BeatOK, TypeOK
  <2>5. CASE p # q
    <3>1. beatAt'[q] = beatAt[q] /\ slack'[q] = slack[q]
      BY <2>5 DEF RefreshFails, TypeOK
    <3> QED BY <2>1, <2>2, <2>3, <2>5, <3>1, BeatFrame
  <2> QED BY <2>4, <2>5
<1>5. ASSUME NEW p \in Procs, Work(p) \/ Crash(p), UNCHANGED slack PROVE BeatOK(q)'
  <2> USE <1>5, <1>t, <1>h DEF Goto, Working
  <2>1. Working(q) /\ UNCHANGED <<now, etag, lost, beatAt>> /\ lock' \in {lock, None}
    BY DEF Work, BeginDelete, EndDelete, AbandonWork, Finish, ReleaseGet, ReleaseGetFails,
         Unlock, UnlockFails, Crash, TypeOK, lockVars
  <2>2. since' = since
    BY <2>1 DEF History
  <2> QED BY <2>1, <2>2, BeatFrame
<1> QED
  BY <1>1, <1>2, <1>3, <1>4, <1>5, StepCases

(* A run whose lock was broken or taken stops within a heartbeat of the    *)
(* other object's creation, a heartbeat more for each failed refresh.      *)
THEOREM TheftIsNoticed == Spec => []TheftNoticedInTime
<1>1. Init => TypeInv /\ TheftInv
  BY TypeInit, TheftInit
<1>2. TypeInv /\ TheftInv /\ [Next]_vars => (TypeInv /\ TheftInv)'
  <2>1. CASE Next
    BY <2>1, TypeStep, TheftStep
  <2>2. CASE UNCHANGED vars
    <3>1. TheftInv => TheftInv'
      BY <2>2 DEF vars, historyVars, TheftInv, BeatOK, Working
    <3> QED BY <2>2, <3>1, TypeStep
  <2> QED BY <2>1, <2>2
<1>3. TheftInv => TheftNoticedInTime
  BY DEF TheftInv, BeatOK, TheftNoticedInTime
<1> QED
  BY <1>1, <1>2, <1>3, PTL DEF Spec
-----------------------------------------------------------------------------
(* What was in the way at attempt n, after f faults, has at least this age.*)
Age(W, M, f, n) == W[n] - W[M[f - 1] + 1]

Lone(p) == Acquiring(p) /\ p \notin contested

(* The object in the way of a lone run, when and as it is going to be read.*)
Ages(W, M, p) ==
  /\ lock # None /\ pc[p] # "wait" => now >= lock.at + Age(W, M, faults, attempt[p])
  /\ lock # None /\ pc[p] = "wait" => beatAt[p] >= lock.at + Age(W, M, faults, attempt[p] + 1)
  /\ pc[p] = "check" => seen[p] # None /\ now >= seen[p].at + Age(W, M, faults, attempt[p])
  /\ pc[p] = "reput" => lock = None \/ attempt[p] <= M[faults - 1]

LoneOK(W, M, p) ==
  /\ pc[p] = "gaveup" => p \in contested
  /\ Lone(p) =>
       /\ \A q \in Procs \ {p} : ~Alive(q)
       /\ attempt[p] <= M[faults]
       /\ pc[p] = "wait" => attempt[p] < M[faults]
       /\ faults = 0 => pc[p] = "put" /\ lock = None
       /\ faults > 0 => Ages(W, M, p)

NoFuture == lock # None => lock.at <= now

LEMMA AgeStarts ==
  ASSUME NEW W, NEW M, Schedule(W, M), NEW f \in 0..MaxFaults, f + 1 \in 0..MaxFaults,
         NEW n \in 1..MaxAttempts, n <= M[f] + 1
  PROVE  Age(W, M, f + 1, n) \in Int /\ Age(W, M, f + 1, n) <= 0
<1> USE TimesAssumption
<1>1. (f + 1) - 1 = f /\ f < MaxFaults
  OBVIOUS
<1>2. M[f] \in 1..MaxAttempts /\ M[f] < MaxAttempts
  BY <1>1 DEF Schedule
<1>3. M[f] + 1 \in 1..MaxAttempts
  BY <1>2
<1>4. W[n] <= W[M[f] + 1] /\ W[n] \in Nat /\ W[M[f] + 1] \in Nat
  BY <1>3 DEF Schedule
<1>5. Age(W, M, f + 1, n) = W[n] - W[M[f] + 1]
  BY <1>1 DEF Age
<1> QED BY <1>4, <1>5

LEMMA AgeGrows ==
  ASSUME NEW W, NEW M, Schedule(W, M), NEW f \in 1..MaxFaults, NEW n \in 1..MaxAttempts
  PROVE  /\ Age(W, M, f, n) \in Int
         /\ n < MaxAttempts =>
              /\ Age(W, M, f, n + 1) \in Int
              /\ Age(W, M, f, n + 1) <= Age(W, M, f, n) + Backoff[n]
         /\ n >= M[f] => Age(W, M, f, n) > TTL
<1> USE TimesAssumption
<1>1. f - 1 \in 0..MaxFaults /\ f - 1 < MaxFaults /\ (f - 1) + 1 = f
  OBVIOUS
<1>2. M[f - 1] \in 1..MaxAttempts /\ M[f - 1] < MaxAttempts /\ W[M[f]] > W[M[f - 1] + 1] + TTL
  BY <1>1 DEF Schedule
<1>3. M[f - 1] + 1 \in 1..MaxAttempts /\ M[f] \in 1..MaxAttempts
  <2>1. M[f - 1] + 1 \in 1..MaxAttempts
    <3> DEFINE m == M[f - 1]
    <3>1. m \in 1..MaxAttempts /\ m < MaxAttempts
      BY <1>2
    <3> HIDE DEF m
    <3>2. m + 1 \in 1..MaxAttempts
      BY <3>1
    <3> QED
      BY <3>2 DEF m
  <2>2. f \in 0..MaxFaults /\ M \in [0..MaxFaults -> 1..MaxAttempts]
    BY DEF Schedule
  <2>3. M[f] \in 1..MaxAttempts
    BY <2>2
  <2> QED
    BY <2>1, <2>3
<1>4. W[M[f - 1] + 1] \in Nat /\ W[M[f]] \in Nat /\ W[n] \in Nat
  BY <1>3 DEF Schedule
<1>5. n >= M[f] => W[n] >= W[M[f]]
  BY <1>3 DEF Schedule
<1>6. n < MaxAttempts => W[n + 1] \in Nat /\ W[n + 1] <= W[n] + Backoff[n]
  <2> SUFFICES ASSUME n < MaxAttempts PROVE W[n + 1] \in Nat /\ W[n + 1] <= W[n] + Backoff[n]
    OBVIOUS
  <2>1. n + 1 \in 1..MaxAttempts
    OBVIOUS
  <2> QED BY <2>1 DEF Schedule
<1>7. Backoff[n] \in Nat
  BY BackoffAssumption
<1> QED BY <1>2, <1>4, <1>5, <1>6, <1>7 DEF Age

LEMMA Deadlines ==
  ASSUME NEW W, NEW M, Schedule(W, M), NEW f \in 0..MaxFaults
  PROVE  /\ M[f] \in 1..MaxAttempts
         /\ f + 1 \in 0..MaxFaults => M[f] < M[f + 1] /\ M[f + 1] \in 1..MaxAttempts
<1> USE TimesAssumption
<1>1. M[f] \in 1..MaxAttempts
  BY DEF Schedule
<1>2. ASSUME f + 1 \in 0..MaxFaults PROVE M[f] < M[f + 1] /\ M[f + 1] \in 1..MaxAttempts
  <2>1. M[f + 1] \in 1..MaxAttempts /\ M[f] < MaxAttempts /\ W[M[f + 1]] > W[M[f] + 1] + TTL
    BY <1>2 DEF Schedule
  <2>2. M[f] + 1 \in 1..MaxAttempts
    BY <1>1, <2>1
  <2>3. M[f + 1] <= M[f] + 1 => W[M[f + 1]] <= W[M[f] + 1]
    BY <2>1, <2>2 DEF Schedule
  <2>4. W[M[f + 1]] \in Nat /\ W[M[f] + 1] \in Nat
    BY <2>1, <2>2 DEF Schedule
  <2> QED BY <1>1, <2>1, <2>3, <2>4
<1> QED BY <1>1, <1>2

(* The types of what a run that acquires looks at.                         *)
LEMMA LoneTypes ==
  ASSUME TypeInv, NEW p \in Procs
  PROVE  /\ now \in Nat /\ faults \in 0..MaxFaults
         /\ lock # None => lock.at \in Nat
         /\ seen[p] # None => seen[p].at \in Nat
         /\ beatAt[p] \in Nat /\ attempt[p] \in Nat
         /\ Acquiring(p) => attempt[p] \in 1..MaxAttempts
         /\ pc[p] = "wait" => attempt[p] < MaxAttempts
  BY TimesAssumption DEF TypeInv, TypeOK, AttemptOK, LockInfo, Acquiring

(* A lone run is alone in what it does: time may pass, or it crash.        *)
LEMMA LoneSteps ==
  ASSUME TypeInv, NEW p \in Procs, Lone(p), \A q \in Procs \ {p} : ~Alive(q), Next,
         p \notin contested'
  PROVE  Tick \/ Acquire(p) \/ Crash(p)
<1>1. ASSUME NEW q \in Procs \ {p} PROVE ~Beat(q) /\ ~Work(q) /\ ~Crash(q) /\ ~RefreshFails(q)
  <2>1. pc[q] \in {"idle", "done", "gaveup", "crashed"}
    BY DEF Alive, Acquiring, Working, TypeInv, TypeOK, Pc
  <2> QED
    BY <2>1 DEF Beat, Refresh, RefreshConflicts, RefreshNothing, RefreshFails, BeatDue, Working,
       Work, BeginDelete, EndDelete, AbandonWork, Finish, ReleaseGet, ReleaseGetFails, Unlock,
       UnlockFails, Crash
<1>2. ASSUME NEW q \in Procs \ {p}, Acquire(q) PROVE FALSE
  <2>1. pc[q] \in {"idle", "done", "gaveup", "crashed"}
    BY DEF Alive, Acquiring, Working, TypeInv, TypeOK, Pc
  <2>2. Start(q)
    BY <1>2, <2>1 DEF Acquire, Start, PutCreates, PutConflicts, PutFails, Get, GetNothing,
       GetFails, Check, Break, BreakFails, Retry
  <2>3. Acquiring(p)' /\ Alive(q)'
    BY <2>2 DEF Start, Goto, Lone, Acquiring, Alive, TypeInv, TypeOK
  <2> QED BY <2>3, StepCases DEF History
<1>3. ~Beat(p) /\ ~Work(p) /\ ~RefreshFails(p)
  BY DEF Lone, Acquiring, Beat, Refresh, RefreshConflicts, RefreshNothing, RefreshFails, BeatDue,
     Working, Work, BeginDelete, EndDelete, AbandonWork, Finish, ReleaseGet, ReleaseGetFails,
     Unlock, UnlockFails
<1> QED
  BY <1>1, <1>2, <1>3, StepCases

(* What LoneOK says of a run after a step, its being alone aside.          *)
Goes(W, M, p) ==
  /\ pc'[p] # "gaveup"
  /\ Acquiring(p)' =>
       /\ attempt'[p] <= M[faults']
       /\ pc'[p] = "wait" => attempt'[p] < M[faults']
       /\ faults' = 0 => pc'[p] = "put" /\ lock' = None
       /\ faults' > 0 => Ages(W, M, p)'

(* A run that starts has nothing in its way unless there has been a fault. *)
LEMMA StartGoes ==
  ASSUME TypeInv, faults = 0 => CalmInv, NoFuture, NEW W, NEW M, Schedule(W, M),
         NEW p \in Procs, Start(p), \A q \in Procs \ {p} : ~Alive(q)
  PROVE  Goes(W, M, p)
<1>1. /\ pc[p] = "idle" /\ pc'[p] = "put" /\ attempt'[p] = 1 /\ UNCHANGED <<now, lock, faults>>
  BY DEF Start, Goto, TypeInv, TypeOK
<1>2. faults = 0 => lock = None
  <2>1. \A q \in Procs : ~Holding(q)
    BY <1>1 DEF Holding, Working, Alive
  <2>2. lock # None => lock.owner \in Procs
    BY DEF TypeInv, TypeOK, LockInfo
  <2> QED BY <2>1, <2>2 DEF CalmInv, LockIsHolders
<1>3. 1 <= M[faults]
  BY LoneTypes, Deadlines
<1>4. ASSUME faults > 0, lock # None PROVE now >= lock.at + Age(W, M, faults, 1)
  <2>1. faults - 1 \in 0..MaxFaults /\ (faults - 1) + 1 \in 0..MaxFaults /\ faults = (faults - 1) + 1
    BY <1>4, LoneTypes, TimesAssumption
  <2>2. 1 \in 1..MaxAttempts /\ 1 <= M[faults - 1] + 1
    BY <2>1, Deadlines, TimesAssumption
  <2>3. Age(W, M, faults, 1) \in Int /\ Age(W, M, faults, 1) <= 0
    BY <2>1, <2>2, AgeStarts
  <2> QED BY <1>4, <2>3, LoneTypes DEF NoFuture
<1> QED
  BY <1>1, <1>2, <1>3, <1>4 DEF Goes, Ages

(* A fault starts the clock anew.                                          *)
LEMMA FaultGoes ==
  ASSUME TypeInv, NEW W, NEW M, Schedule(W, M), NEW p \in Procs, LoneOK(W, M, p), Lone(p), Fault,
         now' = now, attempt' = attempt, lock' # None => lock'.at \in Nat /\ lock'.at <= now,
         \/ pc'[p] = "reput"
         \/ /\ attempt[p] < MaxAttempts => pc'[p] = "wait" /\ beatAt'[p] >= now /\ beatAt'[p] \in Nat
            /\ attempt[p] >= MaxAttempts => pc'[p] = "gaveup"
  PROVE  Goes(W, M, p)
<1> DEFINE n == attempt[p]
<1>1. /\ faults \in 0..MaxFaults /\ faults + 1 \in 0..MaxFaults /\ faults' = faults + 1
      /\ faults \in Nat /\ n \in 1..MaxAttempts /\ now \in Nat
  BY LoneTypes, TimesAssumption DEF Fault, Lone
<1>2. /\ M[faults] \in 1..MaxAttempts /\ M[faults + 1] \in 1..MaxAttempts
      /\ M[faults] < M[faults + 1]
  BY <1>1, Deadlines
<1>3. n <= M[faults] /\ n < M[faults + 1] /\ n < MaxAttempts
  BY <1>1, <1>2, TimesAssumption DEF LoneOK
<1>4. /\ n + 1 \in 1..MaxAttempts
      /\ n <= M[faults] + 1 /\ n + 1 <= M[faults] + 1
  BY <1>1, <1>2, <1>3, TimesAssumption
<1>5. /\ Age(W, M, faults + 1, n) \in Int /\ Age(W, M, faults + 1, n) <= 0
      /\ Age(W, M, faults + 1, n + 1) \in Int /\ Age(W, M, faults + 1, n + 1) <= 0
  BY <1>1, <1>4, AgeStarts
<1>6. pc'[p] \in {"wait", "reput"} /\ (pc'[p] = "wait" => beatAt'[p] >= now /\ beatAt'[p] \in Nat)
  BY <1>3
<1>7. (faults + 1) - 1 = faults /\ faults + 1 # 0
  BY <1>1
<1> HIDE DEF n
<1>8. Ages(W, M, p)'
  <2>1. /\ attempt'[p] = n /\ now' = now /\ faults' = faults + 1
    BY <1>1 DEF n
  <2>2. lock' # None => now >= lock'.at + Age(W, M, faults + 1, n)
    BY <1>1, <1>5
  <2>3. lock' # None /\ pc'[p] = "wait" => beatAt'[p] >= lock'.at + Age(W, M, faults + 1, n + 1)
    BY <1>1, <1>5, <1>6
  <2> QED BY <1>3, <1>6, <1>7, <2>1, <2>2, <2>3 DEF Ages
<1> QED
  BY <1>1, <1>2, <1>3, <1>6, <1>7, <1>8 DEF Goes, n

(* An attempt that, without a fault, finds the lock held is not the last   *)
(* that it takes: what was in the way has not the age that it would have.  *)
LEMMA HeldGoes ==
  ASSUME TypeInv, NEW W, NEW M, Schedule(W, M), NEW p \in Procs, LoneOK(W, M, p), Lone(p),
         faults > 0, attempt[p] < M[faults], pc[p] # "wait", Held(p),
         UNCHANGED <<now, lock, faults, attempt>>
  PROVE  Goes(W, M, p)
<1>1. /\ faults \in 1..MaxFaults /\ attempt[p] \in 1..MaxAttempts /\ M[faults] \in 1..MaxAttempts
      /\ now \in Nat /\ attempt[p] < MaxAttempts
  BY LoneTypes, Deadlines, TimesAssumption DEF Lone
<1>2. pc'[p] = "wait" /\ beatAt'[p] = now + Backoff[attempt[p]]
  BY <1>1, LoneTypes DEF Held, NextAttempt, Goto, TypeInv, TypeOK
<1>3. /\ Age(W, M, faults, attempt[p]) \in Int
      /\ Age(W, M, faults, attempt[p] + 1) \in Int
      /\ Age(W, M, faults, attempt[p] + 1) <= Age(W, M, faults, attempt[p]) + Backoff[attempt[p]]
      /\ Backoff[attempt[p]] \in Nat
  BY <1>1, AgeGrows, BackoffAssumption
<1>4. lock # None => lock.at \in Nat /\ now >= lock.at + Age(W, M, faults, attempt[p])
  BY LoneTypes DEF LoneOK, Ages
<1>5. lock # None => beatAt'[p] >= lock.at + Age(W, M, faults, attempt[p] + 1)
  BY <1>1, <1>2, <1>3, <1>4
<1>6. Ages(W, M, p)'
  BY <1>2, <1>5 DEF Ages
<1> QED
  BY <1>1, <1>2, <1>6 DEF Goes

LEMMA AcquireGoes ==
  ASSUME TypeInv, NEW W, NEW M, Schedule(W, M), NEW p \in Procs, LoneOK(W, M, p), Lone(p),
         NoFuture, Acquire(p)
  PROVE  Goes(W, M, p)
<1>t. TypeOK
  BY DEF TypeInv
<1>a. /\ attempt[p] <= M[faults]
      /\ pc[p] = "wait" => attempt[p] < M[faults]
      /\ faults = 0 => pc[p] = "put" /\ lock = None
      /\ faults > 0 => Ages(W, M, p)
  BY DEF LoneOK
<1>n. /\ now \in Nat /\ faults \in 0..MaxFaults /\ attempt[p] \in 1..MaxAttempts
      /\ M[faults] \in 1..MaxAttempts
      /\ lock # None => lock.at \in Nat /\ lock.at <= now
  BY LoneTypes, Deadlines DEF Lone, NoFuture
<1>f. faults = 0 \/ faults > 0
  BY <1>n
<1>i. Info(p) # None /\ Info(p).at = now
  BY <1>t, InfoType
<1> USE DEF Goto
<1>1. ~Start(p)
  BY DEF Start, Lone, Acquiring
<1>2. CASE PutCreates(p)
  BY <1>2, <1>t DEF PutCreates, Goes, Acquiring, TypeOK
<1>3. CASE PutConflicts(p)
  <2>1. faults > 0 /\ Ages(W, M, p) /\ lock # None /\ UNCHANGED <<now, lock, attempt, faults>>
    BY <1>3, <1>a, <1>f DEF PutConflicts
  <2>2. CASE pc[p] = "put"
    <3>1. pc'[p] = "get"
      BY <1>3, <1>t, <2>2 DEF PutConflicts, TypeOK
    <3> QED BY <1>a, <2>1, <2>2, <3>1 DEF Goes, Ages
  <2>3. CASE pc[p] = "reput"
    <3>1. attempt[p] <= M[faults - 1] /\ M[faults - 1] < M[faults]
      <4>1. faults - 1 \in 0..MaxFaults /\ (faults - 1) + 1 = faults
        BY <1>n, <2>1, TimesAssumption
      <4> QED BY <1>n, <2>1, <2>3, <4>1, Deadlines DEF Ages
    <3>2. attempt[p] < M[faults]
      <4>1. M[faults - 1] \in Int
        <5>1. faults - 1 \in 0..MaxFaults
          BY <1>n, <2>1, TimesAssumption
        <5> QED BY <5>1, Deadlines
      <4> QED BY <1>n, <3>1, <4>1
    <3>3. Held(p)
      BY <1>3, <2>3 DEF PutConflicts
    <3> QED BY <2>1, <2>3, <3>2, <3>3, HeldGoes
  <2> QED BY <1>3, <2>2, <2>3 DEF PutConflicts
<1>4. CASE PutFails(p)
  <2>1. /\ Fault /\ now' = now /\ attempt' = attempt
        /\ lock' = lock \/ lock' = Info(p)
    BY <1>4 DEF PutFails
  <2>2. lock' # None => lock'.at \in Nat /\ lock'.at <= now
    BY <1>n, <1>i, <2>1
  <2>3. /\ attempt[p] < MaxAttempts =>
             pc'[p] = "wait" /\ beatAt'[p] >= now /\ beatAt'[p] \in Nat
        /\ attempt[p] >= MaxAttempts => pc'[p] = "gaveup"
    BY <1>4, <1>t, <1>n, TimesAssumption DEF PutFails, NextAttempt, TypeOK
  <2> QED BY <2>1, <2>2, <2>3, FaultGoes
<1>5. CASE GetFails(p) \/ BreakFails(p)
  <2>1. /\ Fault /\ UNCHANGED <<now, attempt, lock>> /\ pc'[p] = "reput"
    BY <1>5, <1>t DEF GetFails, BreakFails, TypeOK
  <2> QED BY <1>n, <2>1, FaultGoes
<1>6. CASE Get(p)
  <2>1. /\ pc[p] = "get" /\ pc'[p] = "check" /\ lock # None /\ seen'[p] = lock
        /\ UNCHANGED <<now, lock, attempt, faults>>
    BY <1>6, <1>t DEF Get, TypeOK
  <2> QED BY <1>a, <1>f, <2>1 DEF Goes, Ages
<1>7. CASE GetNothing(p) \/ Break(p)
  <2>1. /\ pc[p] \in {"get", "break"} /\ pc'[p] = "reput" /\ lock' = None
        /\ UNCHANGED <<now, attempt, faults>>
    BY <1>7, <1>t DEF GetNothing, Break, TypeOK
  <2> QED BY <1>a, <1>f, <2>1 DEF Goes, Ages
<1>8. CASE Check(p)
  <2>1. /\ pc[p] = "check" /\ UNCHANGED <<now, lock, attempt, faults>>
        /\ faults > 0 /\ Ages(W, M, p)
    BY <1>8, <1>a, <1>f DEF Check
  <2>2. CASE IsExpired(seen[p]) /\ pc'[p] = "break"
    BY <1>a, <2>1, <2>2 DEF Goes, Ages
  <2>3. CASE ~IsExpired(seen[p]) /\ Held(p)
    <3>1. seen[p].at \in Nat /\ now >= seen[p].at + Age(W, M, faults, attempt[p])
      BY <2>1, LoneTypes DEF Ages
    <3>2. now <= seen[p].at + TTL
      BY <1>n, <2>3, <3>1, TimesAssumption DEF IsExpired
    <3>3. faults \in 1..MaxFaults
      BY <1>n, <2>1
    <3>4. /\ Age(W, M, faults, attempt[p]) \in Int
          /\ attempt[p] >= M[faults] => Age(W, M, faults, attempt[p]) > TTL
      BY <1>n, <3>3, AgeGrows
    <3>5. attempt[p] < M[faults]
      BY <1>n, <3>1, <3>2, <3>4, TimesAssumption
    <3> QED BY <2>1, <2>3, <3>5, HeldGoes
  <2>4. Check(p) => \/ IsExpired(seen[p]) /\ pc'[p] = "break"
                    \/ ~IsExpired(seen[p]) /\ Held(p)
    BY <1>t DEF Check, TypeOK
  <2> QED BY <1>8, <2>2, <2>3, <2>4
<1>9. CASE Retry(p)
  <2>1. /\ pc[p] = "wait" /\ now >= beatAt[p] /\ pc'[p] = "put" /\ attempt'[p] = attempt[p] + 1
        /\ UNCHANGED <<now, lock, faults>> /\ faults > 0 /\ Ages(W, M, p)
    BY <1>9, <1>a, <1>f, <1>t DEF Retry, TypeOK
  <2>2. lock # None => beatAt[p] >= lock.at + Age(W, M, faults, attempt[p] + 1)
    BY <2>1 DEF Ages
  <2>3. Age(W, M, faults, attempt[p] + 1) \in Int
    <3>1. faults \in 1..MaxFaults /\ attempt[p] < MaxAttempts
      BY <1>n, <2>1, LoneTypes
    <3> QED BY <1>n, <3>1, AgeGrows
  <2>4. lock # None => now >= lock.at + Age(W, M, faults, attempt[p] + 1)
    BY <1>n, <2>1, <2>2, <2>3, LoneTypes
  <2>5. attempt[p] + 1 <= M[faults]
    BY <1>n, <1>a, <2>1
  <2> QED BY <2>1, <2>4, <2>5 DEF Goes, Ages
<1> QED
  BY <1>1, <1>2, <1>3, <1>4, <1>5, <1>6, <1>7, <1>8, <1>9 DEF Acquire

(* A run that is not lone, and was never contested, has not begun.         *)
LEMMA LoneFromStart ==
  ASSUME TypeInv, Next, NEW p \in Procs, ~Acquiring(p), pc[p] # "gaveup"
  PROVE  pc'[p] # "gaveup" /\ (Acquiring(p)' => Start(p))
<1> USE DEF TypeInv, TypeOK, Goto, Acquiring
<1>1. ASSUME NEW q \in Procs, Acquire(q)
      PROVE  pc'[p] # "gaveup" /\ (Acquiring(p)' => Start(p))
  <2>1. CASE q = p
    BY <1>1, <2>1 DEF Acquire, Start, PutCreates, PutConflicts, PutFails, Get, GetNothing,
       GetFails, Check, Break, BreakFails, Retry
  <2>2. CASE q # p
    BY <1>1, <2>2 DEF Acquire, Start, PutCreates, PutConflicts, PutFails, Get, GetNothing,
       GetFails, Check, Break, BreakFails, Retry, Held, NextAttempt
  <2> QED BY <2>1, <2>2
<1>2. ASSUME NEW q \in Procs, Work(q) \/ Crash(q)
      PROVE  pc'[p] # "gaveup" /\ ~Acquiring(p)'
  BY <1>2 DEF Work, BeginDelete, EndDelete, AbandonWork, Finish, ReleaseGet, ReleaseGetFails,
     Unlock, UnlockFails, Crash
<1>3. ASSUME NEW q \in Procs, Beat(q) \/ RefreshFails(q)
      PROVE  pc'[p] # "gaveup" /\ ~Acquiring(p)'
  BY <1>3 DEF Beat, Refresh, RefreshConflicts, RefreshNothing, RefreshFails
<1>4. CASE Tick
  BY <1>4 DEF Tick
<1> QED
  BY <1>1, <1>2, <1>3, <1>4, StepCases

LEMMA LoneStep ==
  ASSUME TypeInv, faults = 0 => CalmInv, NoFuture, NEW W, NEW M, Schedule(W, M),
         NEW p \in Procs, LoneOK(W, M, p), Next
  PROVE  LoneOK(W, M, p)'
<1>h. History
  BY StepCases
<1> SUFFICES ASSUME p \notin contested' PROVE LoneOK(W, M, p)'
  BY DEF LoneOK, Lone
<1>1. p \notin contested
  BY <1>h DEF History
<1>2. Acquiring(p)' => \A q \in Procs \ {p} : ~Alive(q)'
  BY <1>h DEF History
<1> SUFFICES Goes(W, M, p)
  BY <1>2 DEF Goes, LoneOK, Lone
<1>3. CASE ~Acquiring(p)
  <2>1. pc'[p] # "gaveup" /\ (Acquiring(p)' => Start(p))
    BY <1>1, <1>3, LoneFromStart DEF LoneOK
  <2>2. CASE ~Acquiring(p)'
    BY <2>1, <2>2 DEF Goes
  <2>3. CASE Start(p)
    <3>1. Acquiring(p)' /\ \A q \in Procs \ {p} : pc'[q] = pc[q]
      BY <2>3 DEF Start, Goto, Acquiring, TypeInv, TypeOK
    <3>2. \A q \in Procs \ {p} : ~Alive(q)
      BY <1>2, <3>1 DEF Alive, Acquiring, Working
    <3> QED BY <2>3, <3>2, StartGoes
  <2> QED BY <2>1, <2>2, <2>3
<1>4. CASE Acquiring(p)
  <2>1. Lone(p) /\ \A q \in Procs \ {p} : ~Alive(q)
    BY <1>1, <1>4 DEF Lone, LoneOK
  <2>2. CASE Tick
    <3>1. now' = now + 1 /\ UNCHANGED <<lock, pc, attempt, seen, beatAt, faults>>
      BY <2>2 DEF Tick, lockVars
    <3>2. /\ attempt[p] <= M[faults]
          /\ pc[p] = "wait" => attempt[p] < M[faults]
          /\ faults = 0 => pc[p] = "put" /\ lock = None
          /\ faults > 0 => Ages(W, M, p)
      BY <2>1 DEF LoneOK
    <3>3. ASSUME faults > 0 PROVE Ages(W, M, p)'
      <4>1. Age(W, M, faults, attempt[p]) \in Int
        <5>1. faults \in 1..MaxFaults /\ attempt[p] \in 1..MaxAttempts
          BY <1>4, <3>3, LoneTypes
        <5> QED BY <5>1, AgeGrows
      <4>2. lock # None /\ pc[p] # "wait" => now + 1 >= lock.at + Age(W, M, faults, attempt[p])
        BY <3>2, <3>3, <4>1, LoneTypes DEF Ages
      <4>3. pc[p] = "check" => now + 1 >= seen[p].at + Age(W, M, faults, attempt[p])
        BY <3>2, <3>3, <4>1, LoneTypes DEF Ages
      <4> QED BY <3>1, <3>2, <3>3, <4>2, <4>3 DEF Ages
    <3>4. pc[p] # "gaveup"
      BY <1>4 DEF Acquiring
    <3> QED BY <3>1, <3>2, <3>3, <3>4 DEF Goes
  <2>3. CASE Acquire(p)
    BY <2>1, <2>3, AcquireGoes
  <2>4. CASE Crash(p)
    BY <2>4 DEF Crash, Goto, Goes, Acquiring, TypeInv, TypeOK
  <2> QED BY <2>1, <2>2, <2>3, <2>4, LoneSteps
<1> QED BY <1>3, <1>4

LEMMA NoFutureStep ==
  ASSUME TypeInv, NoFuture, Next
  PROVE  NoFuture'
<1>1. CASE Tick
  BY <1>1, TimesAssumption DEF Tick, lockVars, NoFuture, TypeInv, TypeOK, LockInfo
<1>2. ASSUME NEW p \in Procs, Acquire(p) \/ Beat(p) \/ Work(p) \/ Crash(p) \/ RefreshFails(p)
      PROVE  now' = now /\ lock' \in {lock, None, Info(p)}
  BY <1>2 DEF Acquire, Start, PutCreates, PutConflicts, PutFails, Get, GetNothing, GetFails, Check,
     Break, BreakFails, Retry, Beat, Refresh, RefreshConflicts, RefreshNothing, RefreshFails, Work,
     BeginDelete, EndDelete, AbandonWork, Finish, ReleaseGet, ReleaseGetFails, Unlock, UnlockFails,
     Crash, lockVars
<1>3. ASSUME NEW p \in Procs, now' = now, lock' \in {lock, None, Info(p)} PROVE NoFuture'
  <2>1. Info(p).at = now /\ now \in Nat
    BY InfoType, LoneTypes DEF TypeInv
  <2> QED BY <1>3, <2>1 DEF NoFuture
<1> QED
  BY <1>1, <1>2, <1>3, StepCases

(* If the delays suffice for the faults there are, a run that is the only  *)
(* one alive never gives the lock up, whatever objects crashed runs or its *)
(* own failed calls have left behind.                                      *)
THEOREM LoneRunSucceeds == DelaysCover => (Spec => []LoneRunNeverGivesUp)
<1> SUFFICES ASSUME DelaysCover PROVE Spec => []LoneRunNeverGivesUp
  OBVIOUS
<1>0. PICK W, M : Schedule(W, M)
  BY DEF DelaysCover
<1> DEFINE Inv ==
      /\ TypeInv /\ NoFuture /\ (faults = 0 => CalmInv)
      /\ \A p \in Procs : LoneOK(W, M, p)
<1>1. Init => Inv
  <2>1. Init => \A p \in Procs : LoneOK(W, M, p)
    BY DEF Init, LoneOK, Lone, Acquiring
  <2> QED BY <2>1, TypeInit, CalmInit DEF Init, NoFuture
<1>2. Inv /\ [Next]_vars => Inv'
  <2>1. CASE Next
    <3>1. Inv => TypeInv' /\ (faults' = 0 => CalmInv')
      BY <2>1, TypeStep, CalmStep, FaultsGrow DEF TypeInv, TypeOK
    <3> QED BY <1>0, <2>1, <3>1, LoneStep, NoFutureStep
  <2>2. CASE UNCHANGED vars
    <3>1. Inv => TypeInv'
      BY <2>2, TypeStep
    <3>2. (faults' = faults) /\ (CalmInv => CalmInv')
      BY <2>2 DEF vars, historyVars, CalmInv, LockIsHolders, LockIsFresh, SeenIsFresh,
           NoTheft, Holding, Working
    <3>3. Inv => NoFuture' /\ \A p \in Procs : LoneOK(W, M, p)'
      BY <2>2 DEF vars, historyVars, NoFuture, LoneOK, Lone, Acquiring, Alive, Working, Ages
    <3> QED BY <3>1, <3>2, <3>3
  <2> QED BY <2>1, <2>2
<1>3. Inv => LoneRunNeverGivesUp
  BY DEF LoneOK, LoneRunNeverGivesUp
<1> QED
  BY <1>1, <1>2, <1>3, PTL DEF Spec
=============================================================================
