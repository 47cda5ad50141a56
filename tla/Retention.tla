------------------------------ MODULE Retention ------------------------------
(***************************************************************************)
(* gc-live (gc.rs, prune_old_live_snapshots): a collection of kind "prune" *)
(* whose victims are those of compute_prune_set.  A snapshot carries the   *)
(* time at which its backup began; gc-live carries the time at which its   *)
(* command line was read, which may be well before it has the lock.        *)
(* Timestamps and durations are in one unit, of which a UTC day has Day.   *)
(***************************************************************************)
EXTENDS Gc

CONSTANTS
  RetainAll,    \* --retain-all
  RetainDaily,  \* --retain-daily, or NoDaily
  NoDaily,
  Day,          \* length of a day
  MaxWait       \* bound: gc-live has the lock so soon after it read the clock

ASSUME RetainAllAssumption == RetainAll \in Nat
ASSUME RetainDailyAssumption == RetainDaily \in Nat \cup {NoDaily}
ASSUME NoDailyAssumption == NoDaily \notin Nat
ASSUME DayAssumption == Day \in Nat \ {0}
ASSUME MaxWaitAssumption == MaxWait \in Nat

VARIABLES
  stamp,        \* stamp[n]: timestamp in the manifest n, once it was written
  asOf          \* asOf[g]: current_timestamp of run g

retentionVars == <<stamp, asOf>>

RetentionTypeOK ==
  /\ stamp \in [Names -> Nat \cup {Absent}]
  /\ asOf \in [GcRuns -> Nat]

RetentionInit ==
  /\ stamp = [n \in Names |-> Absent]
  /\ asOf = [g \in GcRuns |-> 0]

SameDay(m, n) == stamp[m] \div Day = stamp[n] \div Day

(* Mutant of BeyondAll: a snapshot exactly at the cutoff is not kept.      *)
BeyondAllInclusive(S, t) == {n \in S : stamp[n] <= t - RetainAll}

(* The snapshots in S that are past all_cutoff at time t.                  *)
BeyondAll(S, t) == {n \in S : stamp[n] < t - RetainAll}

(* Of these, the ones that daily retention groups by day.                  *)
WithinDaily(S, t) ==
  {n \in BeyondAll(S, t) : RetainDaily # NoDaily /\ stamp[n] >= t - RetainDaily}

(* Mutant of OneOfEachDay: it keeps the first of the day, not the newest,  *)
(* so that the one kept changes as the day's snapshots age.                *)
FirstOfEachDay(K, S) ==
  /\ K \subseteq S
  /\ \A n \in K, m \in S : SameDay(m, n) => stamp[n] <= stamp[m]
  /\ \A n \in S : \E m \in K : SameDay(m, n)
  /\ \A m, n \in K : SameDay(m, n) => m = n

(* K holds one snapshot of each day of S: the newest, and any one of them  *)
(* if several carry the same time (the order of the manifests, which the   *)
(* stable sorts keep, is that in which their downloads ended).             *)
OneOfEachDay(K, S) ==
  /\ K \subseteq S
  /\ \A n \in K, m \in S : SameDay(m, n) => stamp[m] <= stamp[n]
  /\ \A n \in S : \E m \in K : SameDay(m, n)
  /\ \A m, n \in K : SameDay(m, n) => m = n

(* What compute_prune_set may return for the live snapshots S at time t.   *)
PruneSets(S, t) ==
  {BeyondAll(S, t) \ K : K \in {K \in SUBSET S : OneOfEachDay(K, WithinDaily(S, t))}}

(* The run reads the clock, waits for the lock and starts.                 *)
RetentionStart(g) ==
  /\ GcStart(g)
  /\ \E t \in 0..now : t >= now - MaxWait /\ asOf' = [asOf EXCEPT ![g] = t]
  /\ UNCHANGED stamp

(* A step of run g.  When it has read every manifest, gc-live prunes what  *)
(* compute_prune_set returns: it has then one plan (GcPlanRemoval), or     *)
(* nothing to do (GcNothingToPrune).                                       *)
RetentionStep(g) ==
  /\ GcStep(g)
  /\ (Kind[g] = "prune" /\ gpc[g] = "read" /\ toRead[g] = {}) =>
        victims'[g] \in PruneSets(ReadNames(g) \cap LiveNames, asOf[g])
  /\ asOf' = IF gpc'[g] = "idle" THEN [asOf EXCEPT ![g] = 0] ELSE asOf
  /\ UNCHANGED stamp

RetentionAbort(g) ==
  /\ GcAbort(g)
  /\ asOf' = [asOf EXCEPT ![g] = 0]
  /\ UNCHANGED stamp
=============================================================================
