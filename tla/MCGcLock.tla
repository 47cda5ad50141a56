------------------------------ MODULE MCGcLock ------------------------------
(***************************************************************************)
(* Instances of GcLock for TLC.                                            *)
(***************************************************************************)
EXTENDS GcLock, TLC

CONSTANTS p1, p2, p3

RunSymmetry == Permutations(Procs)

(* One unit of time is a heartbeat, 30 s.                                  *)
Short == [n \in 1..MaxAttempts |-> 1]

(* The delays 2^min(n, 5) s, rounded down.                                 *)
Doubling == [n \in 1..MaxAttempts |-> IF n < 5 THEN 0 ELSE 1]

(* They suffice for one fault: the last attempt is 4 units after the third.*)
Elapsed == [n \in 1..MaxAttempts |-> IF n < 5 THEN 0 ELSE n - 5]
Deadline == [k \in 0..MaxFaults |-> IF k = 0 THEN 1 ELSE MaxAttempts]

ASSUME DoublingSuffices == Backoff = Doubling => Schedule(Elapsed, Deadline)
=============================================================================
