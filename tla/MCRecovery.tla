----------------------------- MODULE MCRecovery -----------------------------
(***************************************************************************)
(* Instances of Recovery for TLC: two snapshots that share a part, over    *)
(* two days, with a gc-live that is run again and again and a restore, or  *)
(* with two gc-live at once and none.                                      *)
(***************************************************************************)
EXTENDS Recovery, TLC

CONSTANTS b1, h1, h2, g1, g2, r1

Live == [n \in Names |-> r1]
SharedPart == 1 :> {h1, h2} @@ 2 :> {h2}
Prune == g1 :> "prune"
TwoPrune == g1 :> "prune" @@ g2 :> "prune"

GcSymmetry == Permutations(GcRuns)
=============================================================================
