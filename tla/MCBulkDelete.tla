---------------------------- MODULE MCBulkDelete ----------------------------
(***************************************************************************)
(* Instance of BulkDelete for TLC: three keys of one shard and one of      *)
(* another.                                                                *)
(***************************************************************************)
EXTENDS BulkDelete, TLC

CONSTANTS k1, k2, k3, k4, s1, s2

TwoShards == k1 :> s1 @@ k2 :> s1 @@ k3 :> s1 @@ k4 :> s2
=============================================================================
