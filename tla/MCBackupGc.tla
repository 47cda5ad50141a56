----------------------------- MODULE MCBackupGc -----------------------------
(***************************************************************************)
(* Instances of BackupGc for TLC: two backups of one replica, which use    *)
(* names of their own or the same one, and up to two collections.          *)
(***************************************************************************)
EXTENDS BackupGc, TLC

CONSTANTS b1, b2, h1, h2, g1, g2, r1

Identity == [n \in Names |-> r1]
SameReplica == [b \in Backups |-> r1]

OwnNames == b1 :> 1 @@ b2 :> 2
SameName == [b \in Backups |-> 1]

RmAndPrune == g1 :> "rm" @@ g2 :> "prune"
RmAndAll == g1 :> "rm" @@ g2 :> "all"
All == g1 :> "all"
Prune == g1 :> "prune"
=============================================================================
