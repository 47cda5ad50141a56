------------------------------ MODULE Deletion ------------------------------
(***************************************************************************)
(* What Gc relies on when it hands blobs to delete_objects_bulk: only what *)
(* was handed over is deleted, each key any number of times as long as it  *)
(* is doomed, and never once it no longer is.  A key may cease to be       *)
(* doomed without having been deleted (GcDeleteError), and other runs may  *)
(* upload it again at any time.                                            *)
(***************************************************************************)
CONSTANTS
  Keys,         \* the keys of one call
  MayUpload     \* keys that other runs may upload meanwhile

VARIABLES
  stored,       \* the keys that are in the bucket
  doomed        \* the keys that may still be deleted

deletionVars == <<stored, doomed>>

Init ==
  /\ stored \in SUBSET Keys
  /\ doomed = Keys

Delete(k) ==
  /\ k \in doomed
  /\ stored' = stored \ {k}
  /\ UNCHANGED doomed

(* Some keys are done with.                                                *)
Settle ==
  /\ doomed' \in SUBSET doomed
  /\ UNCHANGED stored

(* Both at once: the answer to the only request for k has come.            *)
DeleteAndSettle(k) ==
  /\ k \in doomed
  /\ stored' = stored \ {k}
  /\ doomed' = doomed \ {k}

Upload(k) ==
  /\ k \in MayUpload
  /\ stored' = stored \cup {k}
  /\ UNCHANGED doomed

Next ==
  \/ Settle
  \/ \E k \in Keys : Delete(k) \/ DeleteAndSettle(k) \/ Upload(k)

Spec == Init /\ [][Next]_deletionVars
=============================================================================
