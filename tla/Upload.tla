------------------------------- MODULE Upload -------------------------------
(***************************************************************************)
(* What Snapshot relies on when it puts the archive of a part              *)
(* (upload_part_archives): a run that goes on to its manifest has found an *)
(* object at the key, or has put the whole archive there with a writer     *)
(* that could read all files; whatever stops a run, it changes the object  *)
(* once at most, and to anything but the whole archive only if its own     *)
(* writer has failed.                                                      *)
(***************************************************************************)
VARIABLES
  run,          \* what has become of the present run, if there is one
  readable,     \* its writer has not failed
  archive       \* what is at the key: "none", "whole" or "cut"

uploadVars == <<run, readable, archive>>

Init ==
  /\ run = "idle"
  /\ readable = TRUE
  /\ archive = "none"

(* A HEAD check takes the object as it is.                                 *)
Find ==
  /\ run = "idle"
  /\ archive # "none"
  /\ run' = "accepted"
  /\ UNCHANGED <<readable, archive>>

Begin ==
  /\ run = "idle"
  /\ run' = "upload"
  /\ UNCHANGED <<readable, archive>>

(* A staged file cannot be read, or nobody reads the archive any more.     *)
WriterFails ==
  /\ run \in {"upload", "stored", "failing"}
  /\ readable' = FALSE
  /\ UNCHANGED <<run, archive>>

(* The upload is completed, over an older object if there is one.          *)
Store ==
  /\ run = "upload"
  /\ run' = "stored"
  /\ archive' = IF readable THEN "whole" ELSE "cut"
  /\ UNCHANGED readable

(* An upload that has failed, perhaps because the answer to the call that  *)
(* completed it was lost, touches the object no more.                      *)
GiveUp ==
  /\ run \in {"upload", "stored"}
  /\ run' = "failing"
  /\ UNCHANGED <<readable, archive>>

Accept ==
  /\ run = "stored"
  /\ readable
  /\ run' = "accepted"
  /\ UNCHANGED <<readable, archive>>

(* The run is over, with its manifest or without, or is killed.            *)
End ==
  /\ run # "idle"
  /\ run' = "idle"
  /\ readable' = TRUE
  /\ UNCHANGED archive

Next == Find \/ Begin \/ WriterFails \/ Store \/ GiveUp \/ Accept \/ End

Spec == Init /\ [][Next]_uploadVars
=============================================================================
