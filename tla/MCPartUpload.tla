---------------------------- MODULE MCPartUpload ----------------------------
(***************************************************************************)
(* PartUpload for TLC: its constants are numbers, given by the .cfg files. *)
(***************************************************************************)
EXTENDS PartUpload
=============================================================================
