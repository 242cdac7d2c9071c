----------------------------- MODULE MCOldServer -----------------------------
(***************************************************************************)
(* Instances of OldServer for TLC.                                         *)
(***************************************************************************)
EXTENDS OldServer
=============================================================================
