----------------------------- MODULE MCThreadPool -----------------------------
(***************************************************************************)
(* The instance of ThreadPool that TLC checks.                             *)
(***************************************************************************)
EXTENDS ThreadPool
=============================================================================
