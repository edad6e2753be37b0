---------------------------- MODULE MCTaskStats ----------------------------
(***************************************************************************)
(* Model-checking instance of TaskStats; the .cfg files give the constants. *)
(***************************************************************************)
EXTENDS TaskStats
=============================================================================
