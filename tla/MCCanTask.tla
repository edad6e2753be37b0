----------------------------- MODULE MCCanTask -----------------------------
(***************************************************************************)
(* Model-checking instance of CanTask; the .cfg files give the constants.   *)
(***************************************************************************)
EXTENDS CanTask
=============================================================================
