---------------------------- MODULE MCCanTxQueue ----------------------------
(***************************************************************************)
(* Model-checking instance of CanTxQueue; the .cfg files give the constants.*)
(***************************************************************************)
EXTENDS CanTxQueue
=============================================================================
