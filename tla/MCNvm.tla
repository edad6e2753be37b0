------------------------------- MODULE MCNvm -------------------------------
(***************************************************************************)
(* Model-checking instance of Nvm; the .cfg files give the constants.       *)
(***************************************************************************)
EXTENDS Nvm
=============================================================================
