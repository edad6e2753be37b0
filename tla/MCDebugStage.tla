----------------------------- MODULE MCDebugStage -----------------------------
(* Instance of DebugStage for TLC; MCDebugStage.cfg gives the constants. *)
EXTENDS DebugStage
=============================================================================
