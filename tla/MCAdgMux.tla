------------------------------ MODULE MCAdgMux ------------------------------
(***************************************************************************)
(* Model-checking instance of AdgMux: two chips with two channels each, one *)
(* of them scanned and one reached by a probe alone, and one address in the *)
(* scan that nothing answers at.                                            *)
(***************************************************************************)
EXTENDS AdgMux

MCAddress == 0..2
MCDevice == {0, 1}
=============================================================================
