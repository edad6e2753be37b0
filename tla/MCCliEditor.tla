----------------------------- MODULE MCCliEditor -----------------------------
(***************************************************************************)
(* Model-checking instance of CliEditor: four commands with common          *)
(* beginnings, one of them a prefix of another and one switching            *)
(* autocompletion, in an order that is not the alphabet's.                  *)
(***************************************************************************)
EXTENDS CliEditor

MCInvitation == <<">">>
MCNames == << <<"a", "b", "b">>, <<"a", "b">>, <<"b", "a">>, <<"b", "b">> >>
MCToggling == <<"b", "a">>
=============================================================================
