------------------------------ MODULE MCUartRx ------------------------------
(***************************************************************************)
(* Model-checking instance of UartRx; the .cfg file gives the constants.    *)
(***************************************************************************)
EXTENDS UartRx
=============================================================================
