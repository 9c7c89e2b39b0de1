----------------------------- MODULE MCJtagUart -----------------------------
(***************************************************************************)
(* The driver with buffers of a few bytes.                                 *)
(***************************************************************************)
EXTENDS JtagUart
=============================================================================
