--------------------------- MODULE MCStreamSwitch ---------------------------
(***************************************************************************)
(* Tests of up to six words, which fill both switches and the path between *)
(* them, follow each other on either lane.                                 *)
(***************************************************************************)
EXTENDS StreamSwitch
=============================================================================
