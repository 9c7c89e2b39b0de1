---------------------------- MODULE MCTestSweep ----------------------------
(***************************************************************************)
(* Two rounds of three of four minor tests, the last of them the PRBS      *)
(* test, with two block sizes, trails and lengths.                         *)
(***************************************************************************)
EXTENDS TestSweep

const_TestsEnabled == {0, 2, 3}
=============================================================================
