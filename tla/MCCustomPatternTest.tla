------------------------ MODULE MCCustomPatternTest ------------------------
(***************************************************************************)
(* Custom pattern tests with small patterns.                               *)
(***************************************************************************)
EXTENDS CustomPatternTest

(***************************************************************************)
(* A pattern that fills the memory and one that leaves half of it.         *)
(***************************************************************************)
TwoPatterns == {<<0>>, <<1, 0>>}
ThreeWords  == {<<1, 0, 0>>}

(***************************************************************************)
(* As main.c sets the cores up, and the two other ways to run them.        *)
(***************************************************************************)
AllModes == {[infinite |-> FALSE, stop |-> FALSE],
             [infinite |-> FALSE, stop |-> TRUE],
             [infinite |-> TRUE,  stop |-> FALSE]}
SweepMode == {[infinite |-> FALSE, stop |-> FALSE]}
=============================================================================
