----------------------------- MODULE MCPrbsTest -----------------------------
(***************************************************************************)
(* PRBS tests with words of three bits.                                    *)
(***************************************************************************)
EXTENDS PrbsTest

(* x^3 + x^2 + 1, whose highest bit takes the feedback always. *)
Taps == [d \in 0..2 |-> d = 1]
Seed == [d \in 0..2 |-> d # 1]

(* As main.c sets the cores up, and the two other ways to run them. *)
AllModes == {[infinite |-> FALSE, stop |-> FALSE],
             [infinite |-> FALSE, stop |-> TRUE],
             [infinite |-> TRUE,  stop |-> FALSE]}
=============================================================================
