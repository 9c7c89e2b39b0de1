---------------------------- MODULE SweepPromise ----------------------------
(***************************************************************************)
(* What the memory test software promises: a sweep tries every combination *)
(* of pattern, block size, trail and length once per round, one round      *)
(* after the other, and its verdict is 0 only if all of them have passed.  *)
(* The first test that does not pass decides the verdict and is the last.  *)
(***************************************************************************)
EXTENDS Integers, Bags

CONSTANTS Combinations,  \* the tests of a round
          Rounds         \* NUM_OF_TESTS, -1 for a sweep without end

VARIABLES passed,        \* how often each test has passed, a bag
          failure,       \* 0, 1 an error was detected, 2 a test timed out
          finished       \* the software has given its verdict

vars == <<passed, failure, finished>>

-----------------------------------------------------------------------------
Init == passed = EmptyBag /\ failure = 0 /\ finished = FALSE

Passes(c) == IF BagIn(c, passed) THEN passed[c] ELSE 0

Pass(c) ==
  /\ failure = 0 /\ ~finished
  /\ Rounds = -1 \/ Passes(c) < Rounds
  /\ \A d \in Combinations : Passes(c) <= Passes(d)
  /\ passed' = passed (+) SetToBag({c})
  /\ UNCHANGED <<failure, finished>>

Fail ==
  /\ failure = 0 /\ ~finished
  /\ failure' \in {1, 2}
  /\ UNCHANGED <<passed, finished>>

Finish ==
  /\ ~finished
  /\ failure = 0 => \A c \in Combinations : Passes(c) = Rounds
  /\ finished' = TRUE
  /\ UNCHANGED <<passed, failure>>

Next == (\E c \in Combinations : Pass(c)) \/ Fail \/ Finish

Spec == Init /\ [][Next]_vars
=============================================================================
