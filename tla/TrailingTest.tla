---------------------------- MODULE TrailingTest ---------------------------
(***************************************************************************)
(* What the test controller promises: it has the write master fill the     *)
(* memory block by block and the read master follow it at a distance of    *)
(* block_trail blocks; without concurrent accesses the two take turns; and *)
(* the start bit clears once the last block has been read back.            *)
(***************************************************************************)
EXTENDS Integers

CONSTANT Setups  \* [blocks, trail, concurrent] of the tests that may be started

VARIABLES
  running,  \* the start bit
  setup,    \* the test that runs, or ran last
  written,  \* blocks handed to the write master
  reading,  \* blocks handed to the read master
  writing,  \* the write master is at work on a block
  due       \* blocks that the read master has not returned completely

vars == <<running, setup, written, reading, writing, due>>

(***************************************************************************)
(* Out of reset no test has run.                                           *)
(***************************************************************************)
NoTest == [blocks |-> 0, trail |-> 0, concurrent |-> FALSE]

Init ==
  /\ running = FALSE
  /\ setup = NoTest
  /\ written = 0 /\ reading = 0
  /\ writing = FALSE /\ due = 0

Start ==
  /\ ~running
  /\ setup' \in Setups
  /\ running' = TRUE
  /\ written' = 0 /\ reading' = 0
  /\ writing' \in {writing, FALSE}
  /\ UNCHANGED due

(***************************************************************************)
(* The write master never gets more than trail blocks ahead (as settings.h *)
(* says; the header of the core, v:48-50, counts one block more).          *)
(***************************************************************************)
MayWrite ==
  /\ running
  /\ ~writing
  /\ written < setup.blocks
  /\ written - reading < setup.trail

(***************************************************************************)
(* A block is read back when the write master is trail blocks ahead, or has*)
(* been given all of them; without concurrent accesses only when no block  *)
(* is being written.                                                       *)
(***************************************************************************)
MayRead ==
  /\ running
  /\ reading < written
  /\ written - reading >= setup.trail \/ written = setup.blocks
  /\ setup.concurrent \/ ~writing

(***************************************************************************)
(* In one step of the hardware a block may be handed out, the write master *)
(* may finish one and the read master may return one.                      *)
(***************************************************************************)
Step ==
  \E w, r, finish, return \in BOOLEAN :
    /\ w => MayWrite
    /\ r => MayRead
    /\ w /\ r => setup.concurrent
    /\ finish => writing
    /\ return => due > 0
    /\ written' = written + (IF w THEN 1 ELSE 0)
    /\ reading' = reading + (IF r THEN 1 ELSE 0)
    /\ writing' = (w \/ (writing /\ ~finish))
    /\ due' = due + (IF r THEN 1 ELSE 0) - (IF return THEN 1 ELSE 0)
    /\ UNCHANGED <<running, setup>>

Stop ==
  /\ running
  /\ reading = setup.blocks
  /\ due = 0
  /\ running' = FALSE
  /\ writing' \in {writing, FALSE}
  /\ UNCHANGED <<setup, written, reading, due>>

Next == Start \/ Step \/ Stop

Spec == Init /\ [][Next]_vars

(***************************************************************************)
(* Every test that is started ends.                                        *)
(***************************************************************************)
LiveSpec == Spec /\ []<>~running
=============================================================================
