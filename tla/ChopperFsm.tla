---------------------------- MODULE ChopperFsm -----------------------------
(***************************************************************************)
(* The transaction chopper, mtm_chopper_fsm.v: cuts a transfer into blocks *)
(* and pushes one command every four clock cycles into a command FIFO, for *)
(* as long as the FIFO is not full.  The test controller holds two, one per*)
(* master; fsm is the record of the registers of either, and Clock what it *)
(* becomes at a clock edge.                                                *)
(*                                                                         *)
(* The one-hot ring has a phase per bit: "count" is state[0], "address" is *)
(* state[1], "length" is state[2] and "write" is state[3]; "idle" is no bit*)
(* set.  Lengths and addresses count words.                                *)
(***************************************************************************)
EXTENDS Integers

Phases == {"idle", "count", "address", "length", "write"}

Reset ==
  [enable_d1             |-> FALSE,
   length_counter        |-> 0,
   command_address       |-> 0,
   length_downcounter    |-> 0,
   compare_d1            |-> FALSE,
   command_length_d1     |-> 0,
   command_last_block_d1 |-> FALSE,
   state                 |-> "idle"]

(***************************************************************************)
(* The command on the FIFO's data input.                                   *)
(***************************************************************************)
command(fsm) ==
  [address |-> fsm.command_address,
   length  |-> fsm.command_length_d1,
   last    |-> fsm.command_last_block_d1]

fifo_write(fsm, enable, fifo_full) == enable /\ fsm.state = "write" /\ ~fifo_full

(***************************************************************************)
(* The ring.  The first trip starts at "address": the counters are loaded, *)
(* not advanced.  The ring ends with the command that is marked last.      *)
(***************************************************************************)
Rotate == [idle  |-> "idle", count |-> "address", address |-> "length",
           length |-> "write", write |-> "count"]

(* Mutant: goes on after the last block.                                    *)
NextStateEndless(fsm, initialize, enable, fifo_full) ==
  CASE initialize -> "address"
    [] ~initialize -> IF fifo_full THEN fsm.state ELSE Rotate[fsm.state]

NextState(fsm, initialize, enable, fifo_full) ==
  CASE initialize -> "address"
    [] ~initialize /\ fifo_write(fsm, enable, fifo_full) /\ fsm.command_last_block_d1 -> "idle"
    [] OTHER -> IF fifo_full THEN fsm.state ELSE Rotate[fsm.state]

(* Mutant: a last block that is full is taken for one before the last.      *)
LastBlockStrict(fsm, block_size) == fsm.length_downcounter < block_size

(***************************************************************************)
(* What is left of the transfer fits into one block.                       *)
(***************************************************************************)
compare(fsm, block_size) == fsm.length_downcounter <= block_size

(***************************************************************************)
(* One clock edge.                                                         *)
(***************************************************************************)
Clock(fsm, enable, transfer_length, block_size, base_address, fifo_full) ==
  LET initialize  == enable /\ ~fsm.enable_d1
      in(phase)   == enable /\ ~fifo_full /\ fsm.state = phase
  IN   [enable_d1 |-> enable,
        length_counter |->
          IF initialize THEN 0
          ELSE IF in("count") THEN fsm.length_counter + block_size ELSE fsm.length_counter,
        length_downcounter |->
          IF initialize THEN transfer_length
          ELSE IF in("count") THEN fsm.length_downcounter - block_size
          ELSE fsm.length_downcounter,
        command_address |->
          IF in("address") THEN base_address + fsm.length_counter ELSE fsm.command_address,
        compare_d1 |->
          IF in("address") THEN compare(fsm, block_size) ELSE fsm.compare_d1,
        command_length_d1 |->
          IF ~in("length") THEN fsm.command_length_d1
          ELSE IF fsm.compare_d1 THEN fsm.length_downcounter ELSE block_size,
        command_last_block_d1 |->
          IF in("length") THEN fsm.compare_d1 ELSE fsm.command_last_block_d1,
        state |-> NextState(fsm, initialize, enable, fifo_full)]

(***************************************************************************)
(* The values the registers may take.                                      *)
(***************************************************************************)
Registers ==
  [enable_d1 : BOOLEAN, length_counter : Nat, command_address : Nat,
   length_downcounter : Nat, compare_d1 : BOOLEAN, command_length_d1 : Nat,
   command_last_block_d1 : BOOLEAN, state : Phases]
=============================================================================
