----------------------------- MODULE BlockPlan -----------------------------
(***************************************************************************)
(* The blocks a test is cut into: the reference that the transaction       *)
(* chopper (ChopperFsm) is compared with, and the source of the command    *)
(* sequences the read and the write master are run on.                     *)
(***************************************************************************)
EXTENDS Integers, Sequences

NumberOfBlocks(length, block) == (length + block - 1) \div block

(***************************************************************************)
(* Block i of a transfer: all blocks are full but perhaps the last one.    *)
(***************************************************************************)
Block(i, base, length, block) ==
  LET offset == (i - 1) * block IN
  [address    |-> base + offset,
   length     |-> IF offset + block < length THEN block ELSE length - offset,
   early_done |-> offset + block < length]

(***************************************************************************)
(* All blocks of a transfer.  The read command of every block but the last *)
(* one asks for early done.                                                *)
(***************************************************************************)
Blocks(base, length, block) ==
  [i \in 1..NumberOfBlocks(length, block) |-> Block(i, base, length, block)]
=============================================================================
