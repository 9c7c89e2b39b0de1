---------------------------- MODULE PatternPort ----------------------------
(***************************************************************************)
(* What the custom pattern generator and the custom pattern checker share: *)
(* the pattern memory, the position in it, and the registers of the control*)
(* port.  A write is a record [reg, value]; reg is "none" when there is no *)
(* write in a cycle.                                                       *)
(***************************************************************************)
EXTENDS Integers, Sequences

CONSTANTS
  MAX_PATTERN_LENGTH,  \* words of the pattern memory
  LENGTH_WRAP,         \* values of the payload counter (2^30 words)
  Words,               \* data words
  UnwrittenWord        \* content of the memory after power up

ASSUME PatternAssumption ==
  /\ MAX_PATTERN_LENGTH \in Nat \ {0}
  /\ LENGTH_WRAP \in Nat \ {0}
  /\ UnwrittenWord \in Words

Addresses == 0..(MAX_PATTERN_LENGTH - 1)

NoWrite == [reg |-> "none", value |-> 0]
Write(reg, value) == [reg |-> reg, value |-> value]

(***************************************************************************)
(* A register that is not written keeps its value.                         *)
(***************************************************************************)
Load(write, reg, old) == IF write.reg = reg THEN write.value ELSE old

(***************************************************************************)
(* The pattern memory after the words of a pattern have been written; words*)
(* behind the pattern keep what an earlier pattern left there.             *)
(***************************************************************************)
Filled(write, memory) ==
  IF write.reg = "pattern_memory"
  THEN [a \in Addresses |->
          IF a < Len(write.value) THEN write.value[a + 1] ELSE memory[a]]
  ELSE memory

(***************************************************************************)
(* The position after this one, in a pattern whose last word is at last.   *)
(***************************************************************************)
After(position, last) == IF position = last THEN 0 ELSE (position + 1) % MAX_PATTERN_LENGTH
=============================================================================
