---------------------------- MODULE BurstCounts ----------------------------
(***************************************************************************)
(* The combinational burst arithmetic that the read master and the write   *)
(* master of the memory tester share word for word (mtm_pattern_reader.v   *)
(* and mtm_pattern_writer.v).  Both masters drop the byte bits of the      *)
(* address and of the length of a command, so everything here counts words.*)
(*                                                                         *)
(* MAX_BURST_COUNT is a power of two (the only values the _hw.tcl files    *)
(* allow), so the bit slices of the code are remainders.                   *)
(***************************************************************************)
EXTENDS Integers

CONSTANTS
  MAX_BURST_COUNT,      \* longest burst, in words; 1 when bursts are disabled
  BURST_ENABLE,         \* generate the burst logic at all
  BURST_REALIGN_ENABLE  \* stop the first burst at the next burst boundary

ASSUME BurstAssumption ==
  /\ MAX_BURST_COUNT \in Nat \ {0}
  /\ BURST_ENABLE \in BOOLEAN
  /\ BURST_REALIGN_ENABLE \in BOOLEAN
  /\ ~BURST_ENABLE => MAX_BURST_COUNT = 1

address_burst_offset(command) == command.address % MAX_BURST_COUNT
length_burst_offset(command)  == command.length % MAX_BURST_COUNT

(***************************************************************************)
(* Length of a burst that ends at the next burst boundary, or of the whole *)
(* command when it does not reach that boundary.                           *)
(***************************************************************************)
short_first_burst_count(command) ==
  LET toBoundary == MAX_BURST_COUNT - address_burst_offset(command) IN
  IF ~BURST_ENABLE THEN 0
  ELSE IF command.length < toBoundary THEN length_burst_offset(command)
  ELSE toBoundary

(***************************************************************************)
(* Length of the burst that ends the command once every burst before it    *)
(* was a full one (after the realigning first burst, if there is one).     *)
(***************************************************************************)
short_last_burst_count(command) ==
  LET rest == IF BURST_REALIGN_ENABLE
              THEN (command.length - short_first_burst_count(command)) % MAX_BURST_COUNT
              ELSE length_burst_offset(command)
  IN  IF ~BURST_ENABLE THEN 0
      ELSE IF rest = 0 THEN MAX_BURST_COUNT ELSE rest

(***************************************************************************)
(* The multiplexer that picks the length of the next burst.  When the      *)
(* first burst already ends the command, the first count wins.             *)
(***************************************************************************)
burst_count_mux(enableLast, enableFirst, last, first) ==
  CASE ~BURST_ENABLE -> 1
    [] BURST_ENABLE /\ enableFirst -> first
    [] BURST_ENABLE /\ ~enableFirst /\ enableLast -> last
    [] BURST_ENABLE /\ ~enableFirst /\ ~enableLast -> MAX_BURST_COUNT
=============================================================================
