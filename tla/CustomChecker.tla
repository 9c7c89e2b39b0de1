--------------------------- MODULE CustomChecker ---------------------------
(***************************************************************************)
(* The custom pattern checker, mtm_custom_pattern_checker.v: compares the  *)
(* words it receives with its own pattern memory.  A word is compared with *)
(* the memory three cycles after it came in and sets the failure flag two  *)
(* cycles later; the start bit clears without waiting for that.            *)
(*                                                                         *)
(* chk is the record of its registers.  A pipeline register data_in holds  *)
(* the word together with its valid bit: NoWord when that is low.          *)
(***************************************************************************)
EXTENDS PatternPort

CONSTANT NoWord  \* no word in this cycle

VARIABLE chk

Init ==
  chk = [start                    |-> FALSE,
         infinite_payload_length  |-> FALSE,
         stop_on_failure          |-> FALSE,
         failure_detected         |-> FALSE,
         payload_length_counter   |-> 0,
         pattern_length           |-> 0,
         pattern_position_counter |-> 0,
         pattern_length_minus_one |-> 0,
         pattern_memory           |-> [a \in Addresses |-> UnwrittenWord],
         address_reg              |-> 0,
         memory_data              |-> UnwrittenWord,
         memory_data_d1           |-> UnwrittenWord,
         data_in_d1               |-> NoWord,
         data_in_d2               |-> NoWord,
         data_in_d3               |-> NoWord,
         data_compare_d1          |-> FALSE,
         valid_data_d4            |-> FALSE]

snk_ready == chk.start

(***************************************************************************)
(* The word taken in this cycle, if any: snk_word is NoWord when snk_valid *)
(* is low.                                                                 *)
(***************************************************************************)
data_in(snk_word) == IF snk_ready THEN snk_word ELSE NoWord
valid_data(snk_word) == data_in(snk_word) # NoWord

increment_pattern_position_counter(snk_word) == valid_data(snk_word)

decrement_payload_length_counter(snk_word) ==
  valid_data(snk_word) /\ ~chk.infinite_payload_length

(* Mutant: the checker stops one word early.                                *)
ClearBeforeLastWord ==
  /\ chk.start
  /\ \/ chk.failure_detected /\ chk.stop_on_failure
     \/ ~chk.infinite_payload_length /\ chk.payload_length_counter <= 1

clear_start ==
  /\ chk.start
  /\ \/ chk.failure_detected /\ chk.stop_on_failure
     \/ ~chk.infinite_payload_length /\ chk.payload_length_counter = 0

data_compare == chk.memory_data_d1 = chk.data_in_d3

set_failure_detected == ~chk.data_compare_d1 /\ chk.valid_data_d4

(***************************************************************************)
(* One clock edge.                                                         *)
(***************************************************************************)
Clock(write, snk_word) ==
  chk' = [start |-> ~clear_start /\ Load(write, "start", chk.start),
          infinite_payload_length |->
            Load(write, "infinite_payload_length", chk.infinite_payload_length),
          stop_on_failure |-> Load(write, "stop_on_failure", chk.stop_on_failure),
          failure_detected |->
            set_failure_detected \/ (chk.failure_detected /\ write.reg # "clear_failure"),
          payload_length_counter |->
            IF write.reg # "payload_length" /\ decrement_payload_length_counter(snk_word)
            THEN (chk.payload_length_counter - 1) % LENGTH_WRAP
            ELSE Load(write, "payload_length", chk.payload_length_counter),
          pattern_length |-> Load(write, "pattern_length", chk.pattern_length),
          pattern_position_counter |->
            IF write.reg # "pattern_position" /\ increment_pattern_position_counter(snk_word)
            THEN After(chk.pattern_position_counter, chk.pattern_length_minus_one)
            ELSE Load(write, "pattern_position", chk.pattern_position_counter),
          pattern_length_minus_one |->
            IF write.reg = "start" /\ ~clear_start
            THEN (chk.pattern_length - 1) % MAX_PATTERN_LENGTH
            ELSE chk.pattern_length_minus_one,
          pattern_memory  |-> Filled(write, chk.pattern_memory),
          address_reg     |-> chk.pattern_position_counter,
          memory_data     |-> chk.pattern_memory[chk.address_reg],
          memory_data_d1  |->
            IF chk.data_in_d2 # NoWord THEN chk.memory_data ELSE chk.memory_data_d1,
          data_in_d1      |-> data_in(snk_word),
          data_in_d2      |-> chk.data_in_d1,
          data_in_d3      |-> chk.data_in_d2,
          data_compare_d1 |-> data_compare,
          valid_data_d4   |-> chk.data_in_d3 # NoWord]

TypeOK ==
  chk \in [start                    : BOOLEAN,
           infinite_payload_length  : BOOLEAN,
           stop_on_failure          : BOOLEAN,
           failure_detected         : BOOLEAN,
           payload_length_counter   : 0..(LENGTH_WRAP - 1),
           pattern_length           : 0..MAX_PATTERN_LENGTH,
           pattern_position_counter : Addresses,
           pattern_length_minus_one : Addresses,
           pattern_memory           : [Addresses -> Words],
           address_reg              : Addresses,
           memory_data              : Words,
           memory_data_d1           : Words,
           data_in_d1               : Words \cup {NoWord},
           data_in_d2               : Words \cup {NoWord},
           data_in_d3               : Words \cup {NoWord},
           data_compare_d1          : BOOLEAN,
           valid_data_d4            : BOOLEAN]
=============================================================================
