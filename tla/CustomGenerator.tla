-------------------------- MODULE CustomGenerator --------------------------
(***************************************************************************)
(* The custom pattern generator, mtm_custom_pattern_generator.v: plays a   *)
(* pattern memory in a loop until the payload is used up.  A word is read  *)
(* from the memory in the cycle in which src_ready is seen and leaves three*)
(* cycles later (the ready latency of its source port).                    *)
(*                                                                         *)
(* gen is the record of its registers; lengths count words.  The byte      *)
(* reversal of the output undoes that of the checker and is left out.      *)
(***************************************************************************)
EXTENDS PatternPort

VARIABLE gen

Init ==
  gen = [start                    |-> FALSE,
         infinite_payload_length  |-> FALSE,
         payload_length_counter   |-> 0,
         pattern_length           |-> 0,
         pattern_position_counter |-> 0,
         pattern_length_minus_one |-> 0,
         pattern_memory           |-> [a \in Addresses |-> UnwrittenWord],
         address_reg              |-> 0,
         memory_data              |-> UnwrittenWord,
         memory_data_d1           |-> UnwrittenWord,
         read_memory_d1           |-> FALSE,
         read_memory_d2           |-> FALSE,
         read_memory_d3           |-> FALSE]

clear_start ==
  gen.start /\ ~gen.infinite_payload_length /\ gen.payload_length_counter = 0

increment_pattern_position_counter(src_ready) == gen.start /\ src_ready /\ ~clear_start

(* Mutant: a payload word is counted although the sink is not ready.        *)
DecrementUnready(src_ready) ==
  gen.start /\ ~gen.infinite_payload_length /\ gen.payload_length_counter # 0

decrement_payload_length_counter(src_ready) ==
  gen.start /\ src_ready /\ ~gen.infinite_payload_length

(* Mutant: the last word of the payload is not read.                        *)
ReadAllButLast(src_ready) ==
  gen.start /\ src_ready /\ (gen.infinite_payload_length \/ gen.payload_length_counter > 1)

(* Mutant: words are read although the sink is not ready.                   *)
ReadUnready(src_ready) ==
  gen.start /\ (gen.infinite_payload_length \/ gen.payload_length_counter # 0)

read_memory(src_ready) ==
  gen.start /\ src_ready /\ (gen.infinite_payload_length \/ gen.payload_length_counter # 0)

src_valid == gen.read_memory_d3
src_data  == gen.memory_data_d1

(***************************************************************************)
(* The words that have been read and have not left yet.                    *)
(***************************************************************************)
InPipeline ==
  LET stage(b) == IF b THEN 1 ELSE 0
  IN  stage(gen.read_memory_d1) + stage(gen.read_memory_d2) + stage(gen.read_memory_d3)

(***************************************************************************)
(* One clock edge.  The memory registers its address and its output; the   *)
(* last register is enabled for the words that were asked for.             *)
(***************************************************************************)
Clock(write, src_ready) ==
  gen' = [start |-> ~clear_start /\ Load(write, "start", gen.start),
          infinite_payload_length |->
            Load(write, "infinite_payload_length", gen.infinite_payload_length),
          payload_length_counter |->
            IF write.reg # "payload_length" /\ decrement_payload_length_counter(src_ready)
            THEN (gen.payload_length_counter - 1) % LENGTH_WRAP
            ELSE Load(write, "payload_length", gen.payload_length_counter),
          pattern_length |-> Load(write, "pattern_length", gen.pattern_length),
          pattern_position_counter |->
            IF write.reg # "pattern_position" /\ increment_pattern_position_counter(src_ready)
            THEN After(gen.pattern_position_counter, gen.pattern_length_minus_one)
            ELSE Load(write, "pattern_position", gen.pattern_position_counter),
          pattern_length_minus_one |->
            IF write.reg = "start" /\ ~clear_start
            THEN (gen.pattern_length - 1) % MAX_PATTERN_LENGTH
            ELSE gen.pattern_length_minus_one,
          pattern_memory |-> Filled(write, gen.pattern_memory),
          address_reg    |-> gen.pattern_position_counter,
          memory_data    |-> gen.pattern_memory[gen.address_reg],
          memory_data_d1 |-> IF gen.read_memory_d2 THEN gen.memory_data ELSE gen.memory_data_d1,
          read_memory_d1 |-> read_memory(src_ready),
          read_memory_d2 |-> gen.read_memory_d1,
          read_memory_d3 |-> gen.read_memory_d2]

TypeOK ==
  gen \in [start                    : BOOLEAN,
           infinite_payload_length  : BOOLEAN,
           payload_length_counter   : 0..(LENGTH_WRAP - 1),
           pattern_length           : 0..MAX_PATTERN_LENGTH,
           pattern_position_counter : Addresses,
           pattern_length_minus_one : Addresses,
           pattern_memory           : [Addresses -> Words],
           address_reg              : Addresses,
           memory_data              : Words,
           memory_data_d1           : Words,
           read_memory_d1           : BOOLEAN,
           read_memory_d2           : BOOLEAN,
           read_memory_d3           : BOOLEAN]
=============================================================================
