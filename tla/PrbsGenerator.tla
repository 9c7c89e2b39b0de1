--------------------------- MODULE PrbsGenerator ---------------------------
(***************************************************************************)
(* The PRBS generator, mtm_prbs_pattern_generator.v.  The word in its      *)
(* pipeline when src_ready is seen leaves one cycle later.                 *)
(*                                                                         *)
(* gen is the record of its registers; lengths count words.  The byte      *)
(* reversal of the output undoes that of the checker and is left out.      *)
(***************************************************************************)
EXTENDS PrbsPort

VARIABLE gen

Init ==
  gen = [start                   |-> FALSE,
         seed                    |-> FALSE,
         infinite_payload_length |-> FALSE,
         payload_length_counter  |-> 0,
         pipeline                |-> SEED_VALUE,
         pipeline_d1             |-> Zero,
         pipeline_enable_d1      |-> FALSE]

pipeline_enable(src_ready) == gen.start /\ src_ready

decrement_payload_length_counter(src_ready) ==
  gen.start /\ src_ready /\ ~gen.infinite_payload_length

(* Mutant: the payload ends with the counter at 0, one word late. *)
ClearAtZero(src_ready) ==
  /\ gen.start /\ ~gen.infinite_payload_length /\ gen.payload_length_counter = 0
  /\ pipeline_enable(src_ready)

clear_start(src_ready) ==
  /\ gen.start /\ ~gen.infinite_payload_length /\ gen.payload_length_counter = 1
  /\ pipeline_enable(src_ready)

src_valid == gen.pipeline_enable_d1
src_data  == gen.pipeline_d1

(* One clock edge. *)
Clock(write, src_ready) ==
  gen' = [start |-> ~clear_start(src_ready) /\ Load(write, "start", gen.start),
          seed |-> Seeded(write, gen.seed),
          infinite_payload_length |->
            Load(write, "infinite_payload_length", gen.infinite_payload_length),
          payload_length_counter |->
            IF write.reg # "payload_length" /\ decrement_payload_length_counter(src_ready)
            THEN (gen.payload_length_counter - 1) % LENGTH_WRAP
            ELSE Load(write, "payload_length", gen.payload_length_counter),
          pipeline |-> Pipeline(gen, pipeline_enable(src_ready)),
          pipeline_d1 |-> IF pipeline_enable(src_ready) THEN gen.pipeline ELSE gen.pipeline_d1,
          pipeline_enable_d1 |-> pipeline_enable(src_ready)]

(* The pipeline never holds the word 0, which would repeat for ever. *)
TypeOK ==
  gen \in [start                   : BOOLEAN,
           seed                    : BOOLEAN,
           infinite_payload_length : BOOLEAN,
           payload_length_counter  : 0..(LENGTH_WRAP - 1),
           pipeline                : Words \ {Zero},
           pipeline_d1             : Words,
           pipeline_enable_d1      : BOOLEAN]
=============================================================================
