---------------------------- MODULE PrbsChecker ----------------------------
(***************************************************************************)
(* The PRBS checker, mtm_prbs_pattern_checker.v: makes the sequence itself,*)
(* one word for each word it takes.  A word and the one expected are       *)
(* compared a cycle after it came in, and the failure flag is up two cycles*)
(* later; the start bit clears without waiting for that.                   *)
(***************************************************************************)
EXTENDS PrbsPort

CONSTANT NoWord  \* no word in this cycle

VARIABLE chk

Init ==
  chk = [start                   |-> FALSE,
         seed                    |-> FALSE,
         infinite_payload_length |-> FALSE,
         stop_on_failure         |-> FALSE,
         failure_detected        |-> FALSE,
         payload_length_counter  |-> 0,
         pipeline                |-> SEED_VALUE,
         pipeline_d1             |-> Zero,
         pipeline_enable_d1      |-> FALSE,
         pipeline_enable_d2      |-> FALSE,
         data_in_d1              |-> Zero,
         data_compare_d1         |-> FALSE]

(* snk_word is NoWord when snk_valid is low. *)
snk_ready == chk.start
pipeline_enable(snk_word) == chk.start /\ snk_word # NoWord

decrement_payload_length_counter(snk_word) ==
  pipeline_enable(snk_word) /\ ~chk.infinite_payload_length

(* Mutant: the checker stops when its last word is still to come. *)
ClearBeforeLastWord ==
  /\ chk.start
  /\ \/ chk.failure_detected /\ chk.stop_on_failure
     \/ ~chk.infinite_payload_length /\ chk.payload_length_counter <= 1

clear_start ==
  /\ chk.start
  /\ \/ chk.failure_detected /\ chk.stop_on_failure
     \/ ~chk.infinite_payload_length /\ chk.payload_length_counter = 0

data_compare == chk.data_in_d1 = chk.pipeline_d1

set_failure_detected == ~chk.data_compare_d1 /\ chk.pipeline_enable_d2

(* One clock edge. *)
Clock(write, snk_word) ==
  chk' = [start |-> ~clear_start /\ Load(write, "start", chk.start),
          seed |-> Seeded(write, chk.seed),
          infinite_payload_length |->
            Load(write, "infinite_payload_length", chk.infinite_payload_length),
          stop_on_failure |-> Load(write, "stop_on_failure", chk.stop_on_failure),
          failure_detected |-> set_failure_detected \/ chk.failure_detected,
          payload_length_counter |->
            IF write.reg # "payload_length" /\ decrement_payload_length_counter(snk_word)
            THEN (chk.payload_length_counter - 1) % LENGTH_WRAP
            ELSE Load(write, "payload_length", chk.payload_length_counter),
          pipeline |-> Pipeline(chk, pipeline_enable(snk_word)),
          pipeline_d1 |-> IF pipeline_enable(snk_word) THEN chk.pipeline ELSE chk.pipeline_d1,
          pipeline_enable_d1 |-> pipeline_enable(snk_word),
          pipeline_enable_d2 |-> chk.pipeline_enable_d1,
          data_in_d1 |-> IF pipeline_enable(snk_word) THEN snk_word ELSE chk.data_in_d1,
          data_compare_d1 |->
            IF chk.pipeline_enable_d1 THEN data_compare ELSE chk.data_compare_d1]

TypeOK ==
  chk \in [start                   : BOOLEAN,
           seed                    : BOOLEAN,
           infinite_payload_length : BOOLEAN,
           stop_on_failure         : BOOLEAN,
           failure_detected        : BOOLEAN,
           payload_length_counter  : 0..(LENGTH_WRAP - 1),
           pipeline                : Words \ {Zero},
           pipeline_d1             : Words,
           pipeline_enable_d1      : BOOLEAN,
           pipeline_enable_d2      : BOOLEAN,
           data_in_d1              : Words,
           data_compare_d1         : BOOLEAN]
=============================================================================
