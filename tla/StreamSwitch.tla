---------------------------- MODULE StreamSwitch ----------------------------
(***************************************************************************)
(* The two switches of the memory tester, mtm_two_to_one_st_mux.v in front *)
(* of the memory and mtm_one_to_two_st_demux.v behind it, as main.c sets   *)
(* them from test to test through their drivers.  One Clock is one rising  *)
(* edge.                                                                   *)
(*                                                                         *)
(* Lane A joins the custom pattern cores, lane B the PRBS cores.  A word   *)
(* is the lane it was made for and its number in the test.                 *)
(*                                                                         *)
(* The names are this module's own, so that one module of proofs can read  *)
(* it beside TestSweep, the software whose tests it carries.               *)
(***************************************************************************)
EXTENDS Integers, Sequences

CONSTANTS WORDS,  \* words of the longest test
          DEPTH   \* words the path through the memory holds

ASSUME StreamSwitchAssumption == WORDS \in Nat \ {0} /\ DEPTH \in Nat \ {0}

Lanes == {"A", "B"}

VARIABLES
  mux,      \* [input_select, valid_out, data_out]
  demux,    \* [output_select, valid_out, data_out], the last two for each lane
  path,     \* the words in the memory and its masters
  step,     \* the software
  lane,     \* the lane of the test
  payload,  \* words of the test
  sent, received

registers == <<mux, demux>>
test == <<lane, payload>>
switch_vars == <<registers, path, step, test, sent, received>>

-----------------------------------------------------------------------------
Word(l, n) == [lane |-> l, number |-> n]

SwitchInit ==
  /\ mux = [input_select |-> "A", valid_out |-> FALSE, data_out |-> Word("A", 0)]
  /\ demux = [output_select |-> "A",
              valid_out |-> [l \in Lanes |-> FALSE],
              data_out  |-> [l \in Lanes |-> Word("A", 0)]]
  /\ path = <<>>
  /\ step = "next" /\ lane = "A" /\ payload = 0 /\ sent = 0 /\ received = 0

-----------------------------------------------------------------------------
(* The multiplexer.  src_ready is TRUE when the path takes a word,          *)
(* snk_valid when the generator of the test offers one.                     *)

mux_pipeline_ready(src_ready) == ~mux.valid_out \/ src_ready

mux_pipeline_enable(src_ready, snk_valid) ==
  mux.input_select = lane /\ mux_pipeline_ready(src_ready) /\ snk_valid

mux_pending_data(src_ready, snk_valid) ==
  (mux.valid_out /\ src_ready) \/ mux_pipeline_enable(src_ready, snk_valid)

Multiplex(src_ready, snk_valid, select) ==
  mux' = [input_select |-> select,
          valid_out |-> IF mux_pipeline_ready(src_ready)
                        THEN mux_pipeline_enable(src_ready, snk_valid)
                        ELSE mux.valid_out,
          data_out |-> IF mux_pipeline_enable(src_ready, snk_valid)
                       THEN Word(lane, sent + 1) ELSE mux.data_out]

-----------------------------------------------------------------------------
(* The demultiplexer.  src_ready is the set of the lanes whose checker takes *)
(* a word, snk_valid is TRUE when the path offers one.                       *)

(* Mutant: the register of a lane takes a word over one that is stalled.    *)
ReadyOverStalled(l, src_ready) == TRUE

demux_pipeline_ready(l, src_ready) == ~demux.valid_out[l] \/ l \in src_ready

demux_pipeline_enable(l, src_ready, snk_valid) ==
  demux.output_select = l /\ demux_pipeline_ready(l, src_ready) /\ snk_valid

demux_snk_ready(src_ready) == demux_pipeline_ready(demux.output_select, src_ready)

(* pending_data_A and pending_data_B: a bit of the status for each output.   *)
demux_pending_data(l, src_ready, snk_valid) ==
  (demux.valid_out[l] /\ l \in src_ready) \/ demux_pipeline_enable(l, src_ready, snk_valid)

Demultiplex(src_ready, snk_valid, select) ==
  demux' = [output_select |-> select,
            valid_out |-> [l \in Lanes |->
                             IF demux_pipeline_ready(l, src_ready)
                             THEN demux_pipeline_enable(l, src_ready, snk_valid)
                             ELSE demux.valid_out[l]],
            data_out |-> [l \in Lanes |->
                            IF demux_pipeline_enable(l, src_ready, snk_valid)
                            THEN Head(path) ELSE demux.data_out[l]]]

-----------------------------------------------------------------------------
(* The words of this clock: out of the path, into it, out of the generator,  *)
(* into the checker.                                                         *)
Transport(in, out, valid, ready) ==
  LET rest == IF out /\ demux_snk_ready(ready) THEN Tail(path) ELSE path
  IN  /\ path' = IF in /\ mux.valid_out THEN Append(rest, mux.data_out) ELSE rest
      /\ sent' = IF mux_pipeline_enable(in, valid) THEN sent + 1 ELSE sent
      /\ received' = IF demux.valid_out[lane] /\ lane \in ready THEN received + 1
                     ELSE received

(* mux_input_select and demux_output_select look at the pending bits in one  *)
(* clock and write the selection in a later one; main() ignores a refusal.   *)
(* demux_output_select masks the bit of output A alone, so that words on     *)
(* their way out of output B never refuse a switch.                          *)
SelectLanes(in, out, valid, ready) ==
  \/ /\ step = "mux_read"
     /\ step' = IF mux_pending_data(in, valid) THEN "demux_read" ELSE "mux_write"
  \/ step = "mux_write" /\ step' = "demux_read"
  \/ /\ step = "demux_read"
     /\ step' = IF demux_pending_data("A", ready, out) THEN "start" ELSE "demux_write"
  \/ step = "demux_write" /\ step' = "start"
  \/ step = "start" /\ step' = "poll"

(* The software is between two accesses. *)
Compute == UNCHANGED step

(* Mutant: the generator is polled instead of the checker. *)
GeneratorDone == step = "poll" /\ sent = payload

(* The checker clears its start bit with the last word of its payload. *)
CheckerDone == step = "poll" /\ received = payload

Clock(in, out, valid, ready) ==
  /\ in => Len(path) < DEPTH
  /\ out => path # <<>>
  /\ valid => step = "poll" /\ sent < payload
  /\ Multiplex(in, valid, IF step = "mux_write" /\ step' # step THEN lane ELSE mux.input_select)
  /\ Demultiplex(ready, out,
       IF step = "demux_write" /\ step' # step THEN lane ELSE demux.output_select)
  /\ Transport(in, out, valid, ready)
  /\ UNCHANGED test

Tick(in, out, valid, ready) ==
  /\ SelectLanes(in, out, valid, ready) \/ Compute
  /\ Clock(in, out, valid, ready)

(* The checker has cleared its start bit: the software sets up another test. *)
NextTest ==
  /\ step = "next" \/ CheckerDone
  /\ step' = "mux_read"
  /\ lane' \in Lanes /\ payload' \in 1..WORDS
  /\ sent' = 0 /\ received' = 0
  /\ UNCHANGED <<registers, path>>

SwitchNext ==
  \/ NextTest
  \/ \E in, out, valid \in BOOLEAN, ready \in SUBSET Lanes : Tick(in, out, valid, ready)

SwitchSpec == SwitchInit /\ [][SwitchNext]_switch_vars

(* The clock and the software run; words that the path, the generator and    *)
(* the checker can move they move in the end.                                *)
Ticks(moves(_, _, _, _)) ==
  \E in, out, valid \in BOOLEAN, ready \in SUBSET Lanes :
    moves(in, out, valid, ready) /\ Tick(in, out, valid, ready)

Selects(in, out, valid, ready) == SelectLanes(in, out, valid, ready)
PathTakes(in, out, valid, ready)    == in /\ mux.valid_out
PathGives(in, out, valid, ready)    == out /\ demux_snk_ready(ready)
Generates(in, out, valid, ready)    == mux_pipeline_enable(in, valid)
Checks(in, out, valid, ready)       == demux.valid_out[lane] /\ lane \in ready

SwitchFairSpec ==
  /\ SwitchSpec
  /\ WF_switch_vars(Ticks(Selects)) /\ WF_switch_vars(Ticks(PathTakes))
  /\ WF_switch_vars(Ticks(PathGives)) /\ WF_switch_vars(Ticks(Generates))
  /\ WF_switch_vars(Ticks(Checks))

-----------------------------------------------------------------------------
(***************************************************************************)
(* Whatever stalls where, a checker is shown the words of its own test,    *)
(* each once and in order: none that was left over in a switch or in the   *)
(* memory from the test before, none of the other lane, none twice.  The   *)
(* pending bits do not show a stalled word, the driver never looks at the  *)
(* one of output B, and main() does not look at the result of a switch, so *)
(* this rests on the end of the test before.                               *)
(***************************************************************************)
RightChecker ==
  \A l \in Lanes :
    demux.valid_out[l] => l = lane /\ demux.data_out[l] = Word(lane, received + 1)

(***************************************************************************)
(* Every test comes through: no switch stays where the test before left it,*)
(* and no word is lost on the way.                                         *)
(***************************************************************************)
WordsArrive == step = "start" ~> received = payload
=============================================================================
