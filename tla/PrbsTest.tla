------------------------------ MODULE PrbsTest ------------------------------
(***************************************************************************)
(* A sweep of PRBS tests from end to end: main.c programs generator and    *)
(* checker, starts them, polls the checker and draws its verdict.  Neither *)
(* core is ever told a word: each makes the sequence by itself and goes on *)
(* from test to test where it stopped, or from the seed.                   *)
(*                                                                         *)
(* The path through the memory is a FIFO that moves when it likes and may  *)
(* hand out a wrong word.  One Clock step is one clock edge; the software  *)
(* makes one access to a register in a step, or none.                      *)
(***************************************************************************)
EXTENDS PrbsPort

CONSTANTS
  NoWord,
  Payloads,       \* payload lengths of the sweep
  Modes,          \* [infinite, stop]: modes the cores are set up for
  TIMEOUT,        \* polls before the software gives up
  CHANNEL_WORDS   \* words the path holds

VARIABLES
  gen, chk,   \* registers of the generator and of the checker
  channel,    \* words on the path, oldest first
  sw,         \* the software: pc and locals
  corrupted   \* history: the path has handed out a wrong word

vars == <<gen, chk, channel, sw, corrupted>>

Generator == INSTANCE PrbsGenerator
Checker   == INSTANCE PrbsChecker

ASSUME PrbsTestAssumption ==
  /\ Modes \subseteq [infinite : BOOLEAN, stop : BOOLEAN]
  /\ Payloads \subseteq 1..(LENGTH_WRAP - 1)
  /\ TIMEOUT \in Nat \ {0} /\ CHANNEL_WORDS \in Nat \ {0}
  /\ NoWord \notin Words

Init ==
  /\ Generator!Init /\ Checker!Init
  /\ channel = <<>>
  /\ sw = [pc |-> "infinite", length |-> 0, counter |-> 0, verdict |-> "none"]
  /\ corrupted = FALSE

-----------------------------------------------------------------------------
(* The path between the cores.                                             *)

Leaving == IF Generator!src_valid THEN <<Generator!src_data>> ELSE <<>>

(* The generator's ready latency is one cycle. *)
MayAsk == Len(channel) + Len(Leaving) < CHANNEL_WORDS

Offers == {NoWord} \cup (IF channel = <<>> THEN {} ELSE Words)

(* One edge of the hardware, with the writes on the two control ports. *)
Hardware(ready, word, gen_write, chk_write) ==
  LET taken == Checker!pipeline_enable(word)
  IN  /\ Generator!Clock(gen_write, ready)
      /\ Checker!Clock(chk_write, word)
      /\ channel' = (IF taken THEN Tail(channel) ELSE channel) \o Leaving
      /\ corrupted' = (corrupted \/ (taken /\ word # Head(channel)))

-----------------------------------------------------------------------------
(* The software: one operation per register access.                        *)

GoTo(from, to) == sw.pc = from /\ sw' = [sw EXCEPT !.pc = to]

(***************************************************************************)
(* main, before the sweep: whether payloads are infinite, and whether a    *)
(* failure stops the checker.  main answers no to both.  The write to the  *)
(* generator and the one to the checker behind it are one step here: both  *)
(* cores are stopped.                                                      *)
(***************************************************************************)
set_infinite_payload_length(ready, word) ==
  /\ GoTo("infinite", "stop")
  /\ \E mode \in Modes :
       LET write == Write("infinite_payload_length", mode.infinite)
       IN  Hardware(ready, word, write, write)

prbs_checker_set_stop_on_failure(ready, word) ==
  /\ \E next \in {"gen_seed", "gen_payload"} : GoTo("stop", next)
  /\ \E mode \in Modes :
       /\ mode.infinite = chk.infinite_payload_length
       /\ Hardware(ready, word, NoWrite, Write("stop_on_failure", mode.stop))

(* The sequence from its seed; main leaves it where it is. *)
prbs_generator_seed_enable(ready, word) ==
  /\ GoTo("gen_seed", "chk_seed")
  /\ Hardware(ready, word, Write("seed", TRUE), NoWrite)

prbs_checker_seed_enable(ready, word) ==
  /\ GoTo("chk_seed", "gen_payload")
  /\ Hardware(ready, word, NoWrite, Write("seed", TRUE))

(* program_prbs_pattern_payload_length: the payload, then the start bits. *)
prbs_generator_set_payload_length(ready, word) ==
  /\ sw.pc = "gen_payload"
  /\ \E length \in Payloads :
       /\ sw' = [pc |-> "chk_payload", length |-> length, counter |-> 0, verdict |-> "none"]
       /\ Hardware(ready, word, Write("payload_length", length), NoWrite)

prbs_checker_set_payload_length(ready, word) ==
  /\ GoTo("chk_payload", "gen_start")
  /\ Hardware(ready, word, NoWrite, Write("payload_length", sw.length))

prbs_generator_enable_start(ready, word) ==
  /\ GoTo("gen_start", "chk_start")
  /\ Hardware(ready, word, Write("start", TRUE), NoWrite)

prbs_checker_enable_start(ready, word) ==
  /\ GoTo("chk_start", "poll")
  /\ Hardware(ready, word, NoWrite, Write("start", TRUE))

(***************************************************************************)
(* validate_results: poll the start bit of the checker; the number of polls*)
(* is looked at before what the last one returned.                         *)
(***************************************************************************)
prbs_checker_read_start(ready, word) ==
  /\ sw.pc = "poll"
  /\ LET counter == sw.counter + 1
         timeout == counter = TIMEOUT
     IN  sw' = [sw EXCEPT !.counter = counter,
                          !.pc = IF timeout THEN "exit" ELSE IF chk.start THEN "poll" ELSE "judge",
                          !.verdict = IF timeout THEN "timeout" ELSE "none"]
  /\ Hardware(ready, word, NoWrite, NoWrite)

(* A failure ends the sweep; a pass goes on with the next test, or ends it. *)
prbs_checker_read_failure_detected(ready, word) ==
  /\ sw.pc = "judge"
  /\ \E next \in {"gen_seed", "gen_payload", "exit"} :
       /\ chk.failure_detected => next = "exit"
       /\ sw' = [pc |-> next, length |-> 0, counter |-> 0,
                 verdict |-> IF chk.failure_detected THEN "error" ELSE "pass"]
  /\ Hardware(ready, word, NoWrite, NoWrite)

(* No access in this cycle. *)
Compute(ready, word) == UNCHANGED sw /\ Hardware(ready, word, NoWrite, NoWrite)

Access(ready, word) ==
  \/ set_infinite_payload_length(ready, word)
  \/ prbs_checker_set_stop_on_failure(ready, word)
  \/ prbs_generator_seed_enable(ready, word)
  \/ prbs_checker_seed_enable(ready, word)
  \/ prbs_generator_set_payload_length(ready, word)
  \/ prbs_checker_set_payload_length(ready, word)
  \/ prbs_generator_enable_start(ready, word)
  \/ prbs_checker_enable_start(ready, word)
  \/ prbs_checker_read_start(ready, word)
  \/ prbs_checker_read_failure_detected(ready, word)

Clock(ready, word) ==
  /\ ready => MayAsk
  /\ word \in Offers
  /\ Access(ready, word) \/ Compute(ready, word)

Next == \E ready \in BOOLEAN, word \in Words \cup {NoWord} : Clock(ready, word)

Spec == Init /\ [][Next]_vars

-----------------------------------------------------------------------------
(* Properties.                                                             *)

(***************************************************************************)
(* Type correctness.  Part of it is that neither core ever gets to the word*)
(* 0, from which its sequence would not go on.                             *)
(***************************************************************************)
TypeOK ==
  /\ Generator!TypeOK /\ Checker!TypeOK
  /\ channel \in Seq(Words) /\ Len(channel) + Len(Leaving) <= CHANNEL_WORDS
  /\ sw \in [pc : {"infinite", "stop", "gen_seed", "chk_seed", "gen_payload", "chk_payload",
                   "gen_start", "chk_start", "poll", "judge", "exit"},
             length : {0} \cup Payloads, counter : 0..TIMEOUT,
             verdict : {"none", "pass", "error", "timeout"}]
  /\ corrupted \in BOOLEAN

(***************************************************************************)
(* Both cores are at the same place of the same sequence: the word the     *)
(* checker expects is the first on its way, each word on its way is        *)
(* followed by the one behind it, the last by the one the generator goes on*)
(* with; and what the checker still counts on is on its way or to be sent. *)
(* It holds over any number of tests without a word of data being set, and *)
(* only the software that seeds one core before the other breaks it.       *)
(***************************************************************************)
InFlight  == channel \o Leaving
Remaining == IF gen.start THEN gen.payload_length_counter ELSE 0

InStep ==
  /\ LET line == InFlight \o <<NextWord(gen)>>
     IN  sw.pc # "chk_seed" =>
           /\ line[1] = NextWord(chk)
           /\ \A i \in DOMAIN InFlight : line[i + 1] = pipeline_input(line[i])
  /\ ~gen.infinite_payload_length /\ sw.pc \in {"chk_start", "poll", "judge", "exit"} =>
       chk.payload_length_counter = Len(InFlight) + Remaining

(***************************************************************************)
(* The verdict is true: the software reports an error only when a word was *)
(* wrong, and a pass only when none was, none is missing and none is still *)
(* on its way.  The start bit it polls clears before the comparison of the *)
(* last word has reached the failure flag.                                 *)
(***************************************************************************)
VerdictIsTrue ==
  /\ sw.verdict = "error" => corrupted
  /\ sw.verdict = "pass" => ~corrupted /\ InFlight = <<>> /\ chk.payload_length_counter = 0
=============================================================================
