------------------------- MODULE CustomPatternTest -------------------------
(***************************************************************************)
(* A custom pattern test from end to end: the test software of main.c, the *)
(* pattern generator it starts, the path through the memory, the checker it*)
(* polls, and the verdict it draws.                                        *)
(*                                                                         *)
(* The path (timing adapter, multiplexer, write master, memory, read       *)
(* master, demultiplexer) is the environment: a FIFO of words that moves   *)
(* when it likes and may hand out a wrong word, as a bad memory does.      *)
(*                                                                         *)
(* One Clock step is one clock edge.  The software is a program counter; it*)
(* makes at most one access to the cores' registers per step, and not less *)
(* than GAP steps after the one before.  The loop that fills the pattern   *)
(* memories is one step: the cores are stopped meanwhile.                  *)
(***************************************************************************)
EXTENDS PatternPort

CONSTANTS
  NoWord,
  Patterns,       \* sequences of words that the populate functions write
  Payloads,       \* payload lengths of the sweep
  Modes,          \* [infinite, stop]: modes the cores are set up for
  TIMEOUT,        \* polls before the software gives up
  GAP,            \* clock cycles from one register access to the next
  CHANNEL_WORDS   \* words the path holds

VARIABLES
  gen, chk,   \* registers of the generator and of the checker
  channel,    \* words on the path, oldest first
  sw,         \* the software: pc, cycles to its next access, locals
  corrupted   \* history: the path has handed out a wrong word

vars == <<gen, chk, channel, sw, corrupted>>

Generator == INSTANCE CustomGenerator
Checker   == INSTANCE CustomChecker

ASSUME TestAssumption ==
  /\ Patterns \subseteq Seq(Words)
  /\ \A p \in Patterns : Len(p) \in 1..MAX_PATTERN_LENGTH
  /\ Modes \subseteq [infinite : BOOLEAN, stop : BOOLEAN]
  /\ Payloads \subseteq 1..(LENGTH_WRAP - 1)
  /\ TIMEOUT \in Nat \ {0} /\ GAP \in Nat \ {0} /\ CHANNEL_WORDS \in Nat \ {0}
  /\ NoWord \notin Words

Init ==
  /\ Generator!Init /\ Checker!Init
  /\ channel = <<>>
  /\ sw = [pc |-> "infinite", wait |-> 0, length |-> 0, counter |-> 0, verdict |-> "none"]
  /\ corrupted = FALSE

-----------------------------------------------------------------------------
(* The path between the cores.                                             *)

(***************************************************************************)
(* The path asks for a word only when it can take all that may still come: *)
(* the ready latency of the generator is three cycles.                     *)
(***************************************************************************)
MayAsk == Len(channel) + Generator!InPipeline < CHANNEL_WORDS

Offers == {NoWord} \cup (IF channel = <<>> THEN {} ELSE Words)

(***************************************************************************)
(* One edge of the hardware, with the writes on the two control ports.     *)
(***************************************************************************)
Hardware(ready, word, gen_write, chk_write) ==
  LET taken == Checker!valid_data(word)
      rest  == IF taken THEN Tail(channel) ELSE channel
  IN  /\ Generator!Clock(gen_write, ready)
      /\ Checker!Clock(chk_write, word)
      /\ channel' = IF Generator!src_valid THEN Append(rest, Generator!src_data) ELSE rest
      /\ corrupted' = (corrupted \/ (taken /\ word # Head(channel)))

-----------------------------------------------------------------------------
(* The software: one operation per register access.                        *)

At(pc) == sw.pc = pc /\ sw.wait = 0

(***************************************************************************)
(* An access that leaves the locals alone and goes on at next.             *)
(***************************************************************************)
GoTo(next) == sw' = [sw EXCEPT !.pc = next, !.wait = GAP - 1]

(***************************************************************************)
(* main, before the sweep: whether payloads are infinite, and whether a    *)
(* failure stops the checker.  main answers no to both.                    *)
(***************************************************************************)
set_infinite_payload_length(ready, word) ==
  /\ At("infinite")
  /\ GoTo("stop")
  /\ \E mode \in Modes :
       LET write == Write("infinite_payload_length", mode.infinite)
       IN  Hardware(ready, word, write, write)

checker_set_stop_on_failure(ready, word) ==
  /\ At("stop")
  /\ GoTo("populate")
  /\ \E mode \in Modes :
       /\ mode.infinite = chk.infinite_payload_length
       /\ Hardware(ready, word, NoWrite, Write("stop_on_failure", mode.stop))

(***************************************************************************)
(* populate_*: the pattern into both memories, its length into both cores, *)
(* and position 0 twice into the generator: the second call, which is meant*)
(* for the checker, has the generator's address.                           *)
(***************************************************************************)
populate_memories(ready, word) ==
  /\ At("populate")
  /\ \E pattern \in Patterns :
       /\ Hardware(ready, word, Write("pattern_memory", pattern), Write("pattern_memory", pattern))
       /\ sw' = [sw EXCEPT !.pc = "gen_length", !.wait = GAP - 1, !.length = Len(pattern)]

generator_set_pattern_length(ready, word) ==
  /\ At("gen_length")
  /\ GoTo("chk_length")
  /\ Hardware(ready, word, Write("pattern_length", sw.length), NoWrite)

checker_set_pattern_length(ready, word) ==
  /\ At("chk_length")
  /\ GoTo("gen_position")
  /\ Hardware(ready, word, NoWrite, Write("pattern_length", sw.length))

generator_set_pattern_position(ready, word) ==
  /\ At("gen_position")
  /\ GoTo("chk_position")
  /\ Hardware(ready, word, Write("pattern_position", 0), NoWrite)

checker_set_pattern_position(ready, word) ==
  /\ At("chk_position")
  /\ GoTo("gen_payload")
  /\ Hardware(ready, word, Write("pattern_position", 0), NoWrite)

(***************************************************************************)
(* program_custom_pattern_payload_length: the payload of the test into both*)
(* cores, then both start bits.                                            *)
(***************************************************************************)
generator_set_payload_length(ready, word) ==
  /\ At("gen_payload")
  /\ \E length \in Payloads :
       /\ sw' = [sw EXCEPT !.pc = "chk_payload", !.wait = GAP - 1, !.length = length,
                           !.counter = 0, !.verdict = "none"]
       /\ Hardware(ready, word, Write("payload_length", length), NoWrite)

checker_set_payload_length(ready, word) ==
  /\ At("chk_payload")
  /\ GoTo("gen_start")
  /\ Hardware(ready, word, NoWrite, Write("payload_length", sw.length))

generator_enable_start(ready, word) ==
  /\ At("gen_start")
  /\ GoTo("chk_start")
  /\ Hardware(ready, word, Write("start", TRUE), NoWrite)

checker_enable_start(ready, word) ==
  /\ At("chk_start")
  /\ GoTo("poll")
  /\ Hardware(ready, word, NoWrite, Write("start", TRUE))

(* Mutant: the software waits for the generator, not for the checker.       *)
PollGenerator(ready, word) ==
  /\ At("poll")
  /\ LET counter == sw.counter + 1 IN
       sw' = [sw EXCEPT !.wait = GAP - 1, !.counter = counter,
                        !.pc = CASE counter = TIMEOUT -> "exit"
                                 [] counter # TIMEOUT /\ ~gen.start -> "judge"
                                 [] OTHER -> "poll",
                        !.verdict = IF counter = TIMEOUT THEN "timeout" ELSE "none"]
  /\ Hardware(ready, word, NoWrite, NoWrite)

(***************************************************************************)
(* validate_results: poll the start bit of the checker; the number of polls*)
(* is looked at before what the last one returned.                         *)
(***************************************************************************)
checker_read_start(ready, word) ==
  /\ At("poll")
  /\ LET counter == sw.counter + 1 IN
       sw' = [sw EXCEPT !.wait = GAP - 1, !.counter = counter,
                        !.pc = CASE counter = TIMEOUT -> "exit"
                                 [] counter # TIMEOUT /\ ~chk.start -> "judge"
                                 [] OTHER -> "poll",
                        !.verdict = IF counter = TIMEOUT THEN "timeout" ELSE "none"]
  /\ Hardware(ready, word, NoWrite, NoWrite)

(***************************************************************************)
(* The verdict: a failure ends the sweep; a pass goes on with the next     *)
(* payload or the next pattern, or ends it too.                            *)
(***************************************************************************)
checker_read_failure_detected(ready, word) ==
  /\ At("judge")
  /\ \E next \in {"gen_payload", "populate", "exit"} :
       /\ chk.failure_detected => next = "exit"
       /\ sw' = [sw EXCEPT !.wait = GAP - 1, !.pc = next, !.length = 0, !.counter = 0,
                           !.verdict = IF chk.failure_detected THEN "error" ELSE "pass"]
  /\ Hardware(ready, word, NoWrite, NoWrite)

(***************************************************************************)
(* No access in this cycle.                                                *)
(***************************************************************************)
Compute(ready, word) ==
  /\ sw' = [sw EXCEPT !.wait = IF sw.wait = 0 THEN 0 ELSE sw.wait - 1]
  /\ Hardware(ready, word, NoWrite, NoWrite)

Access(ready, word) ==
  \/ set_infinite_payload_length(ready, word)
  \/ checker_set_stop_on_failure(ready, word)
  \/ populate_memories(ready, word)
  \/ generator_set_pattern_length(ready, word)
  \/ checker_set_pattern_length(ready, word)
  \/ generator_set_pattern_position(ready, word)
  \/ checker_set_pattern_position(ready, word)
  \/ generator_set_payload_length(ready, word)
  \/ checker_set_payload_length(ready, word)
  \/ generator_enable_start(ready, word)
  \/ checker_enable_start(ready, word)
  \/ checker_read_start(ready, word)
  \/ checker_read_failure_detected(ready, word)

Clock(ready, word) ==
  /\ ready => MayAsk
  /\ word \in Offers
  /\ Access(ready, word) \/ Compute(ready, word)

Next == \E ready \in BOOLEAN, word \in Words \cup {NoWord} : Clock(ready, word)

(***************************************************************************)
(* The clock runs; the path asks for a word in the end when it has room,   *)
(* and hands one over in the end when it has one.                          *)
(***************************************************************************)
Fairness ==
  /\ WF_vars(Next)
  /\ WF_vars(\E word \in Words \cup {NoWord} : Clock(TRUE, word))
  /\ WF_vars(\E ready \in BOOLEAN, word \in Words : Clock(ready, word))

Spec == Init /\ [][Next]_vars
FairSpec == Spec /\ Fairness

-----------------------------------------------------------------------------
(* Properties.                                                             *)

(***************************************************************************)
(* Type correctness.                                                       *)
(***************************************************************************)
TypeOK ==
  /\ Generator!TypeOK /\ Checker!TypeOK
  /\ channel \in Seq(Words) /\ Len(channel) <= CHANNEL_WORDS
  /\ sw \in [pc : {"infinite", "stop", "populate", "gen_length", "chk_length", "gen_position",
                   "chk_position", "gen_payload", "chk_payload", "gen_start", "chk_start",
                   "poll", "judge", "exit"},
             wait : 0..(GAP - 1), length : Nat, counter : 0..TIMEOUT,
             verdict : {"none", "pass", "error", "timeout"}]
  /\ corrupted \in BOOLEAN

(***************************************************************************)
(* The verdict is true: the software reports an error only when a word was *)
(* wrong, and a pass only when none was, none is missing and none is still *)
(* on its way.  The start bit it polls clears before the last comparison   *)
(* has reached the failure flag.                                           *)
(***************************************************************************)
InFlight == Len(channel) + Generator!InPipeline

VerdictIsTrue ==
  /\ sw.verdict = "error" => corrupted
  /\ sw.verdict = "pass" => ~corrupted /\ InFlight = 0 /\ chk.payload_length_counter = 0

(***************************************************************************)
(* The checker raises no false alarm: it finds a failure only after a word *)
(* was changed on the path.  It is part of VerdictIsTrue, and stated alone *)
(* for the payloads that break it.                                         *)
(***************************************************************************)
NoFalseAlarm == chk.failure_detected => corrupted

(***************************************************************************)
(* The two cores stay in step, a ready latency and two memory pipelines    *)
(* apart: what the checker still expects is what is on its way and what the*)
(* generator has still to send, and the generator's position in the pattern*)
(* is the checker's plus the words on their way.                           *)
(***************************************************************************)
Remaining == IF gen.start THEN gen.payload_length_counter ELSE 0

PayloadsAgree == chk.payload_length_counter = InFlight + Remaining

PositionsAgree ==
  (chk.pattern_position_counter + InFlight) % (gen.pattern_length_minus_one + 1)
    = gen.pattern_position_counter

InStep ==
  sw.pc \in {"chk_start", "poll", "judge", "exit"} =>
    PositionsAgree /\ (gen.infinite_payload_length \/ PayloadsAgree)

(***************************************************************************)
(* Both cores ask that their lengths and positions be written only while   *)
(* they are stopped: the software that waits for the checker alone never   *)
(* writes them while one of the two runs or a word is on its way.          *)
(***************************************************************************)
WrittenWhileStopped ==
  sw.pc \in {"populate", "gen_length", "chk_length", "gen_position", "chk_position",
             "gen_payload", "chk_payload"} =>
    ~gen.start /\ ~chk.start /\ InFlight = 0

(***************************************************************************)
(* A checker that is started stops, whatever the back pressure and whether *)
(* or not the words are right, when the payload is finite.                 *)
(***************************************************************************)
PayloadCompletes == chk.start /\ ~chk.infinite_payload_length ~> ~chk.start
=============================================================================
