---------------------- MODULE CustomPatternTestProofs ----------------------
(***************************************************************************)
(* The verdict on a custom pattern test is true and both cores stay in     *)
(* step, for any patterns, words, path and time-out.  The invariant has    *)
(* four parts, each inductive with those before it: types, counts,         *)
(* positions, the verdict.  The first two need no condition; positions need*)
(* payloads of whole patterns, and the verdict three cycles between two    *)
(* register accesses besides.                                              *)
(***************************************************************************)
EXTENDS CustomPatternTest, TLAPS

(***************************************************************************)
(* Phases of the software.                                                 *)
(***************************************************************************)
SetUp == {"infinite", "stop", "populate", "gen_length", "chk_length", "gen_position",
          "chk_position", "gen_payload", "chk_payload", "gen_start"}
Testing == {"chk_start", "poll", "judge", "exit"}
LengthsSet == {"gen_position", "chk_position", "gen_payload", "chk_payload", "gen_start"}
                \cup Testing

Stage(b) == IF b THEN 1 ELSE 0

PatternLengths == {Len(pattern) : pattern \in Patterns}

-----------------------------------------------------------------------------
(* Types.                                                                  *)

(* What the software is about to write into a length register fits it. *)
Locals ==
  /\ sw.pc \in {"gen_length", "chk_length"} => sw.length \in PatternLengths
  /\ sw.pc \in {"chk_payload", "gen_start"} => sw.length \in Payloads
  /\ sw.pc # "exit" => sw.counter < TIMEOUT

TypeInv == TypeOK /\ InFlight <= CHANNEL_WORDS /\ Locals

-----------------------------------------------------------------------------
(* Counts.                                                                 *)

(* Nothing moves. *)
Idle ==
  /\ ~gen.start /\ ~chk.start /\ channel = <<>>
  /\ ~gen.read_memory_d1 /\ ~gen.read_memory_d2 /\ ~gen.read_memory_d3

Prepared ==
  /\ sw.pc \in SetUp => Idle
  /\ sw.pc = "chk_start" => ~chk.start
  /\ sw.pc \in {"chk_payload", "gen_start"} => gen.payload_length_counter = sw.length
  /\ sw.pc = "gen_start" => chk.payload_length_counter = sw.length

(***************************************************************************)
(* The counts add up; a generator that has counted to 0 and not stopped yet*)
(* has read its last word one cycle ago.                                   *)
(***************************************************************************)
Counted ==
  /\ gen.infinite_payload_length = chk.infinite_payload_length
  /\ sw.pc \in Testing /\ ~gen.infinite_payload_length =>
       /\ PayloadsAgree
       /\ gen.start /\ gen.payload_length_counter = 0 => gen.read_memory_d1

(***************************************************************************)
(* A checker that has stopped has found a failure or has all its words.    *)
(***************************************************************************)
Stopped ==
  /\ sw.pc = "judge" => ~chk.start
  /\ sw.pc \in {"poll", "judge"} /\ ~chk.start /\ ~chk.failure_detected =>
       ~chk.infinite_payload_length /\ chk.payload_length_counter = 0

CountInv == Prepared /\ Counted /\ Stopped

-----------------------------------------------------------------------------
(* Positions.                                                              *)

PatternWords == gen.pattern_length_minus_one + 1

(* The place, and the word there, k words after the checker's position. *)
Place(k) == (chk.pattern_position_counter + k) % PatternWords
Due(k) == gen.pattern_memory[Place(k)]

(* Both cores have the same pattern. *)
SamePattern ==
  /\ gen.pattern_memory = chk.pattern_memory
  /\ sw.pc = "chk_length" => gen.pattern_length = sw.length
  /\ sw.pc \in LengthsSet =>
       /\ gen.pattern_length \in PatternLengths
       /\ chk.pattern_length = gen.pattern_length
  /\ sw.pc \in Testing => gen.pattern_length_minus_one = gen.pattern_length - 1
  /\ sw.pc \in Testing \ {"chk_start"} =>
       chk.pattern_length_minus_one = gen.pattern_length_minus_one

(***************************************************************************)
(* The words on the path, and those in the pipeline of the generator, are  *)
(* the words of the pattern from the checker's position on.                *)
(***************************************************************************)
Line ==
  /\ chk.pattern_position_counter <= gen.pattern_length_minus_one
  /\ PositionsAgree
  /\ \A k \in 1..Len(channel) : channel[k] = Due(k - 1)
  /\ gen.read_memory_d3 => gen.memory_data_d1 = Due(Len(channel))
  /\ gen.read_memory_d2 => gen.memory_data = Due(Len(channel) + Stage(gen.read_memory_d3))
  /\ gen.read_memory_d1 =>
       gen.address_reg = Place(Len(channel) + Stage(gen.read_memory_d3) + Stage(gen.read_memory_d2))

(* What the checker still expects brings it back to the first word. *)
Whole ==
  /\ sw.pc # "infinite" => \E mode \in Modes : mode.infinite = gen.infinite_payload_length
  /\ sw.pc \in SetUp => gen.pattern_position_counter = 0 /\ chk.pattern_position_counter = 0
  /\ sw.pc \in Testing /\ ~gen.infinite_payload_length => Place(chk.payload_length_counter) = 0

LineInv == SamePattern /\ Line /\ Whole

-----------------------------------------------------------------------------
(* The verdict.                                                            *)

(* A wrong word is in the failure flag or on its way there. *)
Wrong(word, expected) == word # NoWord /\ word # expected

Alarm ==
  corrupted <=>
    \/ chk.failure_detected
    \/ chk.valid_data_d4 /\ ~chk.data_compare_d1
    \/ Wrong(chk.data_in_d3, chk.memory_data_d1)
    \/ Wrong(chk.data_in_d2, chk.memory_data)
    \/ Wrong(chk.data_in_d1, chk.pattern_memory[chk.address_reg])

(* A checker that has stopped without a failure empties its pipeline. *)
Drained ==
  /\ sw.pc \in {"poll", "judge"} /\ ~chk.start /\ ~chk.failure_detected =>
       chk.data_in_d1 = NoWord
  /\ sw.pc = "judge" /\ ~chk.failure_detected =>
       /\ chk.data_in_d2 = NoWord
       /\ sw.wait < GAP - 1 => chk.data_in_d3 = NoWord
       /\ sw.wait < GAP - 2 => ~chk.valid_data_d4

(* Where the software is between a pass and the payload of its next test. *)
Passed == {"populate", "gen_length", "chk_length", "gen_position", "chk_position",
           "gen_payload", "exit"}

Verdicts ==
  /\ sw.verdict = "error" => corrupted
  /\ sw.verdict = "pass" =>
       /\ sw.pc \in Passed
       /\ Idle /\ ~corrupted /\ chk.payload_length_counter = 0

VerdictInv == Alarm /\ Drained /\ Verdicts

-----------------------------------------------------------------------------
(* What the software does in a clock: the writes and where it goes on.      *)

Goes(from, to) == sw.pc = from /\ sw'.pc = to
Keep == sw'.length = sw.length /\ sw'.verdict = sw.verdict

Moves(gen_write, chk_write) ==
  \/ /\ sw'.pc = sw.pc /\ Keep
     /\ sw'.wait = IF sw.wait = 0 THEN 0 ELSE sw.wait - 1
     /\ gen_write = NoWrite /\ chk_write = NoWrite
  \/ /\ Goes("infinite", "stop") /\ Keep
     /\ \E mode \in Modes : gen_write = Write("infinite_payload_length", mode.infinite)
     /\ chk_write = gen_write
  \/ /\ Goes("stop", "populate") /\ Keep
     /\ gen_write = NoWrite
     /\ \E b \in BOOLEAN : chk_write = Write("stop_on_failure", b)
  \/ /\ Goes("populate", "gen_length") /\ sw'.verdict = sw.verdict
     /\ \E pattern \in Patterns :
          sw'.length = Len(pattern) /\ gen_write = Write("pattern_memory", pattern)
     /\ chk_write = gen_write
  \/ /\ Goes("gen_length", "chk_length") /\ Keep
     /\ gen_write = Write("pattern_length", sw.length) /\ chk_write = NoWrite
  \/ /\ Goes("chk_length", "gen_position") /\ Keep
     /\ gen_write = NoWrite /\ chk_write = Write("pattern_length", sw.length)
  \/ /\ Goes("gen_position", "chk_position") /\ Keep
     /\ gen_write = Write("pattern_position", 0) /\ chk_write = NoWrite
  \/ /\ Goes("chk_position", "gen_payload") /\ Keep
     /\ gen_write = Write("pattern_position", 0) /\ chk_write = NoWrite
  \/ /\ Goes("gen_payload", "chk_payload") /\ sw'.verdict = "none"
     /\ sw'.length \in Payloads
     /\ gen_write = Write("payload_length", sw'.length) /\ chk_write = NoWrite
  \/ /\ Goes("chk_payload", "gen_start") /\ Keep
     /\ gen_write = NoWrite /\ chk_write = Write("payload_length", sw.length)
  \/ /\ Goes("gen_start", "chk_start") /\ Keep
     /\ gen_write = Write("start", TRUE) /\ chk_write = NoWrite
  \/ /\ Goes("chk_start", "poll") /\ Keep
     /\ gen_write = NoWrite /\ chk_write = Write("start", TRUE)
  \/ /\ sw.pc = "poll" /\ gen_write = NoWrite /\ chk_write = NoWrite
     /\ \/ sw'.pc = "exit" /\ sw'.verdict = "timeout"
        \/ sw'.pc = "poll" /\ sw'.verdict = "none"
        \/ sw'.pc = "judge" /\ sw'.verdict = "none" /\ sw'.wait = GAP - 1 /\ ~chk.start
  \/ /\ sw.pc = "judge" /\ sw.wait = 0 /\ gen_write = NoWrite /\ chk_write = NoWrite
     /\ \/ sw'.pc = "exit" /\ sw'.verdict = "error" /\ chk.failure_detected
        \/ /\ sw'.pc \in {"populate", "gen_payload", "exit"} /\ sw'.verdict = "pass"
           /\ ~chk.failure_detected

SwType ==
  [pc : {"infinite", "stop", "populate", "gen_length", "chk_length", "gen_position",
         "chk_position", "gen_payload", "chk_payload", "gen_start", "chk_start",
         "poll", "judge", "exit"},
   wait : 0..(GAP - 1), length : Nat, counter : 0..TIMEOUT,
   verdict : {"none", "pass", "error", "timeout"}]

LEMMA PatternLengthsFit == PatternLengths \subseteq 1..MAX_PATTERN_LENGTH
BY TestAssumption DEF PatternLengths

(* Every operation is one of these moves. *)
LEMMA SoftwareMoves ==
  ASSUME sw \in SwType, chk.failure_detected \in BOOLEAN, chk.start \in BOOLEAN, Locals,
         NEW ready \in BOOLEAN, NEW word,
         Access(ready, word) \/ Compute(ready, word)
  PROVE  /\ \E gen_write, chk_write :
              Hardware(ready, word, gen_write, chk_write) /\ Moves(gen_write, chk_write)
         /\ sw' \in SwType /\ Locals'
<1>0. /\ GAP \in Nat \ {0} /\ GAP - 1 \in 0..(GAP - 1) /\ TIMEOUT \in Nat \ {0}
      /\ Payloads \subseteq Nat
  <2>1. Payloads \subseteq 1..(LENGTH_WRAP - 1)
    BY TestAssumption
  <2> QED
    BY <2>1, TestAssumption, PatternAssumption
<1>1. PatternLengths \subseteq Nat
  BY PatternLengthsFit
<1> USE <1>0, <1>1
<1>2. CASE Compute(ready, word)
  <2>1. sw' = [sw EXCEPT !.wait = IF sw.wait = 0 THEN 0 ELSE sw.wait - 1]
    BY <1>2 DEF Compute
  <2>2. (IF sw.wait = 0 THEN 0 ELSE sw.wait - 1) \in 0..(GAP - 1)
    BY DEF SwType
  <2>3. sw' \in SwType /\ Locals' /\ Moves(NoWrite, NoWrite)
    BY <2>1, <2>2 DEF Moves, Keep, SwType, Locals
  <2> QED
    BY <1>2, <2>3 DEF Compute
<1>3. CASE set_infinite_payload_length(ready, word)
  <2>1. PICK mode \in Modes :
          Hardware(ready, word, Write("infinite_payload_length", mode.infinite),
                   Write("infinite_payload_length", mode.infinite))
    BY <1>3 DEF set_infinite_payload_length
  <2>2. Moves(Write("infinite_payload_length", mode.infinite),
              Write("infinite_payload_length", mode.infinite)) /\ sw' \in SwType /\ Locals'
    BY <1>3 DEF set_infinite_payload_length, At, GoTo, Goes, Moves, Keep, SwType, Locals
  <2> QED
    BY <2>1, <2>2
<1>4. CASE checker_set_stop_on_failure(ready, word)
  <2>1. PICK mode \in Modes :
          Hardware(ready, word, NoWrite, Write("stop_on_failure", mode.stop))
    BY <1>4 DEF checker_set_stop_on_failure
  <2>2. mode.stop \in BOOLEAN
    BY TestAssumption
  <2>3. Moves(NoWrite, Write("stop_on_failure", mode.stop)) /\ sw' \in SwType /\ Locals'
    BY <1>4, <2>2 DEF checker_set_stop_on_failure, At, GoTo, Goes, Moves, Keep, SwType, Locals
  <2> QED
    BY <2>1, <2>3
<1>5. CASE populate_memories(ready, word)
  <2>1. PICK pattern \in Patterns :
          /\ Hardware(ready, word, Write("pattern_memory", pattern),
                      Write("pattern_memory", pattern))
          /\ sw' = [sw EXCEPT !.pc = "gen_length", !.wait = GAP - 1, !.length = Len(pattern)]
    BY <1>5 DEF populate_memories
  <2>2. Len(pattern) \in PatternLengths
    BY DEF PatternLengths
  <2>3. sw.pc = "populate"
    BY <1>5 DEF populate_memories, At
  <2>4. Moves(Write("pattern_memory", pattern), Write("pattern_memory", pattern))
        /\ sw' \in SwType /\ Locals'
    BY <2>1, <2>2, <2>3 DEF Goes, Moves, Keep, SwType, Locals
  <2> QED
    BY <2>1, <2>4
<1>6. CASE generator_set_pattern_length(ready, word)
  <2>1. Moves(Write("pattern_length", sw.length), NoWrite) /\ sw' \in SwType /\ Locals'
    BY <1>6 DEF generator_set_pattern_length, At, GoTo, Goes, Moves, Keep, SwType, Locals
  <2> QED
    BY <1>6, <2>1 DEF generator_set_pattern_length
<1>7. CASE checker_set_pattern_length(ready, word)
  <2>1. Moves(NoWrite, Write("pattern_length", sw.length)) /\ sw' \in SwType /\ Locals'
    BY <1>7 DEF checker_set_pattern_length, At, GoTo, Goes, Moves, Keep, SwType, Locals
  <2> QED
    BY <1>7, <2>1 DEF checker_set_pattern_length
<1>8. CASE generator_set_pattern_position(ready, word)
  <2>1. Moves(Write("pattern_position", 0), NoWrite) /\ sw' \in SwType /\ Locals'
    BY <1>8 DEF generator_set_pattern_position, At, GoTo, Goes, Moves, Keep, SwType, Locals
  <2> QED
    BY <1>8, <2>1 DEF generator_set_pattern_position
<1>9. CASE checker_set_pattern_position(ready, word)
  <2>1. Moves(Write("pattern_position", 0), NoWrite) /\ sw' \in SwType /\ Locals'
    BY <1>9 DEF checker_set_pattern_position, At, GoTo, Goes, Moves, Keep, SwType, Locals
  <2> QED
    BY <1>9, <2>1 DEF checker_set_pattern_position
<1>10. CASE generator_set_payload_length(ready, word)
  <2>1. PICK length \in Payloads :
          /\ sw' = [sw EXCEPT !.pc = "chk_payload", !.wait = GAP - 1, !.length = length,
                              !.counter = 0, !.verdict = "none"]
          /\ Hardware(ready, word, Write("payload_length", length), NoWrite)
    BY <1>10 DEF generator_set_payload_length
  <2>2. sw.pc = "gen_payload"
    BY <1>10 DEF generator_set_payload_length, At
  <2>3. /\ sw'.pc = "chk_payload" /\ sw'.length = length /\ sw'.verdict = "none"
        /\ sw'.counter = 0
    BY <2>1 DEF SwType
  <2>4. Moves(Write("payload_length", length), NoWrite)
    BY <2>2, <2>3 DEF Goes, Moves
  <2>5. sw' \in SwType
    <3>1. sw' = [pc |-> "chk_payload", wait |-> GAP - 1, length |-> length, counter |-> 0,
                 verdict |-> "none"]
      BY <2>1 DEF SwType
    <3> QED
      BY <3>1 DEF SwType
  <2>6. Locals'
    BY <2>3 DEF Locals
  <2> QED
    BY <2>1, <2>4, <2>5, <2>6
<1>11. CASE checker_set_payload_length(ready, word)
  <2>1. Moves(NoWrite, Write("payload_length", sw.length)) /\ sw' \in SwType /\ Locals'
    BY <1>11 DEF checker_set_payload_length, At, GoTo, Goes, Moves, Keep, SwType, Locals
  <2> QED
    BY <1>11, <2>1 DEF checker_set_payload_length
<1>12. CASE generator_enable_start(ready, word)
  <2>1. Moves(Write("start", TRUE), NoWrite) /\ sw' \in SwType /\ Locals'
    BY <1>12 DEF generator_enable_start, At, GoTo, Goes, Moves, Keep, SwType, Locals
  <2> QED
    BY <1>12, <2>1 DEF generator_enable_start
<1>13. CASE checker_enable_start(ready, word)
  <2>1. Moves(NoWrite, Write("start", TRUE)) /\ sw' \in SwType /\ Locals'
    BY <1>13 DEF checker_enable_start, At, GoTo, Goes, Moves, Keep, SwType, Locals
  <2> QED
    BY <1>13, <2>1 DEF checker_enable_start
<1>14. CASE checker_read_start(ready, word)
  <2>1. sw.counter + 1 \in 0..TIMEOUT /\ sw.pc = "poll"
    BY <1>14 DEF checker_read_start, At, SwType, Locals
  <2>2. Moves(NoWrite, NoWrite) /\ sw' \in SwType
    BY <1>14, <2>1 DEF checker_read_start, Moves, SwType
  <2>3. /\ sw'.pc \in {"poll", "judge", "exit"}
        /\ sw'.pc # "exit" => sw'.counter = sw.counter + 1 /\ sw'.counter # TIMEOUT
    BY <1>14 DEF checker_read_start, SwType
  <2>4. Locals'
    BY <2>1, <2>3 DEF Locals
  <2> QED
    BY <1>14, <2>2, <2>4 DEF checker_read_start
<1>15. CASE checker_read_failure_detected(ready, word)
  <2>1. PICK next \in {"gen_payload", "populate", "exit"} :
          /\ chk.failure_detected => next = "exit"
          /\ sw' = [sw EXCEPT !.wait = GAP - 1, !.pc = next, !.length = 0, !.counter = 0,
                              !.verdict = IF chk.failure_detected THEN "error" ELSE "pass"]
    BY <1>15 DEF checker_read_failure_detected
  <2>2. sw.pc = "judge" /\ sw.wait = 0
    BY <1>15 DEF checker_read_failure_detected, At
  <2>3. /\ sw'.pc = next /\ sw'.counter = 0
        /\ sw'.verdict = IF chk.failure_detected THEN "error" ELSE "pass"
    BY <2>1 DEF SwType
  <2>4. Moves(NoWrite, NoWrite)
    BY <2>1, <2>2, <2>3 DEF Moves
  <2>5. sw' \in SwType
    <3>1. sw' = [pc |-> next, wait |-> GAP - 1, length |-> 0, counter |-> 0,
                 verdict |-> IF chk.failure_detected THEN "error" ELSE "pass"]
      BY <2>1 DEF SwType
    <3> QED
      BY <3>1 DEF SwType
  <2>6. Locals'
    BY <2>3 DEF Locals
  <2> QED
    BY <1>15, <2>4, <2>5, <2>6 DEF checker_read_failure_detected
<1> QED
  BY <1>2, <1>3, <1>4, <1>5, <1>6, <1>7, <1>8, <1>9, <1>10, <1>11, <1>12, <1>13, <1>14, <1>15
     DEF Access

-----------------------------------------------------------------------------
(* A clock register by register: what the software does is in the phases   *)
(* it comes from and goes to, what the cores do in the words read and taken*)

GeneratorType ==
  [start                    : BOOLEAN,
   infinite_payload_length  : BOOLEAN,
   payload_length_counter   : 0..(LENGTH_WRAP - 1),
   pattern_length           : 0..MAX_PATTERN_LENGTH,
   pattern_position_counter : Addresses,
   pattern_length_minus_one : Addresses,
   pattern_memory           : [Addresses -> Words],
   address_reg              : Addresses,
   memory_data              : Words,
   memory_data_d1           : Words,
   read_memory_d1           : BOOLEAN,
   read_memory_d2           : BOOLEAN,
   read_memory_d3           : BOOLEAN]

CheckerType ==
  [start                    : BOOLEAN,
   infinite_payload_length  : BOOLEAN,
   stop_on_failure          : BOOLEAN,
   failure_detected         : BOOLEAN,
   payload_length_counter   : 0..(LENGTH_WRAP - 1),
   pattern_length           : 0..MAX_PATTERN_LENGTH,
   pattern_position_counter : Addresses,
   pattern_length_minus_one : Addresses,
   pattern_memory           : [Addresses -> Words],
   address_reg              : Addresses,
   memory_data              : Words,
   memory_data_d1           : Words,
   data_in_d1               : Words \cup {NoWord},
   data_in_d2               : Words \cup {NoWord},
   data_in_d3               : Words \cup {NoWord},
   data_compare_d1          : BOOLEAN,
   valid_data_d4            : BOOLEAN]

(* The two cores use the words and the registers of the same port. *)
LEMMA SamePort ==
  /\ Generator!TypeOK <=> gen \in GeneratorType
  /\ Checker!TypeOK <=> chk \in CheckerType
BY DEF Generator!TypeOK, Checker!TypeOK, GeneratorType, CheckerType,
       Generator!Addresses, Checker!Addresses, Addresses

(* The same after a clock. *)
LEMMA SamePortNext ==
  /\ Generator!TypeOK' <=> gen' \in GeneratorType
  /\ Checker!TypeOK' <=> chk' \in CheckerType
BY DEF Generator!TypeOK, Checker!TypeOK, GeneratorType, CheckerType,
       Generator!Addresses, Checker!Addresses, Addresses

(* The words in the pipeline of the generator. *)
LEMMA Pipeline ==
  Generator!InPipeline =
    Stage(gen.read_memory_d1) + Stage(gen.read_memory_d2) + Stage(gen.read_memory_d3)
BY DEF Generator!InPipeline, Stage

(* The same after a clock. *)
LEMMA PipelineNext ==
  Generator!InPipeline' =
    Stage(gen'.read_memory_d1) + Stage(gen'.read_memory_d2) + Stage(gen'.read_memory_d3)
BY DEF Generator!InPipeline, Stage

asks(ready) ==
  gen.start /\ ready /\ (gen.infinite_payload_length \/ gen.payload_length_counter # 0)
taken(word) == chk.start /\ word # NoWord

(* The registers of the generator after a clock. *)
LEMMA GeneratorClock ==
  ASSUME NEW write, NEW ready, Generator!Clock(write, ready)
  PROVE  gen' =
    [start |-> ~Generator!clear_start /\ Load(write, "start", gen.start),
     infinite_payload_length |->
       Load(write, "infinite_payload_length", gen.infinite_payload_length),
     payload_length_counter |->
       IF write.reg # "payload_length" /\ Generator!decrement_payload_length_counter(ready)
       THEN (gen.payload_length_counter - 1) % LENGTH_WRAP
       ELSE Load(write, "payload_length", gen.payload_length_counter),
     pattern_length |-> Load(write, "pattern_length", gen.pattern_length),
     pattern_position_counter |->
       IF write.reg # "pattern_position" /\ Generator!increment_pattern_position_counter(ready)
       THEN After(gen.pattern_position_counter, gen.pattern_length_minus_one)
       ELSE Load(write, "pattern_position", gen.pattern_position_counter),
     pattern_length_minus_one |->
       IF write.reg = "start" /\ ~Generator!clear_start
       THEN (gen.pattern_length - 1) % MAX_PATTERN_LENGTH
       ELSE gen.pattern_length_minus_one,
     pattern_memory |-> Filled(write, gen.pattern_memory),
     address_reg    |-> gen.pattern_position_counter,
     memory_data    |-> gen.pattern_memory[gen.address_reg],
     memory_data_d1 |-> IF gen.read_memory_d2 THEN gen.memory_data ELSE gen.memory_data_d1,
     read_memory_d1 |-> Generator!read_memory(ready),
     read_memory_d2 |-> gen.read_memory_d1,
     read_memory_d3 |-> gen.read_memory_d2]
BY DEF Generator!Clock, Generator!Load, Load, Generator!Filled, Filled, Generator!After, After,
       Generator!Addresses, Addresses

(* The registers of the checker after a clock. *)
LEMMA CheckerClock ==
  ASSUME NEW write, NEW word, Checker!Clock(write, word)
  PROVE  chk' =
    [start |-> ~Checker!clear_start /\ Load(write, "start", chk.start),
     infinite_payload_length |->
       Load(write, "infinite_payload_length", chk.infinite_payload_length),
     stop_on_failure |-> Load(write, "stop_on_failure", chk.stop_on_failure),
     failure_detected |->
       Checker!set_failure_detected \/ (chk.failure_detected /\ write.reg # "clear_failure"),
     payload_length_counter |->
       IF write.reg # "payload_length" /\ Checker!decrement_payload_length_counter(word)
       THEN (chk.payload_length_counter - 1) % LENGTH_WRAP
       ELSE Load(write, "payload_length", chk.payload_length_counter),
     pattern_length |-> Load(write, "pattern_length", chk.pattern_length),
     pattern_position_counter |->
       IF write.reg # "pattern_position" /\ Checker!increment_pattern_position_counter(word)
       THEN After(chk.pattern_position_counter, chk.pattern_length_minus_one)
       ELSE Load(write, "pattern_position", chk.pattern_position_counter),
     pattern_length_minus_one |->
       IF write.reg = "start" /\ ~Checker!clear_start
       THEN (chk.pattern_length - 1) % MAX_PATTERN_LENGTH
       ELSE chk.pattern_length_minus_one,
     pattern_memory  |-> Filled(write, chk.pattern_memory),
     address_reg     |-> chk.pattern_position_counter,
     memory_data     |-> chk.pattern_memory[chk.address_reg],
     memory_data_d1  |->
       IF chk.data_in_d2 # NoWord THEN chk.memory_data ELSE chk.memory_data_d1,
     data_in_d1      |-> Checker!data_in(word),
     data_in_d2      |-> chk.data_in_d1,
     data_in_d3      |-> chk.data_in_d2,
     data_compare_d1 |-> Checker!data_compare,
     valid_data_d4   |-> chk.data_in_d3 # NoWord]
BY DEF Checker!Clock, Checker!Load, Load, Checker!Filled, Filled, Checker!After, After,
       Checker!Addresses, Addresses

(* What the software writes into a register fits it. *)
LEMMA WritesTyped ==
  ASSUME NEW gen_write, NEW chk_write, Moves(gen_write, chk_write), Locals
  PROVE  \A write \in {gen_write, chk_write} :
           /\ \A old \in BOOLEAN : Load(write, "start", old) \in BOOLEAN
           /\ \A old \in BOOLEAN : Load(write, "infinite_payload_length", old) \in BOOLEAN
           /\ \A old \in BOOLEAN : Load(write, "stop_on_failure", old) \in BOOLEAN
           /\ \A old \in 0..(LENGTH_WRAP - 1) :
                Load(write, "payload_length", old) \in 0..(LENGTH_WRAP - 1)
           /\ \A old \in 0..MAX_PATTERN_LENGTH :
                Load(write, "pattern_length", old) \in 0..MAX_PATTERN_LENGTH
           /\ \A old \in Addresses : Load(write, "pattern_position", old) \in Addresses
           /\ \A old \in [Addresses -> Words] : Filled(write, old) \in [Addresses -> Words]
<1>1. /\ Payloads \subseteq 0..(LENGTH_WRAP - 1)
      /\ PatternLengths \subseteq 0..MAX_PATTERN_LENGTH
      /\ 0 \in Addresses
  BY TestAssumption, PatternAssumption, PatternLengthsFit DEF Addresses
<1> DEFINE Typed(write) ==
             \/ write = NoWrite
             \/ \E b \in BOOLEAN : write = Write("infinite_payload_length", b)
             \/ \E b \in BOOLEAN : write = Write("stop_on_failure", b)
             \/ \E pattern \in Patterns : write = Write("pattern_memory", pattern)
             \/ \E n \in PatternLengths : write = Write("pattern_length", n)
             \/ write = Write("pattern_position", 0)
             \/ \E n \in Payloads : write = Write("payload_length", n)
             \/ write = Write("start", TRUE)
<1>2. \A mode \in Modes : mode.infinite \in BOOLEAN
  BY TestAssumption
<1>3. Typed(gen_write) /\ Typed(chk_write)
  BY <1>2 DEF Moves, Goes, Locals
<1>4. ASSUME NEW write, Typed(write)
      PROVE  /\ \A old \in BOOLEAN : Load(write, "start", old) \in BOOLEAN
             /\ \A old \in BOOLEAN : Load(write, "infinite_payload_length", old) \in BOOLEAN
             /\ \A old \in BOOLEAN : Load(write, "stop_on_failure", old) \in BOOLEAN
             /\ \A old \in 0..(LENGTH_WRAP - 1) :
                  Load(write, "payload_length", old) \in 0..(LENGTH_WRAP - 1)
             /\ \A old \in 0..MAX_PATTERN_LENGTH :
                  Load(write, "pattern_length", old) \in 0..MAX_PATTERN_LENGTH
             /\ \A old \in Addresses : Load(write, "pattern_position", old) \in Addresses
             /\ \A old \in [Addresses -> Words] : Filled(write, old) \in [Addresses -> Words]
  <2>1. CASE write = NoWrite
    BY <2>1 DEF Load, Filled, NoWrite
  <2>2. CASE \E b \in BOOLEAN : write = Write("infinite_payload_length", b)
    BY <2>2 DEF Load, Filled, Write
  <2>3. CASE \E b \in BOOLEAN : write = Write("stop_on_failure", b)
    BY <2>3 DEF Load, Filled, Write
  <2>4. CASE \E pattern \in Patterns : write = Write("pattern_memory", pattern)
    <3>1. PICK pattern \in Patterns : write = Write("pattern_memory", pattern)
      BY <2>4
    <3>2. write.reg = "pattern_memory" /\ write.value = pattern
      BY <3>1 DEF Write
    <3>3. pattern \in Seq(Words) /\ Len(pattern) \in Nat
      BY TestAssumption
    <3>4. ASSUME NEW old \in [Addresses -> Words], NEW a \in Addresses
          PROVE  (IF a < Len(pattern) THEN pattern[a + 1] ELSE old[a]) \in Words
      <4>1. a \in Nat
        BY PatternAssumption DEF Addresses
      <4>2. CASE a < Len(pattern)
        <5>1. a + 1 \in 1..Len(pattern)
          BY <3>3, <4>1, <4>2
        <5> QED
          BY <3>3, <4>2, <5>1
      <4> QED
        BY <4>2
    <3>5. \A old \in [Addresses -> Words] : Filled(write, old) \in [Addresses -> Words]
      BY <3>2, <3>4 DEF Filled
    <3> QED
      BY <3>2, <3>5 DEF Load
  <2>5. CASE \E n \in PatternLengths : write = Write("pattern_length", n)
    BY <2>5, <1>1 DEF Load, Filled, Write
  <2>6. CASE write = Write("pattern_position", 0)
    BY <2>6, <1>1 DEF Load, Filled, Write
  <2>7. CASE \E n \in Payloads : write = Write("payload_length", n)
    BY <2>7, <1>1 DEF Load, Filled, Write
  <2>8. CASE write = Write("start", TRUE)
    BY <2>8 DEF Load, Filled, Write
  <2> QED
    BY <1>4, <2>1, <2>2, <2>3, <2>4, <2>5, <2>6, <2>7, <2>8
<1> HIDE DEF Typed
<1> QED
  BY <1>3, <1>4

LEMMA AfterTyped ==
  ASSUME NEW position \in Addresses, NEW last \in Addresses
  PROVE  After(position, last) \in Addresses
BY PatternAssumption DEF After, Addresses

(* The registers of the generator keep their types. *)
LEMMA GeneratorTyped ==
  ASSUME gen \in GeneratorType, Locals, NEW ready,
         NEW gen_write, NEW chk_write, Moves(gen_write, chk_write),
         Generator!Clock(gen_write, ready)
  PROVE  gen' \in GeneratorType
<1>1. /\ \A n \in 0..(LENGTH_WRAP - 1) : (n - 1) % LENGTH_WRAP \in 0..(LENGTH_WRAP - 1)
      /\ \A n \in 0..MAX_PATTERN_LENGTH : (n - 1) % MAX_PATTERN_LENGTH \in Addresses
  BY PatternAssumption DEF Addresses
<1> DEFINE start == ~Generator!clear_start /\ Load(gen_write, "start", gen.start)
           counter ==
             IF gen_write.reg # "payload_length"
                  /\ Generator!decrement_payload_length_counter(ready)
             THEN (gen.payload_length_counter - 1) % LENGTH_WRAP
             ELSE Load(gen_write, "payload_length", gen.payload_length_counter)
           position ==
             IF gen_write.reg # "pattern_position"
                  /\ Generator!increment_pattern_position_counter(ready)
             THEN After(gen.pattern_position_counter, gen.pattern_length_minus_one)
             ELSE Load(gen_write, "pattern_position", gen.pattern_position_counter)
           last ==
             IF gen_write.reg = "start" /\ ~Generator!clear_start
             THEN (gen.pattern_length - 1) % MAX_PATTERN_LENGTH
             ELSE gen.pattern_length_minus_one
           infinite == Load(gen_write, "infinite_payload_length", gen.infinite_payload_length)
           length == Load(gen_write, "pattern_length", gen.pattern_length)
           memory == Filled(gen_write, gen.pattern_memory)
           data == gen.pattern_memory[gen.address_reg]
           data_d1 == IF gen.read_memory_d2 THEN gen.memory_data ELSE gen.memory_data_d1
           read == Generator!read_memory(ready)
<1>2. /\ start \in BOOLEAN /\ infinite \in BOOLEAN /\ counter \in 0..(LENGTH_WRAP - 1)
      /\ length \in 0..MAX_PATTERN_LENGTH /\ memory \in [Addresses -> Words]
  BY <1>1, WritesTyped DEF GeneratorType
<1>3. position \in Addresses /\ last \in Addresses
  BY <1>1, WritesTyped, AfterTyped DEF GeneratorType
<1>4. data \in Words /\ data_d1 \in Words /\ read \in BOOLEAN
  BY DEF GeneratorType, Generator!read_memory
<1>5. gen' = [start |-> start, infinite_payload_length |-> infinite,
              payload_length_counter |-> counter, pattern_length |-> length,
              pattern_position_counter |-> position, pattern_length_minus_one |-> last,
              pattern_memory |-> memory, address_reg |-> gen.pattern_position_counter,
              memory_data |-> data, memory_data_d1 |-> data_d1, read_memory_d1 |-> read,
              read_memory_d2 |-> gen.read_memory_d1, read_memory_d3 |-> gen.read_memory_d2]
  BY GeneratorClock
<1> HIDE DEF start, counter, position, last, infinite, length, memory, data, data_d1, read
<1> QED
  BY <1>2, <1>3, <1>4, <1>5 DEF GeneratorType

(* The registers of the checker keep their types. *)
LEMMA CheckerTyped ==
  ASSUME chk \in CheckerType, Locals, NEW word \in Words \cup {NoWord},
         NEW gen_write, NEW chk_write, Moves(gen_write, chk_write),
         Checker!Clock(chk_write, word)
  PROVE  chk' \in CheckerType
<1>1. /\ \A n \in 0..(LENGTH_WRAP - 1) : (n - 1) % LENGTH_WRAP \in 0..(LENGTH_WRAP - 1)
      /\ \A n \in 0..MAX_PATTERN_LENGTH : (n - 1) % MAX_PATTERN_LENGTH \in Addresses
  BY PatternAssumption DEF Addresses
<1> DEFINE start == ~Checker!clear_start /\ Load(chk_write, "start", chk.start)
           failure == Checker!set_failure_detected
                        \/ (chk.failure_detected /\ chk_write.reg # "clear_failure")
           counter ==
             IF chk_write.reg # "payload_length"
                  /\ Checker!decrement_payload_length_counter(word)
             THEN (chk.payload_length_counter - 1) % LENGTH_WRAP
             ELSE Load(chk_write, "payload_length", chk.payload_length_counter)
           position ==
             IF chk_write.reg # "pattern_position"
                  /\ Checker!increment_pattern_position_counter(word)
             THEN After(chk.pattern_position_counter, chk.pattern_length_minus_one)
             ELSE Load(chk_write, "pattern_position", chk.pattern_position_counter)
           last ==
             IF chk_write.reg = "start" /\ ~Checker!clear_start
             THEN (chk.pattern_length - 1) % MAX_PATTERN_LENGTH
             ELSE chk.pattern_length_minus_one
           infinite == Load(chk_write, "infinite_payload_length", chk.infinite_payload_length)
           stop == Load(chk_write, "stop_on_failure", chk.stop_on_failure)
           length == Load(chk_write, "pattern_length", chk.pattern_length)
           memory == Filled(chk_write, chk.pattern_memory)
           data == chk.pattern_memory[chk.address_reg]
           data_d1 == IF chk.data_in_d2 # NoWord THEN chk.memory_data ELSE chk.memory_data_d1
           in == Checker!data_in(word)
           compare == Checker!data_compare
           valid == chk.data_in_d3 # NoWord
<1>2. /\ start \in BOOLEAN /\ infinite \in BOOLEAN /\ stop \in BOOLEAN
      /\ counter \in 0..(LENGTH_WRAP - 1)
      /\ length \in 0..MAX_PATTERN_LENGTH /\ memory \in [Addresses -> Words]
  BY <1>1, WritesTyped DEF CheckerType
<1>3. position \in Addresses /\ last \in Addresses
  BY <1>1, WritesTyped, AfterTyped DEF CheckerType
<1>4. /\ data \in Words /\ data_d1 \in Words /\ in \in Words \cup {NoWord}
      /\ compare \in BOOLEAN /\ valid \in BOOLEAN /\ failure \in BOOLEAN
  BY DEF CheckerType, Checker!data_in, Checker!data_compare
<1>5. chk' = [start |-> start, infinite_payload_length |-> infinite, stop_on_failure |-> stop,
              failure_detected |-> failure, payload_length_counter |-> counter,
              pattern_length |-> length, pattern_position_counter |-> position,
              pattern_length_minus_one |-> last, pattern_memory |-> memory,
              address_reg |-> chk.pattern_position_counter, memory_data |-> data,
              memory_data_d1 |-> data_d1, data_in_d1 |-> in, data_in_d2 |-> chk.data_in_d1,
              data_in_d3 |-> chk.data_in_d2, data_compare_d1 |-> compare,
              valid_data_d4 |-> valid]
  BY CheckerClock
<1> HIDE DEF start, failure, counter, position, last, infinite, stop, length, memory, data,
             data_d1, in, compare, valid
<1> QED
  BY <1>2, <1>3, <1>4, <1>5 DEF CheckerType

Left(word) == IF taken(word) THEN Tail(channel) ELSE channel

GeneratorMoves(ready) ==
  /\ gen'.start = (/\ gen.start \/ Goes("gen_start", "chk_start")
                   /\ ~Generator!clear_start)
  /\ ~Goes("infinite", "stop") =>
       gen'.infinite_payload_length = gen.infinite_payload_length
  /\ gen'.payload_length_counter =
       IF Goes("gen_payload", "chk_payload") THEN sw'.length
       ELSE IF gen.start /\ ready /\ ~gen.infinite_payload_length
            THEN (gen.payload_length_counter - 1) % LENGTH_WRAP
            ELSE gen.payload_length_counter
  /\ gen'.pattern_length =
       IF Goes("gen_length", "chk_length") THEN sw.length ELSE gen.pattern_length
  /\ gen'.pattern_position_counter =
       IF Goes("gen_position", "chk_position") \/ Goes("chk_position", "gen_payload") THEN 0
       ELSE IF asks(ready)
            THEN After(gen.pattern_position_counter, gen.pattern_length_minus_one)
            ELSE gen.pattern_position_counter
  /\ gen'.pattern_length_minus_one =
       IF Goes("gen_start", "chk_start") /\ ~Generator!clear_start
       THEN (gen.pattern_length - 1) % MAX_PATTERN_LENGTH
       ELSE gen.pattern_length_minus_one
  /\ ~Goes("populate", "gen_length") => gen'.pattern_memory = gen.pattern_memory
  /\ gen'.address_reg = gen.pattern_position_counter
  /\ gen'.memory_data = gen.pattern_memory[gen.address_reg]
  /\ gen'.memory_data_d1 =
       IF gen.read_memory_d2 THEN gen.memory_data ELSE gen.memory_data_d1
  /\ gen'.read_memory_d1 = asks(ready)
  /\ gen'.read_memory_d2 = gen.read_memory_d1
  /\ gen'.read_memory_d3 = gen.read_memory_d2

CheckerMoves(word) ==
  /\ chk'.start = (/\ chk.start \/ Goes("chk_start", "poll")
                   /\ ~Checker!clear_start)
  /\ ~Goes("infinite", "stop") =>
       chk'.infinite_payload_length = chk.infinite_payload_length
  /\ chk'.failure_detected = (Checker!set_failure_detected \/ chk.failure_detected)
  /\ chk'.payload_length_counter =
       IF Goes("chk_payload", "gen_start") THEN sw.length
       ELSE IF taken(word) /\ ~chk.infinite_payload_length
            THEN (chk.payload_length_counter - 1) % LENGTH_WRAP
            ELSE chk.payload_length_counter
  /\ chk'.pattern_length =
       IF Goes("chk_length", "gen_position") THEN sw.length ELSE chk.pattern_length
  /\ chk'.pattern_position_counter =
       IF taken(word) THEN After(chk.pattern_position_counter, chk.pattern_length_minus_one)
       ELSE chk.pattern_position_counter
  /\ chk'.pattern_length_minus_one =
       IF Goes("chk_start", "poll") /\ ~Checker!clear_start
       THEN (chk.pattern_length - 1) % MAX_PATTERN_LENGTH
       ELSE chk.pattern_length_minus_one
  /\ ~Goes("populate", "gen_length") => chk'.pattern_memory = chk.pattern_memory
  /\ chk'.address_reg = chk.pattern_position_counter
  /\ chk'.memory_data = chk.pattern_memory[chk.address_reg]
  /\ chk'.memory_data_d1 =
       IF chk.data_in_d2 # NoWord THEN chk.memory_data ELSE chk.memory_data_d1
  /\ chk'.data_in_d1 = IF taken(word) THEN word ELSE NoWord
  /\ chk'.data_in_d2 = chk.data_in_d1
  /\ chk'.data_in_d3 = chk.data_in_d2
  /\ chk'.data_compare_d1 = (chk.memory_data_d1 = chk.data_in_d3)
  /\ chk'.valid_data_d4 = (chk.data_in_d3 # NoWord)

PathMoves(word) ==
  /\ channel' = IF gen.read_memory_d3 THEN Append(Left(word), gen.memory_data_d1)
                ELSE Left(word)
  /\ corrupted' = (corrupted \/ (taken(word) /\ word # Head(channel)))

(***************************************************************************)
(* A clock as the lemmas below use it.                                     *)
(***************************************************************************)
AClock(ready, word) ==
  /\ TypeInv /\ TypeInv' /\ word \in Offers
  /\ \E gen_write, chk_write : Moves(gen_write, chk_write)
  /\ GeneratorMoves(ready) /\ CheckerMoves(word) /\ PathMoves(word)
  /\ gen.infinite_payload_length = chk.infinite_payload_length =>
       gen'.infinite_payload_length = chk'.infinite_payload_length
  /\ gen.pattern_memory = chk.pattern_memory => gen'.pattern_memory = chk'.pattern_memory
  /\ Goes("infinite", "stop") =>
       \E mode \in Modes : gen'.infinite_payload_length = mode.infinite

LEMMA Types ==
  ASSUME TypeInv
  PROVE  /\ gen \in GeneratorType /\ chk \in CheckerType /\ sw \in SwType
         /\ channel \in Seq(Words) /\ corrupted \in BOOLEAN
BY SamePort DEF TypeInv, TypeOK, SwType

(* A word is taken only when there is one. *)
LEMMA TakenIsThere ==
  ASSUME NEW word \in Offers, taken(word)
  PROVE  channel # <<>> /\ word \in Words
BY DEF Offers, taken

(* What the writes of a move load. *)
LEMMA GeneratorLoads ==
  ASSUME NEW gen_write, NEW chk_write, Moves(gen_write, chk_write),
         gen \in GeneratorType, sw \in SwType
  PROVE  /\ gen_write.reg = "start" <=> Goes("gen_start", "chk_start")
         /\ Load(gen_write, "start", gen.start) = (gen.start \/ Goes("gen_start", "chk_start"))
         /\ ~Goes("infinite", "stop") =>
              Load(gen_write, "infinite_payload_length", gen.infinite_payload_length)
                = gen.infinite_payload_length
         /\ gen_write.reg = "payload_length" <=> Goes("gen_payload", "chk_payload")
         /\ Load(gen_write, "payload_length", gen.payload_length_counter) =
              IF Goes("gen_payload", "chk_payload") THEN sw'.length
              ELSE gen.payload_length_counter
         /\ Load(gen_write, "pattern_length", gen.pattern_length) =
              IF Goes("gen_length", "chk_length") THEN sw.length ELSE gen.pattern_length
         /\ gen_write.reg = "pattern_position" <=>
              Goes("gen_position", "chk_position") \/ Goes("chk_position", "gen_payload")
         /\ Load(gen_write, "pattern_position", gen.pattern_position_counter) =
              IF Goes("gen_position", "chk_position") \/ Goes("chk_position", "gen_payload") THEN 0
              ELSE gen.pattern_position_counter
         /\ ~Goes("populate", "gen_length") =>
              Filled(gen_write, gen.pattern_memory) = gen.pattern_memory
<1>1. gen_write.reg = "start" <=> Goes("gen_start", "chk_start")
  BY DEF Moves, Goes, Write, NoWrite, SwType
<1>2. Goes("gen_start", "chk_start") => gen_write.value = TRUE
  BY DEF Moves, Goes, Write, NoWrite, SwType
<1>3. gen.start \in BOOLEAN
  BY DEF GeneratorType
<1>4. Load(gen_write, "start", gen.start) = (gen.start \/ Goes("gen_start", "chk_start"))
  BY <1>1, <1>2, <1>3 DEF Load
<1>5. gen_write.reg = "infinite_payload_length" => Goes("infinite", "stop")
  BY DEF Moves, Goes, Write, NoWrite, SwType
<1>6. /\ gen_write.reg = "payload_length" <=> Goes("gen_payload", "chk_payload")
      /\ Goes("gen_payload", "chk_payload") => gen_write.value = sw'.length
  BY DEF Moves, Goes, Write, NoWrite, SwType
<1>7. /\ gen_write.reg = "pattern_length" <=> Goes("gen_length", "chk_length")
      /\ Goes("gen_length", "chk_length") => gen_write.value = sw.length
  BY DEF Moves, Goes, Write, NoWrite, SwType
<1>8. gen_write.reg = "pattern_position" <=>
        Goes("gen_position", "chk_position") \/ Goes("chk_position", "gen_payload")
  BY DEF Moves, Goes, Write, NoWrite, SwType
<1>9. Goes("gen_position", "chk_position") \/ Goes("chk_position", "gen_payload") =>
        gen_write.value = 0
  BY DEF Moves, Goes, Write, NoWrite, SwType
<1>10. gen_write.reg = "pattern_memory" => Goes("populate", "gen_length")
  BY DEF Moves, Goes, Write, NoWrite, SwType
<1> QED
  BY <1>1, <1>4, <1>5, <1>6, <1>7, <1>8, <1>9, <1>10 DEF Load, Filled

LEMMA CheckerLoads ==
  ASSUME NEW gen_write, NEW chk_write, Moves(gen_write, chk_write),
         chk \in CheckerType, sw \in SwType
  PROVE  /\ chk_write.reg = "start" <=> Goes("chk_start", "poll")
         /\ Load(chk_write, "start", chk.start) = (chk.start \/ Goes("chk_start", "poll"))
         /\ ~Goes("infinite", "stop") =>
              Load(chk_write, "infinite_payload_length", chk.infinite_payload_length)
                = chk.infinite_payload_length
         /\ chk_write.reg = "payload_length" <=> Goes("chk_payload", "gen_start")
         /\ Load(chk_write, "payload_length", chk.payload_length_counter) =
              IF Goes("chk_payload", "gen_start") THEN sw.length
              ELSE chk.payload_length_counter
         /\ Load(chk_write, "pattern_length", chk.pattern_length) =
              IF Goes("chk_length", "gen_position") THEN sw.length ELSE chk.pattern_length
         /\ chk_write.reg \notin {"pattern_position", "clear_failure"}
         /\ ~Goes("populate", "gen_length") =>
              Filled(chk_write, chk.pattern_memory) = chk.pattern_memory
<1>1. chk_write.reg = "start" <=> Goes("chk_start", "poll")
  BY DEF Moves, Goes, Write, NoWrite, SwType
<1>2. Goes("chk_start", "poll") => chk_write.value = TRUE
  BY DEF Moves, Goes, Write, NoWrite, SwType
<1>3. chk.start \in BOOLEAN
  BY DEF CheckerType
<1>4. Load(chk_write, "start", chk.start) = (chk.start \/ Goes("chk_start", "poll"))
  BY <1>1, <1>2, <1>3 DEF Load
<1>5. chk_write.reg = "infinite_payload_length" => Goes("infinite", "stop")
  BY DEF Moves, Goes, Write, NoWrite, SwType
<1>6. /\ chk_write.reg = "payload_length" <=> Goes("chk_payload", "gen_start")
      /\ Goes("chk_payload", "gen_start") => chk_write.value = sw.length
  BY DEF Moves, Goes, Write, NoWrite, SwType
<1>7. /\ chk_write.reg = "pattern_length" <=> Goes("chk_length", "gen_position")
      /\ Goes("chk_length", "gen_position") => chk_write.value = sw.length
  BY DEF Moves, Goes, Write, NoWrite, SwType
<1>8. chk_write.reg \notin {"pattern_position", "clear_failure"}
  BY DEF Moves, Goes, Write, NoWrite, SwType
<1>9. chk_write.reg = "pattern_memory" => Goes("populate", "gen_length")
  BY DEF Moves, Goes, Write, NoWrite, SwType
<1> QED
  BY <1>1, <1>4, <1>5, <1>6, <1>7, <1>8, <1>9 DEF Load, Filled

LEMMA RegistersMove ==
  ASSUME TypeInv, NEW ready \in BOOLEAN, NEW word,
         NEW gen_write, NEW chk_write, Moves(gen_write, chk_write),
         Hardware(ready, word, gen_write, chk_write)
  PROVE  /\ GeneratorMoves(ready) /\ CheckerMoves(word) /\ PathMoves(word)
         /\ gen.infinite_payload_length = chk.infinite_payload_length =>
              gen'.infinite_payload_length = chk'.infinite_payload_length
         /\ gen.pattern_memory = chk.pattern_memory => gen'.pattern_memory = chk'.pattern_memory
         /\ Goes("infinite", "stop") =>
              \E mode \in Modes : gen'.infinite_payload_length = mode.infinite
<1>1. gen \in GeneratorType /\ chk \in CheckerType /\ sw \in SwType
  BY Types
<1>2. Generator!Clock(gen_write, ready) /\ Checker!Clock(chk_write, word)
  BY DEF Hardware
<1>3. /\ gen'.infinite_payload_length =
           Load(gen_write, "infinite_payload_length", gen.infinite_payload_length)
      /\ chk'.infinite_payload_length =
           Load(chk_write, "infinite_payload_length", chk.infinite_payload_length)
      /\ gen'.pattern_memory = Filled(gen_write, gen.pattern_memory)
      /\ chk'.pattern_memory = Filled(chk_write, chk.pattern_memory)
  BY <1>2, GeneratorClock, CheckerClock
<1>4. GeneratorMoves(ready)
  <2>1. /\ gen.start \in BOOLEAN /\ gen.infinite_payload_length \in BOOLEAN
        /\ gen.payload_length_counter \in Int
    BY <1>1, PatternAssumption DEF GeneratorType
  <2>2. /\ Generator!increment_pattern_position_counter(ready) <=> asks(ready)
        /\ Generator!read_memory(ready) = asks(ready)
        /\ Generator!decrement_payload_length_counter(ready) <=>
             gen.start /\ ready /\ ~gen.infinite_payload_length
    BY <2>1 DEF asks, Generator!clear_start, Generator!increment_pattern_position_counter,
         Generator!read_memory, Generator!decrement_payload_length_counter
  <2>3. gen'.start = (/\ gen.start \/ Goes("gen_start", "chk_start")
                      /\ ~Generator!clear_start)
    <3>1. gen'.start = (~Generator!clear_start /\ Load(gen_write, "start", gen.start))
      BY <1>2, GeneratorClock
    <3>2. Load(gen_write, "start", gen.start) = (gen.start \/ Goes("gen_start", "chk_start"))
      BY <1>1, GeneratorLoads
    <3> QED
      BY <3>1, <3>2
  <2>4. gen'.payload_length_counter =
          IF Goes("gen_payload", "chk_payload") THEN sw'.length
          ELSE IF gen.start /\ ready /\ ~gen.infinite_payload_length
               THEN (gen.payload_length_counter - 1) % LENGTH_WRAP
               ELSE gen.payload_length_counter
    <3>1. gen'.payload_length_counter =
            IF gen_write.reg # "payload_length"
                 /\ Generator!decrement_payload_length_counter(ready)
            THEN (gen.payload_length_counter - 1) % LENGTH_WRAP
            ELSE Load(gen_write, "payload_length", gen.payload_length_counter)
      BY <1>2, GeneratorClock
    <3>2. /\ gen_write.reg = "payload_length" <=> Goes("gen_payload", "chk_payload")
          /\ Load(gen_write, "payload_length", gen.payload_length_counter) =
               IF Goes("gen_payload", "chk_payload") THEN sw'.length
               ELSE gen.payload_length_counter
      BY <1>1, GeneratorLoads
    <3> QED
      BY <2>2, <3>1, <3>2
  <2>5. gen'.pattern_position_counter =
          IF Goes("gen_position", "chk_position") \/ Goes("chk_position", "gen_payload") THEN 0
          ELSE IF asks(ready)
               THEN After(gen.pattern_position_counter, gen.pattern_length_minus_one)
               ELSE gen.pattern_position_counter
    <3>1. gen'.pattern_position_counter =
            IF gen_write.reg # "pattern_position"
                 /\ Generator!increment_pattern_position_counter(ready)
            THEN After(gen.pattern_position_counter, gen.pattern_length_minus_one)
            ELSE Load(gen_write, "pattern_position", gen.pattern_position_counter)
      BY <1>2, GeneratorClock
    <3>2. /\ gen_write.reg = "pattern_position" <=>
               Goes("gen_position", "chk_position") \/ Goes("chk_position", "gen_payload")
          /\ Load(gen_write, "pattern_position", gen.pattern_position_counter) =
               IF Goes("gen_position", "chk_position") \/ Goes("chk_position", "gen_payload")
               THEN 0 ELSE gen.pattern_position_counter
      BY <1>1, GeneratorLoads
    <3> QED
      BY <2>2, <3>1, <3>2
  <2>6. /\ gen'.pattern_length =
             IF Goes("gen_length", "chk_length") THEN sw.length ELSE gen.pattern_length
        /\ gen'.pattern_length_minus_one =
             IF Goes("gen_start", "chk_start") /\ ~Generator!clear_start
             THEN (gen.pattern_length - 1) % MAX_PATTERN_LENGTH
             ELSE gen.pattern_length_minus_one
    <3>1. /\ gen'.pattern_length = Load(gen_write, "pattern_length", gen.pattern_length)
          /\ gen'.pattern_length_minus_one =
               IF gen_write.reg = "start" /\ ~Generator!clear_start
               THEN (gen.pattern_length - 1) % MAX_PATTERN_LENGTH
               ELSE gen.pattern_length_minus_one
      BY <1>2, GeneratorClock
    <3>2. /\ gen_write.reg = "start" <=> Goes("gen_start", "chk_start")
          /\ Load(gen_write, "pattern_length", gen.pattern_length) =
               IF Goes("gen_length", "chk_length") THEN sw.length ELSE gen.pattern_length
      BY <1>1, GeneratorLoads
    <3> QED
      BY <3>1, <3>2
  <2>7. /\ ~Goes("infinite", "stop") =>
             gen'.infinite_payload_length = gen.infinite_payload_length
        /\ ~Goes("populate", "gen_length") => gen'.pattern_memory = gen.pattern_memory
    BY <1>1, <1>3, GeneratorLoads
  <2>8. /\ gen'.address_reg = gen.pattern_position_counter
        /\ gen'.memory_data = gen.pattern_memory[gen.address_reg]
        /\ gen'.memory_data_d1 =
             IF gen.read_memory_d2 THEN gen.memory_data ELSE gen.memory_data_d1
        /\ gen'.read_memory_d1 = asks(ready)
        /\ gen'.read_memory_d2 = gen.read_memory_d1
        /\ gen'.read_memory_d3 = gen.read_memory_d2
    BY <1>2, <2>2, GeneratorClock
  <2> QED
    BY <2>3, <2>4, <2>5, <2>6, <2>7, <2>8 DEF GeneratorMoves
<1>5. CheckerMoves(word)
  <2>1. /\ Checker!increment_pattern_position_counter(word) <=> taken(word)
        /\ Checker!decrement_payload_length_counter(word) <=>
             taken(word) /\ ~chk.infinite_payload_length
        /\ Checker!data_in(word) = IF taken(word) THEN word ELSE NoWord
        /\ Checker!data_compare = (chk.memory_data_d1 = chk.data_in_d3)
    BY DEF taken, Checker!increment_pattern_position_counter, Checker!data_compare,
         Checker!decrement_payload_length_counter, Checker!data_in, Checker!valid_data,
         Checker!snk_ready
  <2>2. /\ chk_write.reg = "start" <=> Goes("chk_start", "poll")
        /\ Load(chk_write, "start", chk.start) = (chk.start \/ Goes("chk_start", "poll"))
        /\ chk_write.reg = "payload_length" <=> Goes("chk_payload", "gen_start")
        /\ Load(chk_write, "payload_length", chk.payload_length_counter) =
             IF Goes("chk_payload", "gen_start") THEN sw.length
             ELSE chk.payload_length_counter
        /\ Load(chk_write, "pattern_length", chk.pattern_length) =
             IF Goes("chk_length", "gen_position") THEN sw.length ELSE chk.pattern_length
        /\ chk_write.reg \notin {"pattern_position", "clear_failure"}
    BY <1>1, CheckerLoads
  <2>3. chk'.start = (/\ chk.start \/ Goes("chk_start", "poll")
                      /\ ~Checker!clear_start)
    <3>1. chk'.start = (~Checker!clear_start /\ Load(chk_write, "start", chk.start))
      BY <1>2, CheckerClock
    <3> QED
      BY <2>2, <3>1
  <2>4. chk'.payload_length_counter =
          IF Goes("chk_payload", "gen_start") THEN sw.length
          ELSE IF taken(word) /\ ~chk.infinite_payload_length
               THEN (chk.payload_length_counter - 1) % LENGTH_WRAP
               ELSE chk.payload_length_counter
    <3>1. chk'.payload_length_counter =
            IF chk_write.reg # "payload_length"
                 /\ Checker!decrement_payload_length_counter(word)
            THEN (chk.payload_length_counter - 1) % LENGTH_WRAP
            ELSE Load(chk_write, "payload_length", chk.payload_length_counter)
      BY <1>2, CheckerClock
    <3> QED
      BY <2>1, <2>2, <3>1
  <2>5. chk'.pattern_position_counter =
          IF taken(word) THEN After(chk.pattern_position_counter, chk.pattern_length_minus_one)
          ELSE chk.pattern_position_counter
    <3>1. chk'.pattern_position_counter =
            IF chk_write.reg # "pattern_position"
                 /\ Checker!increment_pattern_position_counter(word)
            THEN After(chk.pattern_position_counter, chk.pattern_length_minus_one)
            ELSE Load(chk_write, "pattern_position", chk.pattern_position_counter)
      BY <1>2, CheckerClock
    <3> QED
      BY <2>1, <2>2, <3>1 DEF Load
  <2>6. /\ chk'.pattern_length =
             IF Goes("chk_length", "gen_position") THEN sw.length ELSE chk.pattern_length
        /\ chk'.pattern_length_minus_one =
             IF Goes("chk_start", "poll") /\ ~Checker!clear_start
             THEN (chk.pattern_length - 1) % MAX_PATTERN_LENGTH
             ELSE chk.pattern_length_minus_one
    <3>1. /\ chk'.pattern_length = Load(chk_write, "pattern_length", chk.pattern_length)
          /\ chk'.pattern_length_minus_one =
               IF chk_write.reg = "start" /\ ~Checker!clear_start
               THEN (chk.pattern_length - 1) % MAX_PATTERN_LENGTH
               ELSE chk.pattern_length_minus_one
      BY <1>2, CheckerClock
    <3> QED
      BY <2>2, <3>1
  <2>7. /\ ~Goes("infinite", "stop") =>
             chk'.infinite_payload_length = chk.infinite_payload_length
        /\ ~Goes("populate", "gen_length") => chk'.pattern_memory = chk.pattern_memory
    BY <1>1, <1>3, CheckerLoads
  <2>8. chk'.failure_detected = (Checker!set_failure_detected \/ chk.failure_detected)
    <3> DEFINE failure == Checker!set_failure_detected
                            \/ (chk.failure_detected /\ chk_write.reg # "clear_failure")
    <3>1. chk'.failure_detected = failure
      BY <1>2, CheckerClock
    <3>2. chk.failure_detected \in BOOLEAN
      BY <1>1 DEF CheckerType
    <3>3. failure = (Checker!set_failure_detected \/ chk.failure_detected)
      BY <2>2, <3>2
    <3> HIDE DEF failure
    <3> QED
      BY <3>1, <3>3
  <2>9. /\ chk'.address_reg = chk.pattern_position_counter
        /\ chk'.memory_data = chk.pattern_memory[chk.address_reg]
        /\ chk'.memory_data_d1 =
             IF chk.data_in_d2 # NoWord THEN chk.memory_data ELSE chk.memory_data_d1
        /\ chk'.data_in_d1 = IF taken(word) THEN word ELSE NoWord
        /\ chk'.data_in_d2 = chk.data_in_d1
        /\ chk'.data_in_d3 = chk.data_in_d2
        /\ chk'.data_compare_d1 = (chk.memory_data_d1 = chk.data_in_d3)
        /\ chk'.valid_data_d4 = (chk.data_in_d3 # NoWord)
    BY <1>2, <2>1, CheckerClock
  <2> QED
    BY <2>3, <2>4, <2>5, <2>6, <2>7, <2>8, <2>9 DEF CheckerMoves
<1>6. PathMoves(word)
  <2>1. Checker!valid_data(word) <=> taken(word)
    BY DEF taken, Checker!valid_data, Checker!data_in, Checker!snk_ready
  <2> QED
    BY <2>1 DEF Hardware, PathMoves, Left, Generator!src_valid, Generator!src_data
<1>7. gen.infinite_payload_length = chk.infinite_payload_length =>
        gen'.infinite_payload_length = chk'.infinite_payload_length
  <2>1. Goes("infinite", "stop") => gen_write = chk_write
    BY <1>1 DEF Moves, Goes, SwType
  <2> QED
    BY <1>3, <1>4, <1>5, <2>1 DEF GeneratorMoves, CheckerMoves
<1>8. gen.pattern_memory = chk.pattern_memory => gen'.pattern_memory = chk'.pattern_memory
  <2>1. Goes("populate", "gen_length") => gen_write = chk_write
    BY <1>1 DEF Moves, Goes, SwType
  <2> QED
    BY <1>3, <1>4, <1>5, <2>1 DEF GeneratorMoves, CheckerMoves
<1>9. ASSUME Goes("infinite", "stop")
      PROVE  \E mode \in Modes : gen'.infinite_payload_length = mode.infinite
  <2>1. PICK mode \in Modes : gen_write = Write("infinite_payload_length", mode.infinite)
    BY <1>1, <1>9 DEF Moves, Goes, SwType
  <2>2. Load(gen_write, "infinite_payload_length", gen.infinite_payload_length) = mode.infinite
    BY <2>1 DEF Load, Write
  <2> QED
    BY <1>3, <2>2
<1> QED
  BY <1>4, <1>5, <1>6, <1>7, <1>8, <1>9

(* The types, the room on the path and the locals are kept. *)
LEMMA TypesKept ==
  ASSUME TypeInv, NEW ready \in BOOLEAN, NEW word \in Offers, ready => MayAsk,
         NEW gen_write, NEW chk_write, Moves(gen_write, chk_write),
         Hardware(ready, word, gen_write, chk_write), sw' \in SwType, Locals'
  PROVE  TypeInv'
<1>1. /\ gen \in GeneratorType /\ chk \in CheckerType /\ channel \in Seq(Words)
      /\ corrupted \in BOOLEAN
  BY Types
<1>2. word \in Words \cup {NoWord}
  BY DEF Offers
<1>3. gen' \in GeneratorType /\ chk' \in CheckerType
  BY <1>1, <1>2, GeneratorTyped, CheckerTyped DEF Hardware, TypeInv
<1>4. GeneratorMoves(ready) /\ PathMoves(word)
  BY RegistersMove
<1>5. Left(word) \in Seq(Words) /\ Len(Left(word)) \in Nat /\ Len(Left(word)) <= Len(channel)
  BY <1>1, TakenIsThere DEF Left
<1>6. gen.memory_data_d1 \in Words
  BY <1>1 DEF GeneratorType
<1>7. /\ channel' \in Seq(Words)
      /\ Len(channel') = Len(Left(word)) + Stage(gen.read_memory_d3)
  <2> DEFINE left == Left(word)
  <2>1. channel' = IF gen.read_memory_d3 THEN Append(left, gen.memory_data_d1) ELSE left
    BY <1>4 DEF PathMoves
  <2> HIDE DEF left
  <2> QED
    BY <1>5, <1>6, <2>1 DEF Stage, left
<1>8. \A b : Stage(b) \in 0..1
  BY DEF Stage
<1>9. InFlight' <= CHANNEL_WORDS
  <2> DEFINE r1 == Stage(gen.read_memory_d1)
             r2 == Stage(gen.read_memory_d2)
             r3 == Stage(gen.read_memory_d3)
             r == Stage(asks(ready))
  <2>1. r1 \in 0..1 /\ r2 \in 0..1 /\ r3 \in 0..1 /\ r \in 0..1
    BY <1>8
  <2>2. InFlight = Len(channel) + (r1 + r2 + r3)
    BY Pipeline DEF InFlight
  <2>3. InFlight' = Len(channel') + (r + r1 + r2)
    BY <1>4, PipelineNext DEF InFlight, GeneratorMoves
  <2>4. r = 1 => Len(channel) + (r1 + r2 + r3) < CHANNEL_WORDS
    BY Pipeline DEF asks, Stage, MayAsk
  <2>5. Len(channel) + (r1 + r2 + r3) <= CHANNEL_WORDS /\ CHANNEL_WORDS \in Nat
    BY <2>2, TestAssumption DEF TypeInv
  <2>6. Len(channel') = Len(Left(word)) + r3
    BY <1>7
  <2>7. Len(channel) \in Nat /\ Len(Left(word)) \in Nat /\ Len(Left(word)) <= Len(channel)
    BY <1>1, <1>5
  <2> DEFINE after == Len(channel')
             before == Len(channel)
             rest == Len(Left(word))
  <2> HIDE DEF r1, r2, r3, r, after, before, rest
  <2>8. after + (r + r1 + r2) <= CHANNEL_WORDS
    <3>1. /\ after = rest + r3 /\ rest <= before /\ before \in Nat /\ rest \in Nat
          /\ r = 1 => before + (r1 + r2 + r3) < CHANNEL_WORDS
          /\ before + (r1 + r2 + r3) <= CHANNEL_WORDS
      BY <2>4, <2>5, <2>6, <2>7 DEF after, before, rest
    <3> QED
      BY <2>1, <2>5, <3>1
  <2> QED
    BY <2>3, <2>8 DEF after
<1>10. Len(channel') <= CHANNEL_WORDS
  <2> DEFINE r1 == Stage(gen'.read_memory_d1)
             r2 == Stage(gen'.read_memory_d2)
             r3 == Stage(gen'.read_memory_d3)
             after == Len(channel')
  <2>1. after + (r1 + r2 + r3) <= CHANNEL_WORDS
    BY <1>9, PipelineNext DEF InFlight
  <2>2. r1 \in 0..1 /\ r2 \in 0..1 /\ r3 \in 0..1 /\ after \in Nat /\ CHANNEL_WORDS \in Nat
    BY <1>7, <1>8, TestAssumption
  <2> HIDE DEF r1, r2, r3, after
  <2>3. after <= CHANNEL_WORDS
    BY <2>1, <2>2
  <2> QED
    BY <2>3 DEF after
<1>11. corrupted' \in BOOLEAN
  BY <1>4 DEF PathMoves
<1> QED
  BY <1>3, <1>7, <1>9, <1>10, <1>11, SamePortNext DEF TypeInv, TypeOK, SwType

(* Every step of the test is such a clock. *)
LEMMA ClockSteps ==
  ASSUME TypeInv, NEW ready \in BOOLEAN, NEW word \in Words \cup {NoWord}, Clock(ready, word)
  PROVE  AClock(ready, word)
<1>1. word \in Offers /\ (ready => MayAsk) /\ (Access(ready, word) \/ Compute(ready, word))
  BY DEF Clock
<1>2. sw \in SwType /\ chk.failure_detected \in BOOLEAN /\ chk.start \in BOOLEAN /\ Locals
  BY Types DEF TypeInv, CheckerType
<1>3. PICK gen_write, chk_write :
        Hardware(ready, word, gen_write, chk_write) /\ Moves(gen_write, chk_write)
  BY <1>1, <1>2, SoftwareMoves
<1>4. sw' \in SwType /\ Locals'
  BY <1>1, <1>2, SoftwareMoves
<1>5. TypeInv'
  BY <1>1, <1>3, <1>4, TypesKept
<1> QED
  BY <1>1, <1>3, <1>5, RegistersMove DEF AClock

-----------------------------------------------------------------------------
LEMMA InitialTypes == Init => TypeInv
<1>1. SUFFICES ASSUME Init PROVE TypeInv
  OBVIOUS
<1>2. /\ 0 \in Addresses /\ 0 \in 0..(LENGTH_WRAP - 1) /\ 0 \in 0..MAX_PATTERN_LENGTH
      /\ UnwrittenWord \in Words /\ [a \in Addresses |-> UnwrittenWord] \in [Addresses -> Words]
      /\ 0 \in 0..(GAP - 1) /\ 0 \in 0..TIMEOUT /\ 0 < TIMEOUT /\ CHANNEL_WORDS \in Nat
  BY PatternAssumption, TestAssumption DEF Addresses
<1>3. gen \in GeneratorType
  BY <1>1, <1>2 DEF Init, Generator!Init, GeneratorType, Generator!Addresses, Addresses
<1>4. chk \in CheckerType
  BY <1>1, <1>2 DEF Init, Checker!Init, CheckerType, Checker!Addresses, Addresses
<1>5. sw = [pc |-> "infinite", wait |-> 0, length |-> 0, counter |-> 0, verdict |-> "none"]
  BY <1>1 DEF Init
<1>6. sw \in SwType /\ Locals
  BY <1>2, <1>5 DEF SwType, Locals
<1>7. channel = <<>> /\ corrupted = FALSE
  BY <1>1 DEF Init
<1>8. Generator!InPipeline = 0
  BY <1>1, Pipeline DEF Init, Generator!Init, Stage
<1>9. channel \in Seq(Words) /\ Len(channel) = 0 /\ InFlight = 0
  BY <1>7, <1>8 DEF InFlight
<1>10. InFlight <= CHANNEL_WORDS /\ Len(channel) <= CHANNEL_WORDS
  BY <1>2, <1>9
<1>11. Generator!TypeOK /\ Checker!TypeOK
  BY <1>3, <1>4, SamePort
<1>12. corrupted \in BOOLEAN
  BY <1>7
<1> QED
  BY <1>6, <1>9, <1>10, <1>11, <1>12 DEF TypeInv, TypeOK, SwType

LEMMA TypesStay == TypeInv /\ UNCHANGED vars => TypeInv'
BY DEF vars, TypeInv, TypeOK, InFlight, Locals, Generator!TypeOK, Checker!TypeOK,
       Generator!InPipeline

THEOREM TypesInvariant == Spec => []TypeInv
<1>1. TypeInv /\ [Next]_vars => TypeInv'
  <2>1. ASSUME TypeInv, Next PROVE TypeInv'
    BY <2>1, ClockSteps DEF Next, AClock
  <2> QED
    BY <2>1, TypesStay
<1> QED
  BY <1>1, InitialTypes, PTL DEF Spec

(***************************************************************************)
(* Registers, path and locals keep their types: no counter, position or    *)
(* length of the two cores leaves its range, and the path never overflows, *)
(* although the generator delivers three cycles after it is asked.         *)
(***************************************************************************)
THEOREM TypesHold == Spec => []TypeOK
<1>1. TypeInv => TypeOK
  BY DEF TypeInv
<1> QED
  BY <1>1, TypesInvariant, PTL

-----------------------------------------------------------------------------
(* Counts.                                                                 *)

(* Where the software comes from. *)
LEMMA ComesFrom ==
  ASSUME NEW ready, NEW word, AClock(ready, word)
  PROVE  /\ sw'.pc \in SetUp => sw.pc \in SetUp \/ (sw.pc = "judge" /\ ~chk.failure_detected)
         /\ sw'.pc \in Testing => sw.pc \in Testing \/ Goes("gen_start", "chk_start")
         /\ sw'.pc = "chk_start" => sw.pc = "chk_start" \/ Goes("gen_start", "chk_start")
         /\ sw'.pc \in {"poll", "judge"} =>
              sw.pc \in {"poll", "judge"} \/ Goes("chk_start", "poll")
         /\ sw'.pc = "judge" => sw.pc = "judge" \/ (sw.pc = "poll" /\ ~chk.start)
         /\ sw'.pc = "chk_payload" => sw.pc = "chk_payload" \/ Goes("gen_payload", "chk_payload")
         /\ sw'.pc = "gen_start" => sw.pc = "gen_start" \/ Goes("chk_payload", "gen_start")
         /\ Goes("gen_payload", "chk_payload") => sw'.length \in Payloads
         /\ sw.pc \in {"chk_payload", "gen_start"} => sw'.length = sw.length
         /\ sw.pc \in SetUp \cup Testing
<1>1. PICK gen_write, chk_write : Moves(gen_write, chk_write)
  BY DEF AClock
<1>2. sw \in SwType
  BY Types DEF AClock
<1>3. sw.pc \in SetUp \cup Testing
  BY <1>2 DEF SwType, SetUp, Testing
<1>4. sw'.pc \in SetUp => sw.pc \in SetUp \/ (sw.pc = "judge" /\ ~chk.failure_detected)
  BY <1>1, <1>2 DEF Moves, Goes, SwType, SetUp
<1>5. sw'.pc \in Testing => sw.pc \in Testing \/ Goes("gen_start", "chk_start")
  BY <1>1, <1>2 DEF Moves, Goes, SwType, Testing
<1>6. /\ sw'.pc = "chk_start" => sw.pc = "chk_start" \/ Goes("gen_start", "chk_start")
      /\ sw'.pc \in {"poll", "judge"} =>
           sw.pc \in {"poll", "judge"} \/ Goes("chk_start", "poll")
      /\ sw'.pc = "judge" => sw.pc = "judge" \/ (sw.pc = "poll" /\ ~chk.start)
  BY <1>1, <1>2 DEF Moves, Goes, SwType
<1>7. /\ sw'.pc = "chk_payload" => sw.pc = "chk_payload" \/ Goes("gen_payload", "chk_payload")
      /\ sw'.pc = "gen_start" => sw.pc = "gen_start" \/ Goes("chk_payload", "gen_start")
      /\ Goes("gen_payload", "chk_payload") => sw'.length \in Payloads
      /\ sw.pc \in {"chk_payload", "gen_start"} => sw'.length = sw.length
  BY <1>1, <1>2 DEF Moves, Goes, SwType, Keep
<1> QED
  BY <1>3, <1>4, <1>5, <1>6, <1>7

(* The words on their way after a clock. *)
LEMMA FlightMoves ==
  ASSUME NEW ready, NEW word, AClock(ready, word)
  PROVE  /\ InFlight \in Nat /\ Len(channel) \in Nat /\ Len(channel) <= InFlight
         /\ InFlight' = InFlight - Stage(taken(word)) + Stage(asks(ready))
         /\ taken(word) => Len(channel) > 0
         /\ Len(Left(word)) = Len(channel) - Stage(taken(word))
         /\ Left(word) \in Seq(Words)
         /\ channel' \in Seq(Words)
         /\ Len(channel') = Len(Left(word)) + Stage(gen.read_memory_d3)
<1> DEFINE r1 == Stage(gen.read_memory_d1)
           r2 == Stage(gen.read_memory_d2)
           r3 == Stage(gen.read_memory_d3)
           r == Stage(asks(ready))
           t == Stage(taken(word))
           left == Left(word)
<1>1. gen \in GeneratorType /\ channel \in Seq(Words) /\ word \in Offers
  BY Types DEF AClock
<1>2. GeneratorMoves(ready) /\ PathMoves(word)
  BY DEF AClock
<1>3. \A b : Stage(b) \in 0..1
  BY DEF Stage
<1>4. r1 \in 0..1 /\ r2 \in 0..1 /\ r3 \in 0..1 /\ r \in 0..1 /\ t \in 0..1
  BY <1>3
<1>5. InFlight = Len(channel) + (r1 + r2 + r3)
  BY Pipeline DEF InFlight
<1>6. InFlight' = Len(channel') + (r + r1 + r2)
  BY <1>2, PipelineNext DEF InFlight, GeneratorMoves
<1>7. taken(word) => Len(channel) > 0
  BY <1>1, TakenIsThere
<1>8. left \in Seq(Words) /\ Len(left) = Len(channel) - t
  BY <1>1, <1>7 DEF Left, Stage
<1>9. gen.memory_data_d1 \in Words
  BY <1>1 DEF GeneratorType
<1>10. channel' = IF gen.read_memory_d3 THEN Append(left, gen.memory_data_d1) ELSE left
  BY <1>2 DEF PathMoves
<1> HIDE DEF left
<1>11. channel' \in Seq(Words) /\ Len(channel') = Len(left) + r3
  <2>1. Len(left) \in Nat
    BY <1>8
  <2>2. CASE gen.read_memory_d3
    BY <1>8, <1>9, <1>10, <2>1, <2>2 DEF Stage
  <2>3. CASE ~gen.read_memory_d3
    BY <1>8, <1>10, <2>1, <2>3 DEF Stage
  <2> QED
    BY <2>2, <2>3
<1> DEFINE after == Len(channel')
           before == Len(channel)
           rest == Len(left)
<1>12. before \in Nat /\ after = rest + r3 /\ rest = before - t
  BY <1>1, <1>8, <1>11
<1> HIDE DEF r1, r2, r3, r, t, after, before, rest
<1>13. before + (r1 + r2 + r3) - t + r = after + (r + r1 + r2)
  BY <1>4, <1>12
<1>14. before + (r1 + r2 + r3) \in Nat /\ before <= before + (r1 + r2 + r3)
  BY <1>4, <1>12
<1>15. InFlight' = InFlight - t + r /\ InFlight \in Nat /\ before <= InFlight
  <2>1. InFlight = before + (r1 + r2 + r3)
    BY <1>5 DEF before
  <2>2. InFlight' = after + (r + r1 + r2)
    BY <1>6 DEF after
  <2>3. InFlight' = InFlight - t + r
    BY <1>4, <1>12, <1>13, <1>14, <2>1, <2>2
  <2>4. InFlight \in Nat /\ before <= InFlight
    BY <1>14, <2>1
  <2> QED
    BY <2>3, <2>4
<1>16. Len(channel) \in Nat /\ Len(channel) <= InFlight
  BY <1>12, <1>15 DEF before
<1> QED
  BY <1>7, <1>8, <1>11, <1>15, <1>16 DEF left, r3, r, t

(* Nothing is under way exactly when the path and the pipeline are empty. *)
LEMMA NothingInFlight ==
  ASSUME TypeInv
  PROVE  /\ InFlight \in Nat
         /\ InFlight = 0 <=> (/\ channel = <<>>
                              /\ ~gen.read_memory_d1 /\ ~gen.read_memory_d2
                              /\ ~gen.read_memory_d3)
<1> DEFINE r1 == Stage(gen.read_memory_d1)
           r2 == Stage(gen.read_memory_d2)
           r3 == Stage(gen.read_memory_d3)
           n == Len(channel)
<1>1. channel \in Seq(Words) /\ gen \in GeneratorType
  BY Types
<1>2. InFlight = n + (r1 + r2 + r3)
  BY Pipeline DEF InFlight
<1>3. n \in Nat /\ (n = 0 <=> channel = <<>>)
  BY <1>1
<1>4. /\ r1 \in 0..1 /\ (r1 = 0 <=> ~gen.read_memory_d1)
      /\ r2 \in 0..1 /\ (r2 = 0 <=> ~gen.read_memory_d2)
      /\ r3 \in 0..1 /\ (r3 = 0 <=> ~gen.read_memory_d3)
  BY <1>1 DEF Stage, GeneratorType
<1> HIDE DEF n, r1, r2, r3
<1>5. n + (r1 + r2 + r3) \in Nat
      /\ (n + (r1 + r2 + r3) = 0 <=> n = 0 /\ r1 = 0 /\ r2 = 0 /\ r3 = 0)
  BY <1>3, <1>4
<1> QED
  BY <1>2, <1>3, <1>4, <1>5

(* A checker that is judged without a failure has all its words. *)
LEMMA JudgedIsIdle ==
  ASSUME TypeInv, CountInv, sw.pc = "judge", ~chk.failure_detected
  PROVE  /\ Idle /\ chk.payload_length_counter = 0
         /\ ~gen.infinite_payload_length
<1>1. gen \in GeneratorType
  BY Types
<1>2. /\ ~chk.start /\ ~chk.infinite_payload_length /\ chk.payload_length_counter = 0
  BY DEF CountInv, Stopped
<1>3. /\ ~gen.infinite_payload_length /\ PayloadsAgree
      /\ gen.start /\ gen.payload_length_counter = 0 => gen.read_memory_d1
  BY <1>2 DEF CountInv, Counted, Testing
<1>4. InFlight \in Nat /\ Remaining \in Nat
  BY <1>1, NothingInFlight, PatternAssumption DEF Remaining, GeneratorType
<1>5. InFlight = 0 /\ Remaining = 0
  BY <1>2, <1>3, <1>4 DEF PayloadsAgree
<1>6. /\ channel = <<>> /\ ~gen.read_memory_d1 /\ ~gen.read_memory_d2 /\ ~gen.read_memory_d3
  BY <1>5, NothingInFlight
<1>7. ~gen.start
  BY <1>3, <1>5, <1>6 DEF Remaining
<1> QED
  BY <1>2, <1>3, <1>6, <1>7 DEF Idle

(* What is idle stays idle until the software starts a core. *)
LEMMA IdleStays ==
  ASSUME NEW ready, NEW word, AClock(ready, word), Idle
  PROVE  /\ ~asks(ready) /\ ~taken(word) /\ channel' = <<>> /\ corrupted' = corrupted
         /\ ~gen'.read_memory_d1 /\ ~gen'.read_memory_d2 /\ ~gen'.read_memory_d3
         /\ gen'.start <=> Goes("gen_start", "chk_start")
         /\ chk'.start <=> Goes("chk_start", "poll")
<1>1. ~asks(ready) /\ ~taken(word)
  BY DEF Idle, asks, taken
<1>2. ~Generator!clear_start /\ ~Checker!clear_start
  BY DEF Idle, Generator!clear_start, Checker!clear_start
<1>3. gen'.start <=> Goes("gen_start", "chk_start")
  BY <1>2 DEF Idle, AClock, GeneratorMoves
<1>4. chk'.start <=> Goes("chk_start", "poll")
  BY <1>2 DEF Idle, AClock, CheckerMoves
<1>5. ~gen'.read_memory_d1 /\ ~gen'.read_memory_d2 /\ ~gen'.read_memory_d3
  BY <1>1 DEF Idle, AClock, GeneratorMoves
<1>6. corrupted \in BOOLEAN
  BY Types DEF AClock
<1>7. channel' = <<>> /\ corrupted' = corrupted
  BY <1>1, <1>6 DEF Idle, AClock, PathMoves, Left
<1> QED
  BY <1>1, <1>3, <1>4, <1>5, <1>7

(* The software sets up a test only when nothing moves. *)
LEMMA PreparedKept ==
  ASSUME NEW ready, NEW word, AClock(ready, word), CountInv
  PROVE  Prepared'
<1>1. Prepared /\ GeneratorMoves(ready) /\ CheckerMoves(word)
  BY DEF CountInv, AClock
<1>2. ASSUME sw'.pc \in SetUp PROVE Idle'
  <2>1. Idle
    BY <1>1, <1>2, ComesFrom, JudgedIsIdle DEF Prepared, AClock
  <2>2. ~Goes("gen_start", "chk_start") /\ ~Goes("chk_start", "poll")
    BY <1>2 DEF Goes, SetUp
  <2> QED
    BY <2>1, <2>2, IdleStays DEF Idle
<1>3. ASSUME sw'.pc = "chk_start" PROVE ~chk'.start
  <2>1. ~chk.start
    BY <1>1, <1>3, ComesFrom DEF Prepared, SetUp, Idle, Goes
  <2>2. ~Goes("chk_start", "poll")
    BY <1>3 DEF Goes
  <2> QED
    BY <1>1, <2>1, <2>2 DEF CheckerMoves
<1>4. ASSUME sw'.pc \in {"chk_payload", "gen_start"}
      PROVE  gen'.payload_length_counter = sw'.length
  <2>1. CASE Goes("gen_payload", "chk_payload")
    BY <1>1, <2>1 DEF GeneratorMoves
  <2>2. CASE ~Goes("gen_payload", "chk_payload")
    <3>1. sw.pc \in {"chk_payload", "gen_start"} /\ sw'.length = sw.length
      BY <1>4, <2>2, ComesFrom DEF Goes
    <3>2. ~gen.start /\ gen.payload_length_counter = sw.length
      BY <1>1, <3>1 DEF Prepared, SetUp, Idle
    <3> QED
      BY <1>1, <2>2, <3>1, <3>2 DEF GeneratorMoves
  <2> QED
    BY <2>1, <2>2
<1>5. ASSUME sw'.pc = "gen_start" PROVE chk'.payload_length_counter = sw'.length
  <2>1. sw.pc \in {"chk_payload", "gen_start"} /\ sw'.length = sw.length
    BY <1>5, ComesFrom DEF Goes
  <2>2. ~taken(word)
    BY <1>1, <2>1 DEF Prepared, SetUp, Idle, taken
  <2>3. CASE Goes("chk_payload", "gen_start")
    BY <1>1, <2>1, <2>3 DEF CheckerMoves
  <2>4. CASE ~Goes("chk_payload", "gen_start")
    <3>1. sw.pc = "gen_start"
      BY <1>5, <2>4, ComesFrom
    <3>2. chk.payload_length_counter = sw.length
      BY <1>1, <3>1 DEF Prepared
    <3> QED
      BY <1>1, <2>1, <2>2, <2>4, <3>2 DEF CheckerMoves
  <2> QED
    BY <2>3, <2>4
<1> QED
  BY <1>2, <1>3, <1>4, <1>5 DEF Prepared

(* The checker counts the words it takes, and takes none after the last. *)
LEMMA CounterMoves ==
  ASSUME NEW ready, NEW word, AClock(ready, word), CountInv,
         sw.pc \in Testing, ~gen.infinite_payload_length
  PROVE  chk'.payload_length_counter = chk.payload_length_counter - Stage(taken(word))
<1>1. gen \in GeneratorType /\ chk \in CheckerType
  BY Types DEF AClock
<1>2. PayloadsAgree /\ ~chk.infinite_payload_length /\ CheckerMoves(word)
  BY DEF CountInv, Counted, AClock
<1>3. ~Goes("chk_payload", "gen_start")
  BY DEF Goes, Testing
<1>4. chk.payload_length_counter \in 0..(LENGTH_WRAP - 1) /\ LENGTH_WRAP \in Nat \ {0}
  BY <1>1, PatternAssumption DEF CheckerType
<1>5. \A n \in 1..(LENGTH_WRAP - 1) : (n - 1) % LENGTH_WRAP = n - 1
  BY <1>4
<1>6. CASE taken(word)
  <2>1. Remaining \in Nat
    BY <1>1, PatternAssumption DEF Remaining, GeneratorType
  <2>2. chk.payload_length_counter \in 1..(LENGTH_WRAP - 1)
    BY <1>2, <1>4, <1>6, <2>1, FlightMoves DEF PayloadsAgree
  <2>3. chk'.payload_length_counter = (chk.payload_length_counter - 1) % LENGTH_WRAP
    BY <1>2, <1>3, <1>6 DEF CheckerMoves
  <2> QED
    BY <1>5, <1>6, <2>2, <2>3 DEF Stage
<1>7. CASE ~taken(word)
  <2>1. chk'.payload_length_counter = chk.payload_length_counter
    BY <1>2, <1>3, <1>7 DEF CheckerMoves
  <2> QED
    BY <1>4, <1>7, <2>1 DEF Stage
<1> QED
  BY <1>6, <1>7

(* Neither counter is taken below 0 while it counts. *)
LEMMA CountedKept ==
  ASSUME NEW ready, NEW word, AClock(ready, word), CountInv
  PROVE  Counted'
<1>1. /\ gen \in GeneratorType /\ chk \in CheckerType
  BY Types DEF AClock
<1>2. Prepared /\ Counted /\ GeneratorMoves(ready) /\ CheckerMoves(word)
  BY DEF CountInv, AClock
<1>3. gen'.infinite_payload_length = chk'.infinite_payload_length
  BY <1>2 DEF AClock, Counted
<1>4. /\ gen.payload_length_counter \in 0..(LENGTH_WRAP - 1)
      /\ chk.payload_length_counter \in 0..(LENGTH_WRAP - 1) /\ LENGTH_WRAP \in Nat \ {0}
  BY <1>1, PatternAssumption DEF GeneratorType, CheckerType
<1>5. \A n \in 1..(LENGTH_WRAP - 1) : (n - 1) % LENGTH_WRAP = n - 1
  BY <1>4
<1>6. \A b : Stage(b) \in 0..1
  BY DEF Stage
<1>7. ASSUME sw'.pc \in Testing, ~gen'.infinite_payload_length
      PROVE  /\ PayloadsAgree'
             /\ gen'.start /\ gen'.payload_length_counter = 0 => gen'.read_memory_d1
  <2>1. CASE Goes("gen_start", "chk_start")
    <3>1. /\ Idle /\ gen.payload_length_counter = sw.length
          /\ chk.payload_length_counter = sw.length /\ sw.length \in Payloads
      BY <1>2, <2>1 DEF Goes, Prepared, SetUp, AClock, TypeInv, Locals
    <3>2. /\ ~taken(word) /\ channel' = <<>> /\ gen'.start
          /\ ~gen'.read_memory_d1 /\ ~gen'.read_memory_d2 /\ ~gen'.read_memory_d3
      BY <2>1, <3>1, IdleStays
    <3>3. /\ gen'.payload_length_counter = sw.length /\ chk'.payload_length_counter = sw.length
      BY <1>2, <2>1, <3>1, <3>2 DEF GeneratorMoves, CheckerMoves, Goes, Idle
    <3>4. sw.length \in 1..(LENGTH_WRAP - 1)
      BY <3>1, TestAssumption
    <3>5. InFlight' = 0
      BY <3>2, PipelineNext DEF InFlight, Stage
    <3>6. Remaining' = sw.length
      BY <3>2, <3>3 DEF Remaining
    <3> QED
      BY <1>4, <3>3, <3>4, <3>5, <3>6 DEF PayloadsAgree
  <2>2. CASE ~Goes("gen_start", "chk_start")
    <3>1. sw.pc \in Testing
      BY <1>7, <2>2, ComesFrom
    <3>2. /\ ~Goes("infinite", "stop") /\ ~Goes("gen_payload", "chk_payload")
          /\ ~Goes("chk_payload", "gen_start")
      BY <3>1 DEF Goes, Testing
    <3>3. ~gen.infinite_payload_length /\ ~chk.infinite_payload_length
      BY <1>2, <1>7, <3>2 DEF GeneratorMoves, Counted
    <3>4. PayloadsAgree
      BY <1>2, <3>1, <3>3 DEF Counted
    <3> DEFINE t == Stage(taken(word))
               r == Stage(asks(ready))
    <3>5. /\ InFlight \in Nat /\ InFlight' = InFlight - t + r
          /\ taken(word) => InFlight > 0
      BY FlightMoves
    <3>6. Remaining \in Nat
      BY <1>4 DEF Remaining
    <3>7. chk'.payload_length_counter = chk.payload_length_counter - t
      BY <3>1, <3>3, CounterMoves
    <3>8. /\ Remaining' = Remaining - r
          /\ gen'.start /\ gen'.payload_length_counter = 0 => gen'.read_memory_d1
      <4>1. /\ gen'.start <=> gen.start /\ gen.payload_length_counter # 0
            /\ asks(ready) <=> gen.start /\ ready /\ gen.payload_length_counter # 0
            /\ gen'.read_memory_d1 = asks(ready)
            /\ gen'.payload_length_counter =
                 IF gen.start /\ ready
                 THEN (gen.payload_length_counter - 1) % LENGTH_WRAP
                 ELSE gen.payload_length_counter
        BY <1>2, <2>2, <3>2, <3>3 DEF GeneratorMoves, Generator!clear_start, asks
      <4>2. CASE ~gen.start \/ gen.payload_length_counter = 0
        <5>1. ~gen'.start /\ ~asks(ready) /\ Remaining = 0
          BY <4>1, <4>2 DEF Remaining
        <5>2. Remaining' = 0 /\ r = 0
          BY <5>1 DEF Remaining, Stage
        <5> QED
          BY <5>1, <5>2
      <4>3. CASE gen.start /\ gen.payload_length_counter # 0 /\ ready
        <5>1. asks(ready) /\ gen'.start /\ gen'.read_memory_d1
          BY <4>1, <4>3
        <5>2. gen'.payload_length_counter = gen.payload_length_counter - 1
          BY <1>4, <1>5, <4>1, <4>3
        <5>3. Remaining = gen.payload_length_counter /\ r = 1
          BY <4>3, <5>1 DEF Remaining, Stage
        <5>4. Remaining' = gen'.payload_length_counter
          BY <5>1 DEF Remaining
        <5> QED
          BY <5>1, <5>2, <5>3, <5>4
      <4>4. CASE gen.start /\ gen.payload_length_counter # 0 /\ ~ready
        <5>1. ~asks(ready) /\ gen'.start
          BY <4>1, <4>4
        <5>2. gen'.payload_length_counter = gen.payload_length_counter
          BY <4>1, <4>4
        <5>3. Remaining = gen.payload_length_counter /\ r = 0
          BY <4>4, <5>1 DEF Remaining, Stage
        <5>4. Remaining' = gen'.payload_length_counter
          BY <5>1 DEF Remaining
        <5> QED
          BY <1>4, <4>4, <5>2, <5>3, <5>4
      <4> QED
        BY <4>2, <4>3, <4>4
    <3>9. t \in 0..1 /\ r \in 0..1
      BY <1>6
    <3> HIDE DEF t, r
    <3>10. chk'.payload_length_counter = InFlight' + Remaining'
      BY <3>4, <3>5, <3>6, <3>7, <3>8, <3>9 DEF PayloadsAgree
    <3> QED
      BY <3>8, <3>10 DEF PayloadsAgree
  <2> QED
    BY <2>1, <2>2
<1> QED
  BY <1>3, <1>7 DEF Counted

(* The checker stops with its payload complete, or with the failure seen. *)
LEMMA StoppedKept ==
  ASSUME NEW ready, NEW word, AClock(ready, word), CountInv
  PROVE  Stopped'
<1>1. /\ gen \in GeneratorType /\ chk \in CheckerType
  BY Types DEF AClock
<1>2. Prepared /\ Counted /\ Stopped /\ CheckerMoves(word)
  BY DEF CountInv, AClock
<1>3. ASSUME sw'.pc = "judge" PROVE ~chk'.start
  <2>1. ~chk.start /\ ~Goes("chk_start", "poll")
    BY <1>2, <1>3, ComesFrom DEF Stopped, Goes
  <2> QED
    BY <1>2, <2>1 DEF CheckerMoves
<1>4. ASSUME sw'.pc \in {"poll", "judge"}, ~chk'.start, ~chk'.failure_detected
      PROVE  ~chk'.infinite_payload_length /\ chk'.payload_length_counter = 0
  <2>1. ~chk.failure_detected
    BY <1>2, <1>4 DEF CheckerMoves
  <2>2. sw.pc \in {"poll", "judge"}
    <3>1. ASSUME Goes("chk_start", "poll") PROVE FALSE
      <4>1. ~chk.start
        BY <1>2, <3>1 DEF Prepared, Goes
      <4> QED
        BY <1>2, <1>4, <3>1, <4>1 DEF CheckerMoves, Checker!clear_start
    <3> QED
      BY <1>4, <3>1, ComesFrom
  <2>3. ~Goes("infinite", "stop") /\ ~Goes("chk_payload", "gen_start")
        /\ ~Goes("chk_start", "poll")
    BY <2>2 DEF Goes
  <2>4. ~chk.infinite_payload_length /\ chk.payload_length_counter = 0
    BY <1>2, <1>4, <2>1, <2>2, <2>3 DEF Stopped, CheckerMoves, Checker!clear_start
  <2>5. ~taken(word)
    <3>1. PayloadsAgree
      BY <1>2, <2>2, <2>4 DEF Counted, Testing
    <3>2. Remaining \in Nat
      BY <1>1, PatternAssumption DEF Remaining, GeneratorType
    <3> QED
      BY <2>4, <3>1, <3>2, FlightMoves DEF PayloadsAgree
  <2> QED
    BY <1>2, <2>3, <2>4, <2>5 DEF CheckerMoves
<1> QED
  BY <1>3, <1>4 DEF Stopped

LEMMA InitialCounts == Init => CountInv
BY DEF Init, Generator!Init, Checker!Init, CountInv, Prepared, Idle, Counted, Stopped, Testing

LEMMA CountsStay == CountInv /\ UNCHANGED vars => CountInv'
BY DEF vars, CountInv, Prepared, Idle, Counted, Stopped, PayloadsAgree, InFlight, Remaining,
       Generator!InPipeline

THEOREM CountsInvariant == Spec => []CountInv
<1>1. TypeInv /\ CountInv /\ [Next]_vars => CountInv'
  <2>1. ASSUME TypeInv, CountInv, Next PROVE CountInv'
    BY <2>1, ClockSteps, PreparedKept, CountedKept, StoppedKept DEF Next, CountInv
  <2> QED
    BY <2>1, CountsStay
<1> QED
  BY <1>1, InitialCounts, TypesInvariant, PTL DEF Spec

(***************************************************************************)
(* The software writes lengths, positions and patterns only while both     *)
(* cores are stopped and no word is on its way, although it waits for the  *)
(* checker alone: the checker's count reaches 0 only when the generator has*)
(* sent all and the path is empty.                                         *)
(***************************************************************************)
THEOREM StoppedWhileWritten == Spec => []WrittenWhileStopped
<1>1. TypeInv /\ CountInv => WrittenWhileStopped
  BY NothingInFlight DEF CountInv, Prepared, SetUp, Idle, WrittenWhileStopped
<1> QED
  BY <1>1, TypesInvariant, CountsInvariant, PTL

-----------------------------------------------------------------------------
(* Positions.                                                              *)

(* Remainders. *)
LEMMA RemainderBound ==
  ASSUME NEW x \in Int, NEW m \in Nat \ {0}
  PROVE  x % m \in 0..(m - 1)
OBVIOUS

LEMMA SmallRemainder ==
  ASSUME NEW x \in Nat, NEW m \in Nat \ {0}, x < m
  PROVE  x % m = x
OBVIOUS

LEMMA OneRemainder ==
  ASSUME NEW r \in Nat, NEW q \in Int, NEW m \in Nat \ {0}, r < m
  PROVE  (m * q + r) % m = r
OBVIOUS

LEMMA Quotient ==
  ASSUME NEW x \in Int, NEW m \in Nat \ {0}
  PROVE  \E q \in Int : x = m * q + (x % m)
<1>1. x \div m \in Int /\ x = m * (x \div m) + (x % m)
  OBVIOUS
<1> QED
  BY <1>1

(* A remainder may be taken before what is added to it, or after. *)
LEMMA RemainderFirst ==
  ASSUME NEW x \in Nat, NEW k \in Nat, NEW m \in Nat \ {0}
  PROVE  ((x % m) + k) % m = (x + k) % m
<1> DEFINE r == x % m
           s == (r + k) % m
<1>1. PICK p \in Int : x = m * p + r
  BY x \in Int, Quotient
<1>2. r \in Nat
  BY x \in Int, RemainderBound
<1> HIDE DEF r
<1>3. r + k \in Int
  BY <1>2
<1>4. PICK q \in Int : r + k = m * q + s
  BY <1>3, Quotient
<1>5. s \in Nat /\ s < m
  BY <1>3, RemainderBound
<1> HIDE DEF s
<1>6. m * (p + q) = m * p + m * q /\ p + q \in Int
  OBVIOUS
<1>7. m * p \in Int /\ m * q \in Int
  OBVIOUS
<1>8. x + k = m * (p + q) + s
  BY <1>1, <1>2, <1>4, <1>5, <1>6, <1>7
<1>9. (m * (p + q) + s) % m = s
  BY <1>5, <1>6, OneRemainder
<1> QED
  BY <1>8, <1>9 DEF s, r

(* The next position, in a pattern of any length that fits the memory. *)
LEMMA AfterNext ==
  ASSUME NEW position \in Nat, NEW last \in Addresses, position <= last
  PROVE  After(position, last) = (position + 1) % (last + 1)
<1> DEFINE m == last + 1
           x == position + 1
<1>1. last \in Nat /\ m \in Nat \ {0} /\ x \in Nat /\ last < MAX_PATTERN_LENGTH
      /\ MAX_PATTERN_LENGTH \in Nat \ {0}
  BY PatternAssumption DEF Addresses
<1>2. CASE position = last
  <2>1. m % m = 0
    <3> HIDE DEF m
    <3> QED
      BY <1>1
  <2> QED
    BY <1>2, <2>1 DEF After
<1>3. CASE position # last
  <2>1. x < m /\ x < MAX_PATTERN_LENGTH
    BY <1>1, <1>3
  <2> HIDE DEF x, m
  <2>2. x % m = x /\ x % MAX_PATTERN_LENGTH = x
    BY <1>1, <2>1, SmallRemainder
  <2> QED
    BY <1>3, <2>2 DEF After, x, m
<1> QED
  BY <1>2, <1>3

(* Payloads are made of whole patterns, when they are finite. *)
WholePatterns ==
  (\E mode \in Modes : ~mode.infinite) =>
    \A pattern \in Patterns, length \in Payloads : length % Len(pattern) = 0

(* More of where the software comes from. *)
LEMMA LengthsComeFrom ==
  ASSUME NEW ready, NEW word, AClock(ready, word)
  PROVE  /\ sw'.pc # "infinite" => sw.pc # "infinite" \/ Goes("infinite", "stop")
         /\ sw'.pc = "chk_length" =>
              /\ sw.pc = "chk_length" \/ Goes("gen_length", "chk_length")
              /\ sw'.length = sw.length
         /\ sw'.pc \in LengthsSet => sw.pc \in LengthsSet \/ Goes("chk_length", "gen_position")
<1>1. PICK gen_write, chk_write : Moves(gen_write, chk_write)
  BY DEF AClock
<1>2. sw \in SwType
  BY Types DEF AClock
<1>3. /\ sw'.pc # "infinite" => sw.pc # "infinite" \/ Goes("infinite", "stop")
      /\ sw'.pc = "chk_length" =>
           /\ sw.pc = "chk_length" \/ Goes("gen_length", "chk_length")
           /\ sw'.length = sw.length
  BY <1>1, <1>2 DEF Moves, Goes, SwType, Keep
<1>4. sw'.pc \in LengthsSet => sw.pc \in LengthsSet \/ Goes("chk_length", "gen_position")
  BY <1>1, <1>2 DEF Moves, Goes, SwType, LengthsSet, Testing
<1> QED
  BY <1>3, <1>4

(* A length that is written leaves the last address of its pattern. *)
LEMMA LastAddress ==
  ASSUME NEW length \in PatternLengths
  PROVE  (length - 1) % MAX_PATTERN_LENGTH = length - 1 /\ length \in Nat \ {0}
<1>1. length \in 1..MAX_PATTERN_LENGTH /\ MAX_PATTERN_LENGTH \in Nat \ {0}
  BY PatternLengthsFit, PatternAssumption
<1> DEFINE x == length - 1
<1>2. x \in Nat /\ x < MAX_PATTERN_LENGTH
  BY <1>1
<1> HIDE DEF x
<1>3. x % MAX_PATTERN_LENGTH = x
  BY <1>1, <1>2, SmallRemainder
<1> QED
  BY <1>1, <1>3 DEF x

(* Both cores get the same pattern and the same length. *)
LEMMA PatternKept ==
  ASSUME NEW ready, NEW word, AClock(ready, word), CountInv, SamePattern
  PROVE  SamePattern'
<1>1. Prepared /\ GeneratorMoves(ready) /\ CheckerMoves(word)
  BY DEF CountInv, AClock
<1>2. gen'.pattern_memory = chk'.pattern_memory
  BY DEF AClock, SamePattern
<1>3. ASSUME sw'.pc = "chk_length" PROVE gen'.pattern_length = sw'.length
  <2>1. CASE Goes("gen_length", "chk_length")
    BY <1>1, <1>3, <2>1, LengthsComeFrom DEF GeneratorMoves
  <2>2. CASE ~Goes("gen_length", "chk_length")
    BY <1>1, <1>3, <2>2, LengthsComeFrom DEF GeneratorMoves, SamePattern
  <2> QED
    BY <2>1, <2>2
<1>4. ASSUME sw'.pc \in LengthsSet
      PROVE  /\ gen'.pattern_length \in PatternLengths
             /\ chk'.pattern_length = gen'.pattern_length
  <2>1. ~Goes("gen_length", "chk_length")
    BY <1>4 DEF Goes, LengthsSet, Testing
  <2>2. CASE Goes("chk_length", "gen_position")
    <3>1. gen.pattern_length = sw.length /\ sw.length \in PatternLengths
      BY <2>2 DEF Goes, SamePattern, AClock, TypeInv, Locals
    <3> QED
      BY <1>1, <2>1, <2>2, <3>1 DEF GeneratorMoves, CheckerMoves
  <2>3. CASE ~Goes("chk_length", "gen_position")
    <3>1. sw.pc \in LengthsSet
      BY <1>4, <2>3, LengthsComeFrom
    <3> QED
      BY <1>1, <2>1, <2>3, <3>1 DEF GeneratorMoves, CheckerMoves, SamePattern
  <2> QED
    BY <2>2, <2>3
<1>5. ASSUME sw'.pc \in Testing
      PROVE  gen'.pattern_length_minus_one = gen'.pattern_length - 1
  <2>1. ~Goes("gen_length", "chk_length")
    BY <1>5 DEF Goes, Testing
  <2>2. CASE Goes("gen_start", "chk_start")
    <3>1. ~gen.start
      BY <1>1, <2>2 DEF Goes, Prepared, SetUp, Idle
    <3>2. gen.pattern_length \in PatternLengths
      BY <2>2 DEF Goes, SamePattern, LengthsSet
    <3> QED
      BY <1>1, <2>1, <2>2, <3>1, <3>2, LastAddress DEF GeneratorMoves, Generator!clear_start
  <2>3. CASE ~Goes("gen_start", "chk_start")
    BY <1>1, <1>5, <2>1, <2>3, ComesFrom DEF GeneratorMoves, SamePattern
  <2> QED
    BY <2>2, <2>3
<1>6. ASSUME sw'.pc \in Testing \ {"chk_start"}
      PROVE  chk'.pattern_length_minus_one = gen'.pattern_length_minus_one
  <2>1. ~Goes("gen_start", "chk_start")
    BY <1>6 DEF Goes
  <2>2. sw.pc \in Testing
    BY <1>6, <2>1, ComesFrom
  <2>3. CASE Goes("chk_start", "poll")
    <3>1. ~chk.start
      BY <1>1, <2>3 DEF Goes, Prepared
    <3>2. /\ gen.pattern_length \in PatternLengths /\ chk.pattern_length = gen.pattern_length
          /\ gen.pattern_length_minus_one = gen.pattern_length - 1
      BY <2>2 DEF SamePattern, LengthsSet
    <3> QED
      BY <1>1, <2>1, <2>3, <3>1, <3>2, LastAddress
         DEF GeneratorMoves, CheckerMoves, Checker!clear_start
  <2>4. CASE ~Goes("chk_start", "poll")
    <3>1. sw.pc # "chk_start"
      <4>1. PICK gen_write, chk_write : Moves(gen_write, chk_write)
        BY DEF AClock
      <4> QED
        BY <1>6, <2>4, <4>1 DEF Moves, Goes
    <3> QED
      BY <1>1, <2>1, <2>2, <2>4, <3>1 DEF GeneratorMoves, CheckerMoves, SamePattern
  <2> QED
    BY <2>3, <2>4
<1> QED
  BY <1>2, <1>3, <1>4, <1>5, <1>6 DEF SamePattern

(* When no word moves, the cores are in step if they are at the same word. *)
LEMMA LineAtRest ==
  ASSUME gen' \in GeneratorType, chk' \in CheckerType,
         channel' = <<>>,
         ~gen'.read_memory_d1, ~gen'.read_memory_d2, ~gen'.read_memory_d3,
         gen'.pattern_position_counter = chk'.pattern_position_counter,
         chk'.pattern_position_counter <= gen'.pattern_length_minus_one
  PROVE  Line'
<1> DEFINE p == chk'.pattern_position_counter
           m == gen'.pattern_length_minus_one + 1
<1>1. p \in Nat /\ m \in Nat \ {0} /\ p < m
  BY PatternAssumption DEF GeneratorType, CheckerType, Addresses
<1>2. InFlight' = 0
  BY PipelineNext DEF InFlight, Stage
<1>3. (p + 0) % m = p
  <2> HIDE DEF p, m
  <2> QED
    BY <1>1, SmallRemainder
<1>4. PositionsAgree'
  BY <1>2, <1>3 DEF PositionsAgree
<1>5. 1..Len(channel') = {}
  OBVIOUS
<1> QED
  BY <1>4, <1>5 DEF Line

(* In an idle test the software moves the generator to the first word. *)
LEMMA LineKeptIdle ==
  ASSUME NEW ready, NEW word, AClock(ready, word), Idle, CountInv, LineInv
  PROVE  Line'
<1>1. /\ gen \in GeneratorType /\ chk \in CheckerType
      /\ gen' \in GeneratorType /\ chk' \in CheckerType
  BY Types, SamePortNext DEF AClock, TypeInv, TypeOK
<1>2. GeneratorMoves(ready) /\ CheckerMoves(word) /\ Line /\ Whole /\ Prepared
  BY DEF AClock, LineInv, CountInv
<1>3. /\ ~asks(ready) /\ ~taken(word) /\ channel' = <<>>
      /\ ~gen'.read_memory_d1 /\ ~gen'.read_memory_d2 /\ ~gen'.read_memory_d3
  BY IdleStays
<1> DEFINE p == chk.pattern_position_counter
           last == gen.pattern_length_minus_one
           m == last + 1
<1>4. p \in Nat /\ last \in Nat /\ p <= last
  BY <1>1, <1>2, PatternAssumption DEF GeneratorType, CheckerType, Addresses, Line
<1>5. chk'.pattern_position_counter = p
  BY <1>2, <1>3 DEF CheckerMoves
<1>6. gen.pattern_position_counter = p
  <2>1. InFlight = 0
    BY NothingInFlight DEF AClock, Idle
  <2>2. (p + 0) % m = p
    <3>1. m \in Nat \ {0} /\ p < m
      BY <1>4
    <3> HIDE DEF p, m
    <3> QED
      BY <1>4, <3>1, SmallRemainder
  <2> QED
    BY <1>2, <2>1, <2>2 DEF Line, PositionsAgree
<1>7. sw.pc \in SetUp => p = 0
  BY <1>2 DEF Whole
<1>8. gen'.pattern_position_counter = p
  BY <1>2, <1>3, <1>6, <1>7 DEF GeneratorMoves, Goes, SetUp
<1>9. p <= gen'.pattern_length_minus_one
  <2>1. CASE Goes("gen_start", "chk_start")
    <3>1. p = 0
      BY <1>7, <2>1 DEF Goes, SetUp
    <3> QED
      BY <1>1, <3>1, PatternAssumption DEF GeneratorType, Addresses
  <2>2. CASE ~Goes("gen_start", "chk_start")
    BY <1>2, <1>4, <2>2 DEF GeneratorMoves
  <2> QED
    BY <2>1, <2>2
<1> QED
  BY <1>1, <1>3, <1>5, <1>8, <1>9, LineAtRest

(* While a test runs the software writes no position, length or pattern. *)
LEMMA TestRuns ==
  ASSUME NEW ready, NEW word, AClock(ready, word), CountInv, SamePattern, ~Idle
  PROVE  /\ sw.pc \in Testing
         /\ gen'.pattern_length_minus_one = gen.pattern_length_minus_one
         /\ gen'.pattern_memory = gen.pattern_memory
         /\ gen'.pattern_position_counter =
              IF asks(ready)
              THEN After(gen.pattern_position_counter, gen.pattern_length_minus_one)
              ELSE gen.pattern_position_counter
         /\ chk'.pattern_position_counter =
              IF taken(word)
              THEN After(chk.pattern_position_counter, gen.pattern_length_minus_one)
              ELSE chk.pattern_position_counter
<1>1. Prepared /\ GeneratorMoves(ready) /\ CheckerMoves(word)
  BY DEF CountInv, AClock
<1>2. sw.pc \in Testing
  BY <1>1, ComesFrom DEF Prepared
<1>3. /\ ~Goes("gen_start", "chk_start") /\ ~Goes("populate", "gen_length")
      /\ ~Goes("gen_position", "chk_position") /\ ~Goes("chk_position", "gen_payload")
  BY <1>2 DEF Goes, Testing
<1>4. taken(word) => chk.pattern_length_minus_one = gen.pattern_length_minus_one
  BY <1>1, <1>2 DEF taken, Prepared, SamePattern
<1> QED
  BY <1>1, <1>2, <1>3, <1>4 DEF GeneratorMoves, CheckerMoves

Forward(p, last, t) == IF t = 1 THEN After(p, last) ELSE p

(* The checker's next word is the same place, one word less far away. *)
LEMMA PlaceMoves ==
  ASSUME NEW p \in Nat, NEW last \in Addresses, p <= last,
         NEW t \in 0..1
  PROVE  /\ Forward(p, last, t) \in Nat /\ Forward(p, last, t) <= last
         /\ \A k \in Nat :
              (Forward(p, last, t) + k) % (last + 1) = (p + (t + k)) % (last + 1)
<1> DEFINE q == Forward(p, last, t)
           m == last + 1
           x == p + 1
<1>1. last \in Nat /\ m \in Nat \ {0} /\ x \in Nat
  BY PatternAssumption DEF Addresses
<1>2. CASE t = 1
  <2>1. q = x % m
    BY <1>2, AfterNext DEF Forward
  <2>2. q \in 0..last
    <3>1. m - 1 = last
      BY <1>1
    <3> HIDE DEF x, m, q
    <3> QED
      BY <1>1, <2>1, <3>1, RemainderBound, x \in Int
  <2>3. ASSUME NEW k \in Nat PROVE (q + k) % m = (p + (t + k)) % m
    <3>1. x + k = p + (t + k)
      BY <1>2
    <3> HIDE DEF x, m, q
    <3>2. ((x % m) + k) % m = (x + k) % m
      BY <1>1, RemainderFirst
    <3> QED
      BY <2>1, <3>1, <3>2
  <2> QED
    BY <1>1, <2>2, <2>3
<1>3. CASE t = 0
  BY <1>1, <1>3 DEF Forward
<1> QED
  BY <1>2, <1>3

(* While a test runs, every word moves on by one place for each one taken. *)
LEMMA LineKeptRunning ==
  ASSUME NEW ready, NEW word, AClock(ready, word), CountInv, SamePattern, Line, ~Idle
  PROVE  Line'
<1>1. /\ gen \in GeneratorType /\ chk \in CheckerType /\ channel \in Seq(Words)
      /\ gen' \in GeneratorType
  BY Types, SamePortNext DEF AClock, TypeInv, TypeOK
<1>2. /\ GeneratorMoves(ready) /\ PathMoves(word)
      /\ word \in Offers
  BY DEF AClock
<1> DEFINE p == chk.pattern_position_counter
           q == chk'.pattern_position_counter
           last == gen.pattern_length_minus_one
           m == last + 1
           M == gen.pattern_memory
           t == Stage(taken(word))
           r == Stage(asks(ready))
           s1 == Stage(gen.read_memory_d1)
           s2 == Stage(gen.read_memory_d2)
           s3 == Stage(gen.read_memory_d3)
           n == Len(channel)
           n1 == Len(channel')
           left == Left(word)
           flight == InFlight
           flight1 == InFlight'
           here == gen.pattern_position_counter
<1>3. p \in Nat /\ last \in Addresses /\ last \in Nat /\ p <= last /\ m \in Nat \ {0}
  <2>1. p <= last
    BY DEF Line
  <2>2. p \in Addresses /\ last \in Addresses
    BY <1>1 DEF GeneratorType, CheckerType
  <2> HIDE DEF p, last
  <2> QED
    BY <2>1, <2>2, PatternAssumption DEF Addresses
<1>4. /\ t \in 0..1 /\ r \in 0..1 /\ s1 \in 0..1 /\ s2 \in 0..1 /\ s3 \in 0..1
      /\ t = 1 <=> taken(word)
  BY DEF Stage
<1>5. /\ gen'.pattern_length_minus_one = last /\ gen'.pattern_memory = M
      /\ q = IF t = 1 THEN After(p, last) ELSE p
      /\ gen'.pattern_position_counter = IF asks(ready) THEN After(here, last) ELSE here
  BY <1>4, TestRuns
<1>6. /\ q \in Nat /\ q <= last
      /\ \A k \in Nat : (q + k) % m = (p + (t + k)) % m
  <2>1. q = Forward(p, last, t)
    BY <1>5 DEF Forward
  <2>2. t \in 0..1
    BY <1>4
  <2> HIDE DEF p, q, last, t
  <2> QED
    BY <1>3, <2>1, <2>2, PlaceMoves
<1>7. /\ flight \in Nat /\ flight1 = flight - t + r
      /\ Len(left) = n - t /\ left \in Seq(Words) /\ n \in Nat
      /\ n1 = Len(left) + s3 /\ channel' \in Seq(Words)
      /\ taken(word) => n > 0 /\ flight > 0
  <2>1. /\ InFlight \in Nat /\ Len(channel) \in Nat /\ Len(channel) <= InFlight
        /\ InFlight' = InFlight - Stage(taken(word)) + Stage(asks(ready))
        /\ taken(word) => Len(channel) > 0
        /\ Len(Left(word)) = Len(channel) - Stage(taken(word))
        /\ Left(word) \in Seq(Words)
        /\ channel' \in Seq(Words)
        /\ Len(channel') = Len(Left(word)) + Stage(gen.read_memory_d3)
    BY FlightMoves
  <2> QED
    BY <2>1
<1>8. /\ n1 \in Nat /\ t + n1 = n + s3 /\ flight1 \in Nat /\ t + flight1 = flight + r
      /\ Len(left) \in Nat /\ t + Len(left) = n
  <2> HIDE DEF n, n1, left, t, r, s3, flight, flight1
  <2> QED
    BY <1>4, <1>7
<1>9. /\ here = (p + flight) % m
      /\ \A k \in 1..n : channel[k] = M[(p + (k - 1)) % m]
      /\ gen.read_memory_d3 => gen.memory_data_d1 = M[(p + n) % m]
      /\ gen.read_memory_d2 => gen.memory_data = M[(p + (n + s3)) % m]
      /\ gen.read_memory_d1 => gen.address_reg = (p + ((n + s3) + s2)) % m
  BY DEF Line, PositionsAgree, Due, Place, PatternWords
<1>10. flight = n + ((s1 + s2) + s3)
  BY Pipeline DEF InFlight
(* The generator has asked for a word, or not. *)
<1>11. gen'.pattern_position_counter = (q + flight1) % m
  <2> DEFINE x == p + flight
  <2>1. here \in Nat /\ here <= last /\ here = x % m /\ x \in Nat
    <3>1. x \in Nat
      BY <1>3, <1>7
    <3>2. here = x % m
      BY <1>9
    <3> HIDE DEF x, here, m
    <3>3. here \in 0..(m - 1)
      BY <1>3, <3>1, <3>2, RemainderBound, x \in Int
    <3> QED
      BY <1>3, <3>1, <3>2, <3>3 DEF m
  <2>2. (q + flight1) % m = (p + (t + flight1)) % m
    BY <1>6, <1>8
  <2>3. p + (t + flight1) = x + r
    BY <1>3, <1>4, <1>7, <1>8
  <2> HIDE DEF x, here, m, flight1, p, q, last
  <2>4. CASE asks(ready)
    <3>1. r = 1
      BY <2>4 DEF Stage
    <3>2. gen'.pattern_position_counter = (here + 1) % m
      BY <1>3, <1>5, <2>1, <2>4, AfterNext DEF m
    <3>3. ((x % m) + 1) % m = (x + 1) % m
      BY <1>3, <2>1, RemainderFirst
    <3> QED
      BY <2>1, <2>2, <2>3, <3>1, <3>2, <3>3
  <2>5. CASE ~asks(ready)
    <3>1. r = 0
      BY <2>5 DEF Stage
    <3>2. x + r = x
      BY <2>1, <3>1
    <3> QED
      BY <1>5, <2>1, <2>2, <2>3, <2>5, <3>2
  <2> QED
    BY <2>4, <2>5
(* The words on the path. *)
<1>12. ASSUME NEW k \in 1..n1
       PROVE  channel'[k] = M[(q + (k - 1)) % m]
  <2> HIDE DEF p, q, m, M, t, s3, n, n1, left
  <2>1. k \in Nat /\ k - 1 \in Nat /\ Len(left) \in Nat /\ t \in Nat
    BY <1>4, <1>8, <1>12
  <2>2. (q + (k - 1)) % m = (p + (t + (k - 1))) % m
    BY <1>6, <2>1
  <2>3. channel' = IF gen.read_memory_d3 THEN Append(left, gen.memory_data_d1) ELSE left
    BY <1>2 DEF PathMoves, left
  <2>4. CASE k <= Len(left)
    <3>1. channel'[k] = left[k]
      BY <1>7, <2>1, <2>3, <2>4
    <3>2. left[k] = channel[t + k] /\ t + k \in 1..n
      <4>1. t + k \in 1..n
        BY <1>4, <1>7, <1>8, <2>1, <2>4, <1>12
      <4>2. CASE taken(word)
        <5>1. left = Tail(channel) /\ t = 1
          BY <1>4, <4>2 DEF left, Left
        <5>2. k \in 1..(Len(channel) - 1) /\ channel # <<>>
          BY <1>1, <1>12, <1>7, <1>8, <2>1, <2>4, <5>1, <4>2 DEF n
        <5> QED
          BY <1>1, <4>1, <5>1, <5>2, <2>1
      <4>3. CASE ~taken(word)
        BY <1>4, <2>1, <4>1, <4>3 DEF left, Left
      <4> QED
        BY <4>2, <4>3
    <3>3. (t + k) - 1 = t + (k - 1)
      BY <2>1
    <3> QED
      BY <1>9, <2>2, <3>1, <3>2, <3>3
  <2>5. CASE ~(k <= Len(left))
    <3>1. gen.read_memory_d3 /\ k = Len(left) + 1
      BY <1>4, <1>7, <2>1, <2>5, <1>12 DEF s3, Stage
    <3>2. channel'[k] = gen.memory_data_d1
      BY <1>7, <2>1, <2>3, <3>1
    <3>3. t + (k - 1) = n
      BY <1>8, <2>1, <3>1
    <3> QED
      BY <1>9, <2>2, <3>1, <3>2, <3>3
  <2> QED
    BY <2>4, <2>5
(* The words in the pipeline. *)
<1>13. gen'.read_memory_d3 => gen'.memory_data_d1 = M[(q + n1) % m]
  BY <1>2, <1>6, <1>8, <1>9 DEF GeneratorMoves
<1>14. gen'.read_memory_d2 =>
         gen'.memory_data = M[(q + (n1 + Stage(gen'.read_memory_d3))) % m]
  <2>1. Stage(gen'.read_memory_d3) = s2
    BY <1>2 DEF GeneratorMoves
  <2>2. t + (n1 + s2) = (n + s3) + s2 /\ n1 + s2 \in Nat
    BY <1>4, <1>7, <1>8
  <2>3. (q + (n1 + s2)) % m = (p + (t + (n1 + s2))) % m
    BY <1>6, <2>2
  <2>4. gen'.read_memory_d2 => gen'.memory_data = M[(p + ((n + s3) + s2)) % m]
    BY <1>2, <1>9 DEF GeneratorMoves
  <2> QED
    BY <2>1, <2>2, <2>3, <2>4
<1>15. gen'.read_memory_d1 =>
         gen'.address_reg =
           (q + ((n1 + Stage(gen'.read_memory_d3)) + Stage(gen'.read_memory_d2))) % m
  <2>1. Stage(gen'.read_memory_d3) = s2 /\ Stage(gen'.read_memory_d2) = s1
    BY <1>2 DEF GeneratorMoves
  <2>2. t + ((n1 + s2) + s1) = flight /\ (n1 + s2) + s1 \in Nat
    <3> HIDE DEF t, n1, s2, s1, s3, n, flight
    <3> QED
      BY <1>4, <1>7, <1>8, <1>10
  <2>3. (q + ((n1 + s2) + s1)) % m = (p + (t + ((n1 + s2) + s1))) % m
    BY <1>6, <2>2
  <2>4. gen'.address_reg = here
    BY <1>2 DEF GeneratorMoves
  <2> QED
    BY <1>9, <2>1, <2>2, <2>3, <2>4
<1> QED
  BY <1>5, <1>6, <1>11, <1>12, <1>13, <1>14, <1>15
     DEF Line, PositionsAgree, Due, Place, PatternWords

(* A payload of whole patterns ends both cores at the first word. *)
LEMMA WholeKept ==
  ASSUME NEW ready, NEW word, AClock(ready, word), CountInv, LineInv, WholePatterns
  PROVE  Whole'
<1>1. /\ gen \in GeneratorType /\ chk \in CheckerType
      /\ gen' \in GeneratorType /\ chk' \in CheckerType
  BY Types, SamePortNext DEF AClock, TypeInv, TypeOK
<1>2. /\ GeneratorMoves(ready) /\ CheckerMoves(word) /\ TypeInv
      /\ Prepared /\ Whole /\ Line /\ SamePattern
  BY DEF AClock, CountInv, LineInv
<1> DEFINE p == chk.pattern_position_counter
           q == chk'.pattern_position_counter
           here == gen.pattern_position_counter
           last == gen.pattern_length_minus_one
           m == last + 1
           t == Stage(taken(word))
           c == chk.payload_length_counter
           c1 == chk'.payload_length_counter
<1>3. p \in Nat /\ last \in Addresses /\ last \in Nat /\ p <= last /\ m \in Nat \ {0}
  <2>1. p <= last
    BY <1>2 DEF Line
  <2>2. p \in Addresses /\ last \in Addresses
    BY <1>1 DEF GeneratorType, CheckerType
  <2> HIDE DEF p, last
  <2> QED
    BY <2>1, <2>2, PatternAssumption DEF Addresses
<1>4. ASSUME sw'.pc # "infinite"
      PROVE  \E mode \in Modes : mode.infinite = gen'.infinite_payload_length
  <2>1. CASE Goes("infinite", "stop")
    BY <2>1 DEF AClock
  <2>2. CASE ~Goes("infinite", "stop")
    BY <1>2, <1>4, <2>2, LengthsComeFrom DEF GeneratorMoves, Whole
  <2> QED
    BY <2>1, <2>2
<1>5. ASSUME sw'.pc \in SetUp PROVE gen'.pattern_position_counter = 0 /\ q = 0
  <2>1. Idle /\ here = 0 /\ p = 0
    <3>1. CASE sw.pc \in SetUp
      BY <1>2, <3>1 DEF Whole, Prepared
    <3>2. CASE ~(sw.pc \in SetUp)
      <4>1. sw.pc = "judge" /\ ~chk.failure_detected
        BY <1>5, <3>2, ComesFrom
      <4>2. Idle /\ c = 0 /\ ~gen.infinite_payload_length
        BY <1>2, <4>1, JudgedIsIdle
      <4>3. (p + 0) % m = 0
        BY <1>2, <4>1, <4>2 DEF Whole, Testing, Place, PatternWords
      <4>4. InFlight = 0
        BY <1>2, <4>2, NothingInFlight DEF Idle
      <4>5. here = (p + 0) % m
        BY <1>2, <4>4 DEF Line, PositionsAgree
      <4>6. (p + 0) % m = p
        <5>1. p + 0 = p /\ p < m
          BY <1>3
        <5> HIDE DEF p, m
        <5> QED
          BY <1>3, <5>1, SmallRemainder
      <4> QED
        BY <4>2, <4>3, <4>5, <4>6
    <3> QED
      BY <3>1, <3>2
  <2>2. ~asks(ready) /\ ~taken(word)
    BY <2>1, IdleStays
  <2> QED
    BY <1>2, <2>1, <2>2 DEF GeneratorMoves, CheckerMoves
<1>6. ASSUME sw'.pc \in Testing, ~gen'.infinite_payload_length
      PROVE  (q + c1) % (gen'.pattern_length_minus_one + 1) = 0
  <2>1. CASE Goes("gen_start", "chk_start")
    <3>1. Idle /\ p = 0 /\ c = sw.length /\ sw.length \in Payloads
      BY <1>2, <2>1 DEF Goes, SetUp, Prepared, Whole, TypeInv, Locals
    <3>2. ~taken(word) /\ ~Goes("chk_payload", "gen_start") /\ ~Goes("infinite", "stop")
      BY <2>1, <3>1, IdleStays DEF Goes
    <3>3. q = 0 /\ c1 = sw.length
      BY <1>2, <3>1, <3>2 DEF CheckerMoves
    <3>4. /\ gen.pattern_length \in PatternLengths
          /\ gen'.pattern_length_minus_one = gen.pattern_length - 1
      <4>1. gen.pattern_length \in PatternLengths
        BY <1>2, <2>1 DEF Goes, SamePattern, LengthsSet
      <4>2. ~gen.start
        BY <3>1 DEF Idle
      <4> QED
        BY <1>2, <2>1, <4>1, <4>2, LastAddress DEF GeneratorMoves, Generator!clear_start
    <3>5. \E mode \in Modes : ~mode.infinite
      <4>1. gen'.infinite_payload_length = gen.infinite_payload_length
        BY <1>2, <3>2 DEF GeneratorMoves
      <4> QED
        BY <1>2, <1>6, <2>1, <4>1 DEF Goes, Whole
    <3>6. PICK pattern \in Patterns : gen.pattern_length = Len(pattern)
      BY <3>4 DEF PatternLengths
    <3>7. sw.length % gen.pattern_length = 0
      BY <3>1, <3>5, <3>6 DEF WholePatterns
    <3>8. gen.pattern_length \in Nat /\ sw.length \in Nat
      <4>1. sw.length \in Nat
        BY <1>2, Types DEF SwType
      <4> QED
        BY <3>4, <4>1, LastAddress
    <3>9. gen'.pattern_length_minus_one + 1 = gen.pattern_length /\ q + c1 = sw.length
      BY <3>3, <3>4, <3>8
    <3> QED
      BY <3>7, <3>9
  <2>2. CASE ~Goes("gen_start", "chk_start")
    <3>1. sw.pc \in Testing
      BY <1>6, <2>2, ComesFrom
    <3>2. ~gen.infinite_payload_length
      BY <1>2, <1>6, <3>1 DEF Goes, Testing, GeneratorMoves
    <3>3. gen'.pattern_length_minus_one = last
      BY <1>2, <2>2 DEF GeneratorMoves
    <3>4. c1 = c - t
      BY <3>1, <3>2, CounterMoves
    <3>5. (p + c) % m = 0
      BY <1>2, <3>1, <3>2 DEF Whole, Place, PatternWords
    <3>6. t \in 0..1 /\ c \in Nat /\ c1 \in Nat
      BY <1>1, PatternAssumption DEF Stage, CheckerType
    <3>7. q = Forward(p, last, t)
      <4>1. taken(word) => chk.pattern_length_minus_one = last
        BY <1>2, <3>1 DEF taken, Prepared, SamePattern
      <4> QED
        BY <1>2, <4>1 DEF CheckerMoves, Forward, Stage
    <3>8. (q + c1) % m = (p + (t + c1)) % m
      <4> HIDE DEF p, q, last, t, c1
      <4> QED
        BY <1>3, <3>6, <3>7, PlaceMoves
    <3>9. t + c1 = c
      <4> HIDE DEF t, c, c1
      <4> QED
        BY <3>4, <3>6
    <3> QED
      BY <3>3, <3>5, <3>8, <3>9
  <2> QED
    BY <2>1, <2>2
<1> QED
  BY <1>4, <1>5, <1>6 DEF Whole, Place, PatternWords

LEMMA InitialLine == Init => LineInv
<1>1. SUFFICES ASSUME Init PROVE LineInv
  OBVIOUS
<1>2. TypeInv
  BY <1>1, InitialTypes
<1>3. /\ gen.pattern_position_counter = 0 /\ chk.pattern_position_counter = 0
      /\ gen.pattern_length_minus_one = 0 /\ channel = <<>> /\ sw.pc = "infinite"
      /\ ~gen.read_memory_d1 /\ ~gen.read_memory_d2 /\ ~gen.read_memory_d3
  BY <1>1 DEF Init, Generator!Init, Checker!Init
<1>4. gen.pattern_memory = chk.pattern_memory
  BY <1>1 DEF Init, Generator!Init, Checker!Init, Generator!Addresses, Checker!Addresses
<1>5. SamePattern
  BY <1>3, <1>4 DEF SamePattern, LengthsSet, Testing
<1>6. InFlight = 0
  BY <1>2, <1>3, NothingInFlight
<1>7. PositionsAgree
  BY <1>3, <1>6 DEF PositionsAgree
<1>8. 1..Len(channel) = {}
  BY <1>3
<1>9. Line
  BY <1>3, <1>7, <1>8 DEF Line
<1>10. Whole
  BY <1>3 DEF Whole, Testing
<1> QED
  BY <1>5, <1>9, <1>10 DEF LineInv

LEMMA LineStays == LineInv /\ UNCHANGED vars => LineInv'
BY DEF vars, LineInv, SamePattern, Line, Whole, PositionsAgree, InFlight, Due, Place,
       PatternWords, Generator!InPipeline

THEOREM LineInvariant ==
  ASSUME WholePatterns
  PROVE  Spec => []LineInv
<1>1. TypeInv /\ CountInv /\ LineInv /\ [Next]_vars => LineInv'
  <2>1. ASSUME TypeInv, CountInv, LineInv, Next PROVE LineInv'
    <3>1. PICK ready, word : AClock(ready, word)
      BY <2>1, ClockSteps DEF Next
    <3>2. SamePattern' /\ Whole'
      BY <2>1, <3>1, PatternKept, WholeKept, WholePatterns DEF LineInv
    <3>3. Line'
      BY <2>1, <3>1, LineKeptIdle, LineKeptRunning DEF LineInv
    <3> QED
      BY <3>2, <3>3 DEF LineInv
  <2> QED
    BY <2>1, LineStays
<1> QED
  BY <1>1, InitialLine, TypesInvariant, CountsInvariant, PTL DEF Spec

(***************************************************************************)
(* The cores stay in step: the checker expects exactly the words that are  *)
(* on their way and that the generator has still to send, and the position *)
(* of the generator is the checker's plus the words on their way, although *)
(* the software never sets the checker's position.                         *)
(***************************************************************************)
THEOREM CoresInStep ==
  ASSUME WholePatterns
  PROVE  Spec => []InStep
<1>1. CountInv /\ LineInv => InStep
  BY DEF CountInv, Counted, LineInv, Line, InStep, Testing
<1> QED
  BY <1>1, LineInvariant, CountsInvariant, WholePatterns, PTL

-----------------------------------------------------------------------------
(* The verdict.                                                            *)

(* How the software comes to judge, and to a verdict. *)
LEMMA VerdictComesFrom ==
  ASSUME NEW ready, NEW word, AClock(ready, word)
  PROVE  /\ sw'.pc = "judge" =>
              \/ sw.pc = "judge" /\ sw'.wait = IF sw.wait = 0 THEN 0 ELSE sw.wait - 1
              \/ sw.pc = "poll" /\ ~chk.start /\ sw'.wait = GAP - 1
         /\ sw'.verdict = "error" =>
              sw.verdict = "error" \/ (sw.pc = "judge" /\ chk.failure_detected)
         /\ sw'.verdict = "pass" =>
              \/ sw.verdict = "pass" /\ (sw.pc \in Passed => sw'.pc \in Passed)
              \/ /\ sw.pc = "judge" /\ sw.wait = 0 /\ ~chk.failure_detected
                 /\ sw'.pc \in Passed
<1>1. PICK gen_write, chk_write : Moves(gen_write, chk_write)
  BY DEF AClock
<1>2. sw \in SwType
  BY Types DEF AClock
<1>3. sw'.pc = "judge" =>
        \/ sw.pc = "judge" /\ sw'.wait = IF sw.wait = 0 THEN 0 ELSE sw.wait - 1
        \/ sw.pc = "poll" /\ ~chk.start /\ sw'.wait = GAP - 1
  BY <1>1, <1>2 DEF Moves, Goes, SwType
<1>4. sw'.verdict = "error" =>
        sw.verdict = "error" \/ (sw.pc = "judge" /\ chk.failure_detected)
  BY <1>1, <1>2 DEF Moves, Goes, SwType, Keep
<1>5. sw'.verdict = "pass" =>
        \/ sw.verdict = "pass" /\ (sw.pc \in Passed => sw'.pc \in Passed)
        \/ /\ sw.pc = "judge" /\ sw.wait = 0 /\ ~chk.failure_detected
           /\ sw'.pc \in Passed
  BY <1>1, <1>2 DEF Moves, Goes, SwType, Keep, Passed
<1> QED
  BY <1>3, <1>4, <1>5

(* The word that is taken is compared with the word it was sent as. *)
LEMMA ExpectedIsSent ==
  ASSUME NEW ready, NEW word, AClock(ready, word), CountInv, LineInv, taken(word)
  PROVE  /\ Head(channel) = chk.pattern_memory[chk.pattern_position_counter]
         /\ chk'.pattern_memory = chk.pattern_memory
<1>1. /\ gen \in GeneratorType /\ chk \in CheckerType /\ channel \in Seq(Words)
      /\ word \in Offers /\ Prepared /\ CheckerMoves(word) /\ Line
      /\ gen.pattern_memory = chk.pattern_memory
  BY Types DEF AClock, CountInv, LineInv, SamePattern
<1> DEFINE p == chk.pattern_position_counter
           m == gen.pattern_length_minus_one + 1
<1>2. channel # <<>>
  BY <1>1, TakenIsThere
<1>3. Len(channel) \in Nat /\ 1 \in 1..Len(channel) /\ Head(channel) = channel[1]
  BY <1>1, <1>2
<1>4. channel[1] = gen.pattern_memory[(p + 0) % m]
  BY <1>1, <1>3 DEF Line, Due, Place, PatternWords
<1>5. (p + 0) % m = p
  <2>1. p <= gen.pattern_length_minus_one
    BY <1>1 DEF Line
  <2>2. p \in Addresses /\ gen.pattern_length_minus_one \in Addresses
    BY <1>1 DEF GeneratorType, CheckerType
  <2>3. p \in Nat /\ m \in Nat \ {0} /\ p < m /\ p + 0 = p
    BY <2>1, <2>2, PatternAssumption DEF Addresses
  <2> HIDE DEF p, m
  <2> QED
    BY <2>3, SmallRemainder
<1>6. ~Goes("populate", "gen_length")
  BY <1>1 DEF Goes, Prepared, SetUp, Idle, taken
<1> QED
  BY <1>1, <1>3, <1>4, <1>5, <1>6 DEF CheckerMoves

(* A wrong word goes down the pipeline and stays in the failure flag. *)
LEMMA AlarmKept ==
  ASSUME NEW ready, NEW word, AClock(ready, word), CountInv, LineInv, Alarm
  PROVE  Alarm'
<1>1. /\ chk \in CheckerType /\ chk' \in CheckerType
      /\ corrupted \in BOOLEAN /\ corrupted' \in BOOLEAN
      /\ CheckerMoves(word) /\ PathMoves(word)
  BY Types, SamePortNext DEF AClock, TypeInv, TypeOK
<1> DEFINE expected == chk.pattern_memory[chk.pattern_position_counter]
<1>2. corrupted' <=> corrupted \/ (taken(word) /\ word # expected)
  BY <1>1, ExpectedIsSent DEF PathMoves
<1>3. chk'.failure_detected <=>
        chk.failure_detected \/ (chk.valid_data_d4 /\ ~chk.data_compare_d1)
  BY <1>1 DEF CheckerMoves, Checker!set_failure_detected, CheckerType
<1>4. chk'.valid_data_d4 /\ ~chk'.data_compare_d1 <=>
        Wrong(chk.data_in_d3, chk.memory_data_d1)
  BY <1>1 DEF CheckerMoves, Wrong
<1>5. Wrong(chk'.data_in_d3, chk'.memory_data_d1) <=> Wrong(chk.data_in_d2, chk.memory_data)
  BY <1>1 DEF CheckerMoves, Wrong
<1>6. Wrong(chk'.data_in_d2, chk'.memory_data) <=>
        Wrong(chk.data_in_d1, chk.pattern_memory[chk.address_reg])
  BY <1>1 DEF CheckerMoves, Wrong
<1>7. Wrong(chk'.data_in_d1, chk'.pattern_memory[chk'.address_reg]) <=>
        taken(word) /\ word # expected
  <2>1. CASE taken(word)
    BY <1>1, <2>1, ExpectedIsSent DEF CheckerMoves, Wrong, taken
  <2>2. CASE ~taken(word)
    BY <1>1, <2>2 DEF CheckerMoves, Wrong
  <2> QED
    BY <2>1, <2>2
<1>8. corrupted <=>
        \/ chk.failure_detected
        \/ chk.valid_data_d4 /\ ~chk.data_compare_d1
        \/ Wrong(chk.data_in_d3, chk.memory_data_d1)
        \/ Wrong(chk.data_in_d2, chk.memory_data)
        \/ Wrong(chk.data_in_d1, chk.pattern_memory[chk.address_reg])
  BY DEF Alarm
<1>9. corrupted' <=>
        \/ chk'.failure_detected
        \/ chk'.valid_data_d4 /\ ~chk'.data_compare_d1
        \/ Wrong(chk'.data_in_d3, chk'.memory_data_d1)
        \/ Wrong(chk'.data_in_d2, chk'.memory_data)
        \/ Wrong(chk'.data_in_d1, chk'.pattern_memory[chk'.address_reg])
  <2> HIDE DEF expected
  <2> QED
    BY <1>2, <1>3, <1>4, <1>5, <1>6, <1>7, <1>8
<1> QED
  BY <1>9 DEF Alarm, Wrong

(* The pipeline of the checker is empty before the flag is read. *)
LEMMA DrainedKept ==
  ASSUME NEW ready, NEW word, AClock(ready, word), CountInv, Drained
  PROVE  Drained'
<1>1. /\ gen \in GeneratorType /\ chk \in CheckerType /\ sw \in SwType
      /\ GAP \in Nat \ {0}
      /\ CheckerMoves(word) /\ Prepared /\ Counted /\ Stopped
  BY Types, TestAssumption DEF AClock, CountInv
<1>2. chk.failure_detected => chk'.failure_detected
  BY <1>1 DEF CheckerMoves
<1>3. ASSUME sw'.pc \in {"poll", "judge"}, ~chk'.start, ~chk'.failure_detected
      PROVE  chk'.data_in_d1 = NoWord
  <2>1. SUFFICES ASSUME taken(word) PROVE FALSE
    BY <1>1 DEF CheckerMoves
  <2>2. chk.start
    BY <2>1 DEF taken
  <2>3. sw.pc \in {"poll", "judge"}
    BY <1>1, <1>3, <2>2, ComesFrom DEF Goes, Prepared
  <2>4. ~chk.infinite_payload_length /\ chk.payload_length_counter = 0
    BY <1>1, <1>2, <1>3, <2>2 DEF CheckerMoves, Checker!clear_start
  <2>5. PayloadsAgree
    BY <1>1, <2>3, <2>4 DEF Counted, Testing
  <2>6. Remaining \in Nat
    BY <1>1, PatternAssumption DEF Remaining, GeneratorType
  <2> QED
    BY <2>1, <2>4, <2>5, <2>6, FlightMoves DEF PayloadsAgree
<1>4. ASSUME sw'.pc = "judge", ~chk'.failure_detected
      PROVE  /\ chk'.data_in_d2 = NoWord
             /\ sw'.wait < GAP - 1 => chk'.data_in_d3 = NoWord
             /\ sw'.wait < GAP - 2 => ~chk'.valid_data_d4
  <2>1. ~chk.start /\ sw.pc \in {"poll", "judge"}
    BY <1>1, <1>4, VerdictComesFrom DEF Stopped
  <2>2. ~chk.failure_detected
    BY <1>2, <1>4
  <2>3. chk'.data_in_d2 = NoWord
    BY <1>1, <2>1, <2>2 DEF CheckerMoves, Drained
  <2>4. CASE sw.pc = "poll"
    <3>1. sw'.wait = GAP - 1
      BY <1>4, <2>4, VerdictComesFrom
    <3> QED
      BY <1>1, <2>3, <3>1
  <2>5. CASE sw.pc = "judge"
    <3>1. sw'.wait = IF sw.wait = 0 THEN 0 ELSE sw.wait - 1
      BY <1>4, <2>5, VerdictComesFrom
    <3>2. chk'.data_in_d3 = NoWord
      BY <1>1, <2>2, <2>5 DEF CheckerMoves, Drained
    <3>3. sw'.wait < GAP - 2 => sw.wait < GAP - 1
      BY <1>1, <3>1 DEF SwType
    <3>4. sw.wait < GAP - 1 => ~chk'.valid_data_d4
      BY <1>1, <2>2, <2>5 DEF CheckerMoves, Drained
    <3> QED
      BY <2>3, <3>2, <3>3, <3>4
  <2> QED
    BY <2>1, <2>4, <2>5
<1> QED
  BY <1>3, <1>4 DEF Drained

(* A pass is given when nothing is left to compare. *)
LEMMA JudgedIsClean ==
  ASSUME TypeInv, CountInv, VerdictInv, GAP >= 3,
         sw.pc = "judge", sw.wait = 0, ~chk.failure_detected
  PROVE  ~corrupted
<1>1. ~chk.start /\ GAP \in Nat
  BY TestAssumption DEF CountInv, Stopped
<1>2. chk.data_in_d1 = NoWord /\ chk.data_in_d2 = NoWord
  BY <1>1 DEF VerdictInv, Drained
<1>3. chk.data_in_d3 = NoWord /\ ~chk.valid_data_d4
  BY <1>1 DEF VerdictInv, Drained
<1> QED
  BY <1>2, <1>3 DEF VerdictInv, Alarm, Wrong

LEMMA VerdictsKept ==
  ASSUME NEW ready, NEW word, AClock(ready, word), CountInv, VerdictInv, GAP >= 3
  PROVE  Verdicts'
<1>1. /\ TypeInv /\ Verdicts /\ Alarm /\ corrupted \in BOOLEAN
      /\ CheckerMoves(word) /\ GeneratorMoves(ready) /\ PathMoves(word)
  BY Types DEF AClock, VerdictInv
<1>2. ASSUME sw'.verdict = "error" PROVE corrupted'
  <2>1. corrupted
    BY <1>1, <1>2, VerdictComesFrom DEF Verdicts, Alarm
  <2> QED
    BY <1>1, <2>1 DEF PathMoves
<1>3. ASSUME sw'.verdict = "pass"
      PROVE  /\ sw'.pc \in Passed
             /\ Idle' /\ ~corrupted' /\ chk'.payload_length_counter = 0
  <2>1. /\ sw'.pc \in Passed /\ sw.pc \in Passed \cup {"judge"}
        /\ Idle /\ ~corrupted /\ chk.payload_length_counter = 0
    <3>1. CASE sw.verdict = "pass" /\ (sw.pc \in Passed => sw'.pc \in Passed)
      BY <1>1, <3>1 DEF Verdicts
    <3>2. CASE ~(sw.verdict = "pass" /\ (sw.pc \in Passed => sw'.pc \in Passed))
      <4>1. /\ sw.pc = "judge" /\ sw.wait = 0 /\ ~chk.failure_detected /\ sw'.pc \in Passed
        BY <1>3, <3>2, VerdictComesFrom
      <4> QED
        BY <1>1, <4>1, JudgedIsIdle, JudgedIsClean
    <3> QED
      BY <3>1, <3>2
  <2>2. /\ ~Goes("gen_start", "chk_start") /\ ~Goes("chk_start", "poll")
        /\ ~Goes("chk_payload", "gen_start")
    BY <2>1 DEF Goes, Passed
  <2>3. ~taken(word) /\ Idle' /\ ~corrupted'
    BY <1>1, <2>1, <2>2, IdleStays DEF Idle
  <2> QED
    BY <1>1, <2>1, <2>2, <2>3 DEF CheckerMoves
<1> QED
  BY <1>2, <1>3 DEF Verdicts

LEMMA InitialVerdict == Init => VerdictInv
BY DEF Init, Generator!Init, Checker!Init, VerdictInv, Alarm, Wrong, Drained, Verdicts

LEMMA AlarmStays == Alarm /\ UNCHANGED vars => Alarm'
BY DEF vars, Alarm, Wrong

LEMMA VerdictStays == VerdictInv /\ UNCHANGED vars => VerdictInv'
BY AlarmStays DEF vars, VerdictInv, Drained, Verdicts, Idle

THEOREM AlarmInvariant ==
  ASSUME WholePatterns
  PROVE  Spec => []Alarm
<1>1. Init => Alarm
  BY InitialVerdict DEF VerdictInv
<1>2. TypeInv /\ CountInv /\ LineInv /\ Alarm /\ [Next]_vars => Alarm'
  <2>1. ASSUME TypeInv, CountInv, LineInv, Alarm, Next PROVE Alarm'
    BY <2>1, ClockSteps, AlarmKept DEF Next
  <2> QED
    BY <2>1, AlarmStays
<1> QED
  BY <1>1, <1>2, TypesInvariant, CountsInvariant, LineInvariant, WholePatterns, PTL DEF Spec

(***************************************************************************)
(* With payloads of whole patterns the checker raises no false alarm,      *)
(* however fast the software is.  Payloads that end inside a pattern break *)
(* this: the run that expects a violation of NoFalseAlarm shows how.       *)
(***************************************************************************)
THEOREM AlarmsAreTrue ==
  ASSUME WholePatterns
  PROVE  Spec => []NoFalseAlarm
<1>1. Alarm => NoFalseAlarm
  BY DEF Alarm, NoFalseAlarm
<1> QED
  BY <1>1, AlarmInvariant, WholePatterns, PTL

THEOREM VerdictInvariant ==
  ASSUME WholePatterns, GAP >= 3
  PROVE  Spec => []VerdictInv
<1>1. TypeInv /\ CountInv /\ LineInv /\ VerdictInv /\ [Next]_vars => VerdictInv'
  <2>1. ASSUME TypeInv, CountInv, LineInv, VerdictInv, Next PROVE VerdictInv'
    <3>1. PICK ready, word : AClock(ready, word)
      BY <2>1, ClockSteps DEF Next
    <3> QED
      BY <2>1, <3>1, GAP >= 3, AlarmKept, DrainedKept, VerdictsKept DEF VerdictInv
  <2> QED
    BY <2>1, VerdictStays
<1> QED
  BY <1>1, InitialVerdict, TypesInvariant, CountsInvariant, LineInvariant, WholePatterns, PTL
     DEF Spec

(***************************************************************************)
(* The verdict is true: an error is reported only when the path has handed *)
(* out a wrong word, and a pass only when it has not and no word is missing*)
(* or on its way.  Three cycles between the poll that sees the checker     *)
(* stopped and the read of its failure flag are what the last comparison   *)
(* needs.                                                                  *)
(***************************************************************************)
THEOREM VerdictHolds ==
  ASSUME WholePatterns, GAP >= 3
  PROVE  Spec => []VerdictIsTrue
<1>1. TypeInv /\ VerdictInv => VerdictIsTrue
  BY NothingInFlight DEF VerdictInv, Verdicts, Idle, VerdictIsTrue
<1> QED
  BY <1>1, TypesInvariant, VerdictInvariant, WholePatterns, GAP >= 3, PTL

=============================================================================
