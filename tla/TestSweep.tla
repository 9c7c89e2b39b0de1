------------------------------ MODULE TestSweep ------------------------------
(***************************************************************************)
(* The memory test software: main() sweeps patterns, block sizes, trails   *)
(* and lengths, programs the cores for each combination, waits for the     *)
(* checker and stops at the first test that does not pass.                 *)
(*                                                                         *)
(* The test hardware is what main() relies on: once generator, controller  *)
(* and checker are started, words flow from the generator that the         *)
(* multiplexer selects to the checker that the demultiplexer selects.      *)
(* It may take any time, or hang.                                          *)
(***************************************************************************)
EXTENDS Integers, Bags

CONSTANTS
  NUM_OF_TESTS, NUMBER_OF_MINOR_TESTS, PRBS_TEST_NUMBER,
  TestsEnabled,                  \* minor tests whose _ENABLE is 1
  BLOCK_SIZE_MINIMUM, BLOCK_SIZE_MAXIMUM,
  BLOCK_TRAIL_DISTANCE_MINIMUM, BLOCK_TRAIL_DISTANCE_MAXIMUM,
  RAM_LENGTH_MINIMUM, RAM_LENGTH_MAXIMUM,
  TIMEOUT,                       \* polls until a test counts as hung
  Modulus,                       \* unsigned long counts modulo this
  BLOCK_MODULUS                  \* and the block size register of the hardware

ASSUME TestSweepAssumption ==
  /\ NUM_OF_TESTS \in Nat \cup {-1} /\ NUMBER_OF_MINOR_TESTS \in Nat
  /\ TestsEnabled \subseteq 0..(NUMBER_OF_MINOR_TESTS - 1)
  /\ TIMEOUT \in Nat \ {0} /\ Modulus \in Nat /\ Modulus > 32
  /\ BLOCK_MODULUS \in Nat /\ BLOCK_MODULUS > 32
  /\ {BLOCK_SIZE_MINIMUM, BLOCK_SIZE_MAXIMUM, BLOCK_TRAIL_DISTANCE_MINIMUM,
      BLOCK_TRAIL_DISTANCE_MAXIMUM, RAM_LENGTH_MINIMUM, RAM_LENGTH_MAXIMUM}
       \subseteq 1..(Modulus - 1)

Kinds == {"custom", "prbs"}

VARIABLES
  \* main(): where it is, its counters
  pc, main_test_byte_counter, minor_test_counter, block_size_counter,
  block_trail_distance_counter, length_counter, failure_detected,
  counter,            \* polls of validate_results
  \* the cores: switches, pattern memories, generators, checkers
  input, output, pattern, generator, checker, failure_flag,
  \* the controller: registers and start bit
  controller,
  \* what really happened: the test that the hardware has carried out since
  \* the last verdict, the tests that main() has seen pass
  carriedOut, passed

loops == <<main_test_byte_counter, minor_test_counter, block_size_counter,
           block_trail_distance_counter, length_counter>>
switches == <<input, output, pattern>>
cores == <<generator, checker, controller, failure_flag>>
vars == <<pc, loops, failure_detected, counter, switches, cores, carriedOut, passed>>

-----------------------------------------------------------------------------
Kind == IF minor_test_counter = PRBS_TEST_NUMBER THEN "prbs" ELSE "custom"

Twice(x) == (2 * x) % Modulus

Stopped == [length |-> 0, start |-> FALSE]

None == <<>>

Init ==
  /\ pc = "minor" /\ main_test_byte_counter = 0 /\ minor_test_counter = 0
  /\ block_size_counter = 0 /\ block_trail_distance_counter = 0
  /\ length_counter = 0 /\ failure_detected = 0 /\ counter = 0
  /\ input = "custom" /\ output = "custom" /\ pattern = -1
  /\ generator = [k \in Kinds |-> Stopped] /\ checker = [k \in Kinds |-> Stopped]
  /\ failure_flag = [k \in Kinds |-> FALSE]
  /\ controller = [length |-> 32, block |-> 32, trail |-> 1, start |-> "clear"]
  /\ carriedOut = None /\ passed = EmptyBag

-----------------------------------------------------------------------------
(* The sweep.  Each action is the head of a loop of main(). *)
Minor ==
  /\ pc = "minor"
  /\ IF minor_test_counter < NUMBER_OF_MINOR_TESTS /\ failure_detected = 0
     THEN IF minor_test_counter \in TestsEnabled
          THEN /\ pc' = "mux"
               /\ pattern' = IF Kind = "custom" THEN minor_test_counter ELSE pattern
               /\ UNCHANGED minor_test_counter
          ELSE /\ minor_test_counter' = minor_test_counter + 1
               /\ UNCHANGED <<pc, pattern>>
     ELSE pc' = "major" /\ UNCHANGED <<minor_test_counter, pattern>>
  /\ UNCHANGED <<main_test_byte_counter, block_size_counter,
                 block_trail_distance_counter, length_counter, failure_detected,
                 counter, input, output, cores, carriedOut, passed>>

(* Mutant: the input stays at the PRBS generator once it is there. *)
MuxSelectOnce ==
  /\ pc = "mux"
  /\ input' = IF input = "prbs" THEN input ELSE Kind
  /\ pc' = "demux"
  /\ UNCHANGED <<loops, failure_detected, counter, output, pattern, cores,
                 carriedOut, passed>>

(* mux_input_select: refused, without a word, while data is pending. *)
MuxSelect ==
  /\ pc = "mux"
  /\ input' \in IF generator[input].start THEN {Kind, input} ELSE {Kind}
  /\ pc' = "demux"
  /\ UNCHANGED <<loops, failure_detected, counter, output, pattern, cores,
                 carriedOut, passed>>

DemuxSelect ==
  /\ pc = "demux"
  /\ output' \in IF controller.start = "set" THEN {Kind, output} ELSE {Kind}
  /\ pc' = "block" /\ block_size_counter' = BLOCK_SIZE_MINIMUM
  /\ UNCHANGED <<main_test_byte_counter, minor_test_counter,
                 block_trail_distance_counter, length_counter, failure_detected,
                 counter, input, pattern, cores, carriedOut, passed>>

Block ==
  /\ pc = "block"
  /\ IF block_size_counter <= BLOCK_SIZE_MAXIMUM /\ failure_detected = 0
     THEN /\ pc' = "trail"
          /\ block_trail_distance_counter' = BLOCK_TRAIL_DISTANCE_MINIMUM
          /\ UNCHANGED minor_test_counter
     ELSE /\ pc' = "minor" /\ minor_test_counter' = minor_test_counter + 1
          /\ UNCHANGED block_trail_distance_counter
  /\ UNCHANGED <<main_test_byte_counter, block_size_counter, length_counter,
                 failure_detected, counter, switches, cores, carriedOut, passed>>

(* Mutant: the lengths are swept for the first trail only. *)
TrailKeepsLength ==
  /\ pc = "trail"
  /\ IF block_trail_distance_counter <= BLOCK_TRAIL_DISTANCE_MAXIMUM /\ failure_detected = 0
     THEN /\ pc' = "length"
          /\ length_counter' = IF length_counter = 0 THEN RAM_LENGTH_MINIMUM
                               ELSE length_counter
          /\ UNCHANGED block_size_counter
     ELSE /\ pc' = "block" /\ block_size_counter' = Twice(block_size_counter)
          /\ UNCHANGED length_counter
  /\ UNCHANGED <<main_test_byte_counter, minor_test_counter,
                 block_trail_distance_counter, failure_detected, counter,
                 switches, cores, carriedOut, passed>>

Trail ==
  /\ pc = "trail"
  /\ IF block_trail_distance_counter <= BLOCK_TRAIL_DISTANCE_MAXIMUM /\ failure_detected = 0
     THEN /\ pc' = "length" /\ length_counter' = RAM_LENGTH_MINIMUM
          /\ UNCHANGED block_size_counter
     ELSE /\ pc' = "block" /\ block_size_counter' = Twice(block_size_counter)
          /\ UNCHANGED length_counter
  /\ UNCHANGED <<main_test_byte_counter, minor_test_counter,
                 block_trail_distance_counter, failure_detected, counter,
                 switches, cores, carriedOut, passed>>

Length ==
  /\ pc = "length"
  /\ IF length_counter <= RAM_LENGTH_MAXIMUM /\ failure_detected = 0
     THEN pc' = "generator_length" /\ UNCHANGED block_trail_distance_counter
     ELSE /\ pc' = "trail"
          /\ block_trail_distance_counter' = Twice(block_trail_distance_counter)
  /\ UNCHANGED <<main_test_byte_counter, minor_test_counter, block_size_counter,
                 length_counter, failure_detected, counter, switches, cores,
                 carriedOut, passed>>

(* The end of a round; NUM_OF_TESTS of -1 goes on for ever. *)
Major ==
  /\ pc = "major"
  /\ main_test_byte_counter' =
       IF NUM_OF_TESTS # -1 THEN main_test_byte_counter + 1 ELSE main_test_byte_counter
  /\ IF (main_test_byte_counter' < NUM_OF_TESTS \/ NUM_OF_TESTS = -1)
          /\ failure_detected = 0
     THEN pc' = "minor" /\ minor_test_counter' = 0
     ELSE pc' = "return" /\ UNCHANGED minor_test_counter
  /\ UNCHANGED <<block_size_counter, block_trail_distance_counter, length_counter,
                 failure_detected, counter, switches, cores, carriedOut, passed>>

-----------------------------------------------------------------------------
(* program_custom_pattern_payload_length, program_prbs_pattern_payload_length. *)
(* The start bit of an empty payload clears at once.                          *)
Program(from, to) ==
  /\ pc = from /\ pc' = to
  /\ UNCHANGED <<loops, failure_detected, counter, switches, controller,
                 failure_flag, carriedOut, passed>>

GeneratorLength ==
  /\ generator' = [generator EXCEPT ![Kind].length = length_counter]
  /\ UNCHANGED checker
  /\ Program("generator_length", "checker_length")

CheckerLength ==
  /\ checker' = [checker EXCEPT ![Kind].length = length_counter]
  /\ UNCHANGED generator
  /\ Program("checker_length", "generator_start")

GeneratorStart ==
  /\ generator' = [generator EXCEPT ![Kind].start = generator[Kind].length # 0]
  /\ UNCHANGED checker
  /\ Program("generator_start", "checker_start")

CheckerStart ==
  /\ checker' = [checker EXCEPT ![Kind].start = checker[Kind].length # 0]
  /\ UNCHANGED generator
  /\ Program("checker_start", "set_timer")

(* start_test.  Each write waits until the start bit is clear; a value that *)
(* the driver refuses ends it, and main() does not look at its result.      *)
StartTest(from, to) ==
  /\ pc = from /\ controller.start = "clear"
  /\ pc' = to /\ counter' = 0
  /\ UNCHANGED <<loops, failure_detected, switches, generator, checker,
                 failure_flag, carriedOut, passed>>

SetTimer == UNCHANGED controller /\ StartTest("set_timer", "set_transfer_length")

SetTransferLength ==
  /\ controller' = [controller EXCEPT !.length =
                      IF length_counter <= 32 THEN 32 ELSE length_counter]
  /\ StartTest("set_transfer_length",
               IF length_counter <= 32 THEN "poll" ELSE "set_block_size")

(* The size is written in two parts, 24 bits in all.  What does not fit is  *)
(* lost, and nobody is told.                                                *)
SetBlockSize ==
  /\ controller' = [controller EXCEPT !.block =
                      (IF block_size_counter <= 32 THEN 32 ELSE block_size_counter)
                        % BLOCK_MODULUS]
  /\ StartTest("set_block_size",
               IF block_size_counter <= 32 THEN "poll" ELSE "set_block_trail_distance")

(* The distance is handed over as an unsigned char. *)
SetBlockTrailDistance ==
  LET trail == block_trail_distance_counter % 256
  IN  /\ controller' = [controller EXCEPT !.trail = IF trail = 0 THEN 1 ELSE trail]
      /\ StartTest("set_block_trail_distance",
                   IF trail = 0 THEN "poll" ELSE "enable_start")

EnableStart ==
  /\ controller' = [controller EXCEPT !.start = "set"]
  /\ StartTest("enable_start", "poll")

-----------------------------------------------------------------------------
(* Mutants: the polls are not counted, or compared before they are. *)
PollForever ==
  /\ pc = "poll"
  /\ counter' = IF counter = 0 THEN 1 ELSE counter
  /\ pc' = IF checker[Kind].start THEN "poll" ELSE "verdict"
  /\ UNCHANGED <<loops, failure_detected, switches, cores, carriedOut, passed>>

PollLate ==
  /\ pc = "poll"
  /\ counter' = counter + 1
  /\ pc' = IF counter # TIMEOUT /\ checker[Kind].start THEN "poll" ELSE "verdict"
  /\ UNCHANGED <<loops, failure_detected, switches, cores, carriedOut, passed>>

(* validate_results: one turn of the polling loop ... *)
Poll ==
  /\ pc = "poll"
  /\ counter' = counter + 1
  /\ pc' = IF counter + 1 # TIMEOUT /\ checker[Kind].start THEN "poll" ELSE "verdict"
  /\ UNCHANGED <<loops, failure_detected, switches, cores, carriedOut, passed>>

(* ... and the verdict, which after a PRBS test looks at both checkers. *)
Verdict ==
  /\ pc = "verdict"
  /\ failure_detected' =
       IF counter = TIMEOUT THEN 2
       ELSE IF (Kind = "prbs" /\ failure_flag["prbs"]) \/ failure_flag["custom"] THEN 1
       ELSE 0
  /\ passed' = IF failure_detected' = 0 THEN passed (+) SetToBag({carriedOut}) ELSE passed
  /\ carriedOut' = None
  /\ pc' = "length" /\ length_counter' = Twice(length_counter)
  /\ UNCHANGED <<main_test_byte_counter, minor_test_counter, block_size_counter,
                 block_trail_distance_counter, counter, switches, cores>>

Software ==
  \/ Minor \/ MuxSelect \/ DemuxSelect \/ Block \/ Trail \/ Length \/ Major
  \/ GeneratorLength \/ CheckerLength \/ GeneratorStart \/ CheckerStart
  \/ SetTimer \/ SetTransferLength \/ SetBlockSize \/ SetBlockTrailDistance
  \/ EnableStart \/ Poll \/ Verdict

-----------------------------------------------------------------------------
(* The hardware.  All words of a test come through once everything on their *)
(* way is started; a word that the memory changed sets the failure flag.    *)
(* With a block size of 0 the test does not get on.                         *)
Ready ==
  /\ controller.start = "set" /\ controller.block # 0
  /\ generator[input].start /\ controller.length <= generator[input].length
  /\ checker[output].start /\ checker[output].length <= controller.length

Deliver ==
  /\ Ready
  /\ \E bad \in BOOLEAN : failure_flag' = [failure_flag EXCEPT ![output] = @ \/ bad]
  /\ generator' = [generator EXCEPT ![input] = Stopped]
  /\ checker' = [checker EXCEPT ![output] = Stopped]
  /\ controller' = [controller EXCEPT !.start = "clearing"]
  /\ carriedOut' = <<IF output = "prbs" THEN PRBS_TEST_NUMBER ELSE pattern,
                     controller.block, controller.trail, controller.length>>
  /\ UNCHANGED <<pc, loops, failure_detected, counter, switches, passed>>

(* The controller notices the end of the test a little later. *)
ClearStart ==
  /\ controller.start = "clearing"
  /\ controller' = [controller EXCEPT !.start = "clear"]
  /\ UNCHANGED <<pc, loops, failure_detected, counter, switches, generator,
                 checker, failure_flag, carriedOut, passed>>

Next == Software \/ Deliver \/ ClearStart

Spec == Init /\ [][Next]_vars

(* The processor runs, and a test that is over clears the start bit; no test *)
(* has to come to its end.                                                   *)
FairSpec == Spec /\ WF_vars(Software) /\ WF_vars(ClearStart)

-----------------------------------------------------------------------------
Words == 0..(Modulus - 1)

TypeOK ==
  /\ main_test_byte_counter \in Nat
  /\ minor_test_counter \in 0..NUMBER_OF_MINOR_TESTS
  /\ {block_size_counter, block_trail_distance_counter, length_counter} \subseteq Words
  /\ failure_detected \in 0..2 /\ counter \in 0..TIMEOUT
  /\ input \in Kinds /\ output \in Kinds
  /\ pattern \in -1..(NUMBER_OF_MINOR_TESTS - 1)
  /\ {generator, checker} \subseteq [Kinds -> [length : Words, start : BOOLEAN]]
  /\ controller \in [length : Words, block : 0..(BLOCK_MODULUS - 1), trail : 1..255,
                     start : {"clear", "set", "clearing"}]
  /\ failure_flag \in [Kinds -> BOOLEAN]

(* What doubling reaches below 2^31, half the range of an unsigned long. *)
PowersOfTwo ==
  {1, 2, 4, 8, 16, 32, 64, 128, 256, 512, 1024, 2048, 4096, 8192, 16384, 32768,
   65536, 131072, 262144, 524288, 1048576, 2097152, 4194304, 8388608, 16777216,
   33554432, 67108864, 134217728, 268435456, 536870912, 1073741824}

Doubles(min, max) ==
  {x \in min..max : \E p \in PowersOfTwo : p <= x /\ x = min * p}

Combinations ==
  TestsEnabled \X Doubles(BLOCK_SIZE_MINIMUM, BLOCK_SIZE_MAXIMUM)
    \X Doubles(BLOCK_TRAIL_DISTANCE_MINIMUM, BLOCK_TRAIL_DISTANCE_MAXIMUM)
    \X Doubles(RAM_LENGTH_MINIMUM, RAM_LENGTH_MAXIMUM)

(***************************************************************************)
(* The sweep keeps its promise: verdict 0 only after the hardware has      *)
(* carried out every combination of the settings exactly once per round,   *)
(* with the parameters it was meant to have, and nothing is tested after   *)
(* the first failure or time-out.  A late, refused, misrouted or empty     *)
(* test never passes.                                                      *)
(***************************************************************************)
Promise == INSTANCE SweepPromise WITH
  Rounds <- NUM_OF_TESTS, failure <- failure_detected, finished <- (pc = "return")

ImplementsSweep == Promise!Spec

(***************************************************************************)
(* The software never waits for a test that it has not set up: while it    *)
(* polls, the test has come to its end, or hardware that works can bring   *)
(* it there.  start_test and the two switches may refuse, and the software *)
(* does not look at their answers.                                         *)
(***************************************************************************)
NeverWaitsInVain == pc = "poll" => carriedOut # None \/ Ready

(***************************************************************************)
(* The software comes to its verdict, the hardware hanging or not.         *)
(***************************************************************************)
SweepEnds == <>(pc = "return")
=============================================================================
