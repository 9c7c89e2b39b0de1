--------------------------- MODULE MemoryTestProofs ---------------------------
(***************************************************************************)
(* The memory test software.  Every verdict of the sweep means what it     *)
(* says, for any settings that fit the registers; and between its tests    *)
(* the switches are set so that a checker is shown the words of its own    *)
(* test in order, for tests of any length and a path of any depth.         *)
(***************************************************************************)
EXTENDS TestSweep, StreamSwitch, TLAPS

-----------------------------------------------------------------------------
(* The sweep.  Where main() is, from inside out.                           *)

AfterCheckerStart ==
  {"set_timer", "set_transfer_length", "set_block_size", "set_block_trail_distance",
   "enable_start", "poll", "verdict"}
AfterGeneratorStart  == AfterCheckerStart \cup {"checker_start"}
AfterCheckerLength   == AfterGeneratorStart \cup {"generator_start"}
AfterGeneratorLength == AfterCheckerLength \cup {"checker_length"}
InTest  == AfterGeneratorLength \cup {"generator_length"}
InTrail == InTest \cup {"length"}
InBlock == InTrail \cup {"trail"}
Switched == InBlock \cup {"block"}
InMinor == Switched \cup {"mux", "demux"}
Places  == InMinor \cup {"minor", "major", "return"}

Typed ==
  /\ TypeOK
  /\ pc \in Places
  /\ pc \in InMinor => minor_test_counter \in TestsEnabled
  /\ pc = "poll" => counter < TIMEOUT

(* The first failure ends the sweep. *)
StopsAtFailure ==
  failure_detected # 0 => pc \in {"length", "trail", "block", "minor", "major", "return"}

LargestPower == 1073741824

(* No counter wraps before it passes its maximum, and the settings fit the  *)
(* registers: trails a byte, block sizes the 24 bits that the driver writes. *)
SettingsFit ==
  /\ {2 * BLOCK_SIZE_MAXIMUM, 2 * BLOCK_TRAIL_DISTANCE_MAXIMUM, 2 * RAM_LENGTH_MAXIMUM}
       \subseteq 0..(Modulus - 1)
  /\ BLOCK_SIZE_MAXIMUM - LargestPower < LargestPower
  /\ RAM_LENGTH_MAXIMUM - LargestPower < LargestPower
  /\ BLOCK_TRAIL_DISTANCE_MAXIMUM <= 255 /\ BLOCK_SIZE_MAXIMUM < BLOCK_MODULUS

Blocks  == Doubles(BLOCK_SIZE_MINIMUM, BLOCK_SIZE_MAXIMUM)
Trails  == Doubles(BLOCK_TRAIL_DISTANCE_MINIMUM, BLOCK_TRAIL_DISTANCE_MAXIMUM)
Lengths == Doubles(RAM_LENGTH_MINIMUM, RAM_LENGTH_MAXIMUM)

(* The loops go through the combinations' settings. *)
Swept ==
  /\ pc \in InBlock => block_size_counter \in Blocks
  /\ pc \in InTrail => block_trail_distance_counter \in Trails
  /\ pc \in InTest  => length_counter \in Lengths
  /\ pc = "block"  => block_size_counter \in Blocks \/ block_size_counter > BLOCK_SIZE_MAXIMUM
  /\ pc = "trail"  => \/ block_trail_distance_counter \in Trails
                      \/ block_trail_distance_counter > BLOCK_TRAIL_DISTANCE_MAXIMUM
  /\ pc = "length" => length_counter \in Lengths \/ length_counter > RAM_LENGTH_MAXIMUM

(***************************************************************************)
(* Until something fails, no core runs but those of the present test, with *)
(* the settings of the present combination, and one that is carried out is *)
(* the present one.  A verdict before the time-out has seen its end.       *)
(***************************************************************************)
Combination ==
  <<minor_test_counter, block_size_counter, block_trail_distance_counter, length_counter>>

SwitchesSet ==
  /\ pc \in InMinor \ {"mux"} => input = Kind
  /\ pc \in Switched => output = Kind
  /\ pc \in InMinor /\ Kind = "custom" => pattern = minor_test_counter

OthersQuiet ==
  \A k \in Kinds :
    /\ generator[k].start => k = Kind /\ pc \in AfterGeneratorStart
    /\ checker[k].start => k = Kind /\ pc \in AfterCheckerStart
    /\ failure_flag[k] => k = Kind /\ carriedOut # None

CoresSet ==
  carriedOut = None =>
    /\ pc \in AfterGeneratorLength => generator[Kind].length = length_counter
    /\ pc \in AfterCheckerLength => checker[Kind].length = length_counter
    /\ pc \in AfterGeneratorStart => generator[Kind].start
    /\ pc \in AfterCheckerStart => checker[Kind].start

ControllerSet ==
  /\ controller.start = "set" => pc \in {"poll", "verdict"}
  /\ pc \in {"set_block_size", "set_block_trail_distance", "enable_start"}
       \/ controller.start = "set" => controller.length = length_counter
  /\ pc \in {"set_block_trail_distance", "enable_start"} \/ controller.start = "set" =>
       controller.block = block_size_counter
  /\ pc = "enable_start" \/ controller.start = "set" =>
       controller.trail = block_trail_distance_counter
  /\ pc = "poll" /\ carriedOut = None /\ block_size_counter > 32 /\ length_counter > 32 =>
       controller.start = "set"

CarriedOut ==
  /\ carriedOut # None =>
       /\ pc \in {"poll", "verdict"} /\ carriedOut = Combination
       /\ controller.start # "set"
       /\ \A k \in Kinds : ~generator[k].start /\ ~checker[k].start
  /\ pc = "verdict" /\ counter # TIMEOUT => carriedOut # None

Setup ==
  failure_detected = 0 =>
    SwitchesSet /\ OthersQuiet /\ CoresSet /\ ControllerSet /\ CarriedOut

(***************************************************************************)
(* Each combination has passed once in each round that is over, and once   *)
(* more if the loops have gone past it.                                    *)
(***************************************************************************)
Past(c) ==
  \/ c[1] < minor_test_counter
  \/ /\ pc \in Switched /\ c[1] = minor_test_counter
     /\ \/ c[2] < block_size_counter
        \/ /\ pc \in InBlock /\ c[2] = block_size_counter
           /\ \/ c[3] < block_trail_distance_counter
              \/ /\ pc \in InTrail /\ c[3] = block_trail_distance_counter
                 /\ c[4] < length_counter

Counted(r) ==
  /\ NUM_OF_TESTS # -1 => r = main_test_byte_counter /\ r < NUM_OF_TESTS
  /\ \A c \in Combinations : Promise!Passes(c) = IF Past(c) THEN r + 1 ELSE r

EachPassed ==
  failure_detected = 0 /\ pc # "return" =>
    /\ \E r \in Nat : Counted(r)
    /\ pc = "major" => minor_test_counter = NUMBER_OF_MINOR_TESTS

-----------------------------------------------------------------------------
(* The values of a loop that doubles its counter.                          *)

LEMMA Powers ==
  /\ \A p \in PowersOfTwo : p \in Nat \ {0} /\ (p + p \in PowersOfTwo \/ p = LargestPower)
  /\ \A p, q \in PowersOfTwo : p < q => p + p <= q
  /\ 1 \in PowersOfTwo /\ LargestPower \in Nat /\ LargestPower > 255
BY SMT DEF PowersOfTwo, LargestPower

LEMMA TimesGrows ==
  ASSUME NEW m \in Nat \ {0}, NEW p \in Nat, NEW q \in Nat, p <= q
  PROVE  /\ m * p \in Nat /\ m * q \in Nat /\ m * p <= m * q /\ p <= m * p
         /\ m * (p + p) = m * p + m * p
<1>1. m * (q - p) >= 0 /\ (m - 1) * p >= 0
  OBVIOUS
<1> QED
  BY <1>1

LEMMA FirstDouble ==
  ASSUME NEW min \in Nat \ {0}, NEW max \in Nat, min <= max
  PROVE  min \in Doubles(min, max)
<1>1. 1 \in PowersOfTwo /\ 1 <= min /\ min = min * 1
  BY Powers
<1> QED
  BY <1>1 DEF Doubles

(* Doubling a value gives the next one, or leaves the range. *)
LEMMA NextDouble ==
  ASSUME NEW min \in Nat \ {0}, NEW max \in Nat, max - LargestPower < LargestPower,
         NEW x \in Doubles(min, max)
  PROVE  /\ x + x \in Doubles(min, max) \/ x + x > max
         /\ \A d \in Doubles(min, max) : d < x + x <=> d <= x
<1>1. PICK p \in PowersOfTwo : x = min * p /\ p <= x
  BY DEF Doubles
<1>2. x \in Nat /\ p \in Nat \ {0} /\ x + x = min * (p + p) /\ p <= x /\ min <= x /\ x <= max
  BY <1>1, Powers, TimesGrows DEF Doubles
<1>3. ASSUME x + x <= max PROVE x + x \in Doubles(min, max)
  <2>1. p + p \in PowersOfTwo
    BY <1>1, <1>2, <1>3, Powers
  <2>2. x + x \in min..max /\ p + p <= x + x
    BY <1>2, <1>3
  <2> QED
    BY <1>2, <2>1, <2>2 DEF Doubles
<1>4. ASSUME NEW d \in Doubles(min, max)
      PROVE  d < x + x <=> d <= x
  <2>1. PICK q \in PowersOfTwo : d = min * q
    BY DEF Doubles
  <2>2. q \in Nat \ {0} /\ d \in Nat
    BY <2>1, Powers, TimesGrows
  <2>3. CASE q <= p
    <3>1. d <= x
      BY <1>1, <1>2, <2>1, <2>2, <2>3, TimesGrows
    <3> QED
      BY <1>2, <2>2, <3>1
  <2>4. CASE p < q
    <3>1. p + p <= q /\ p + p \in Nat
      BY <1>2, <2>4, Powers
    <3>2. min * (p + p) <= min * q
      BY <2>2, <3>1, TimesGrows
    <3> QED
      BY <1>2, <2>1, <2>2, <3>2
  <2> QED
    BY <1>2, <2>2, <2>3, <2>4
<1> QED
  BY <1>2, <1>3, <1>4

-----------------------------------------------------------------------------
(* main() is where it should be and its values are in range.               *)

LEMMA Settings ==
  /\ Modulus \in Nat /\ Modulus > 32 /\ TIMEOUT \in Nat \ {0}
  /\ BLOCK_MODULUS \in Nat /\ BLOCK_MODULUS > 32
  /\ NUMBER_OF_MINOR_TESTS \in Nat /\ TestsEnabled \subseteq 0..(NUMBER_OF_MINOR_TESTS - 1)
  /\ BLOCK_SIZE_MINIMUM \in Words \ {0} /\ BLOCK_SIZE_MAXIMUM \in Words \ {0}
  /\ BLOCK_TRAIL_DISTANCE_MINIMUM \in Words \ {0}
  /\ BLOCK_TRAIL_DISTANCE_MAXIMUM \in Words \ {0}
  /\ RAM_LENGTH_MINIMUM \in Words \ {0} /\ RAM_LENGTH_MAXIMUM \in Words \ {0}
  /\ Words \subseteq Nat
BY TestSweepAssumption DEF Words

LEMMA TwiceTyped ==
  ASSUME NEW x \in Words PROVE Twice(x) \in Words
BY Settings DEF Words, Twice

LEMMA LoopsTyped ==
  ASSUME Typed, Minor \/ MuxSelect \/ DemuxSelect \/ Block \/ Trail \/ Length \/ Major
  PROVE  Typed'
<1> USE DEF Typed, TypeOK, loops, switches, cores, Places, InMinor, Switched, InBlock, InTrail,
            InTest, AfterGeneratorLength, AfterCheckerLength, AfterGeneratorStart,
            AfterCheckerStart
<1>1. Kind \in Kinds
  BY DEF Kind, Kinds
<1>0. Twice(block_size_counter) \in Words /\ Twice(block_trail_distance_counter) \in Words
  BY TwiceTyped
<1>2. CASE Minor
  BY <1>2, Settings DEF Minor
<1>3. CASE MuxSelect
  BY <1>1, <1>3 DEF MuxSelect
<1>4. CASE DemuxSelect
  BY <1>1, <1>4, Settings DEF DemuxSelect
<1>5. CASE Block
  BY <1>5, Settings DEF Block
<1>6. CASE Trail
  BY <1>0, <1>6, Settings DEF Trail
<1>7. CASE Length
  BY <1>0, <1>7 DEF Length
<1>8. CASE Major
  BY <1>8, Settings DEF Major
<1> QED
  BY <1>2, <1>3, <1>4, <1>5, <1>6, <1>7, <1>8

LEMMA TestTyped ==
  ASSUME Typed,
         \/ GeneratorLength \/ CheckerLength \/ GeneratorStart \/ CheckerStart
         \/ SetTimer \/ SetTransferLength \/ SetBlockSize \/ SetBlockTrailDistance
         \/ EnableStart \/ Poll \/ Verdict
  PROVE  Typed'
<1> USE DEF Typed, TypeOK, loops, switches, cores, Places, InMinor, Switched, InBlock, InTrail,
            InTest, AfterGeneratorLength, AfterCheckerLength, AfterGeneratorStart,
            AfterCheckerStart
<1>1. Kind \in Kinds /\ length_counter \in Words
  BY DEF Kind, Kinds
<1>2. CASE GeneratorLength
  BY <1>1, <1>2 DEF GeneratorLength, Program
<1>3. CASE CheckerLength
  BY <1>1, <1>3 DEF CheckerLength, Program
<1>4. CASE GeneratorStart
  <2>1. \A b \in BOOLEAN : [generator EXCEPT ![Kind].start = b]
                           \in [Kinds -> [length : Words, start : BOOLEAN]]
    BY <1>1
  <2>2. (generator[Kind].length # 0) \in BOOLEAN
    OBVIOUS
  <2>3. generator' \in [Kinds -> [length : Words, start : BOOLEAN]]
    BY <1>4, <2>1, <2>2 DEF GeneratorStart
  <2> QED
    BY <1>4, <2>3 DEF GeneratorStart, Program
<1>5. CASE CheckerStart
  <2>1. \A b \in BOOLEAN : [checker EXCEPT ![Kind].start = b]
                           \in [Kinds -> [length : Words, start : BOOLEAN]]
    BY <1>1
  <2>2. (checker[Kind].length # 0) \in BOOLEAN
    OBVIOUS
  <2>3. checker' \in [Kinds -> [length : Words, start : BOOLEAN]]
    BY <1>5, <2>1, <2>2 DEF CheckerStart
  <2> QED
    BY <1>5, <2>3 DEF CheckerStart, Program
<1>6. CASE SetTimer
  BY <1>6, Settings DEF SetTimer, StartTest
<1>7. CASE SetTransferLength
  <2>1. 32 \in Words
    BY Settings DEF Words
  <2> QED
    BY <1>1, <1>7, <2>1, Settings DEF SetTransferLength, StartTest
<1>8. CASE SetBlockSize
  <2>1. \A x \in Nat : x % BLOCK_MODULUS \in 0..(BLOCK_MODULUS - 1)
    BY Settings
  <2>2. 32 % BLOCK_MODULUS \in 0..(BLOCK_MODULUS - 1)
        /\ block_size_counter % BLOCK_MODULUS \in 0..(BLOCK_MODULUS - 1)
    BY <2>1, Settings
  <2> QED
    BY <1>8, <2>2, Settings DEF SetBlockSize, StartTest
<1>9. CASE SetBlockTrailDistance
  <2>1. \A x \in Nat : x % 256 \in 0..255
    OBVIOUS
  <2>2. block_trail_distance_counter % 256 \in 0..255
    BY <2>1, Settings
  <2> QED
    BY <1>9, <2>2, Settings DEF SetBlockTrailDistance, StartTest
<1>10. CASE EnableStart
  BY <1>10, Settings DEF EnableStart, StartTest
<1>11. CASE Poll
  BY <1>11, Settings DEF Poll
<1>12. CASE Verdict
  <2>1. Twice(length_counter) \in Words
    BY <1>1, TwiceTyped
  <2> QED
    BY <1>12, <2>1 DEF Verdict
<1> QED
  BY <1>2, <1>3, <1>4, <1>5, <1>6, <1>7, <1>8, <1>9, <1>10, <1>11, <1>12

(***************************************************************************)
(* The software and the cores keep to their ranges, whatever the settings. *)
(***************************************************************************)
THEOREM SweepTyped == Spec => []Typed
<1>1. Init => Typed
  <2> SUFFICES ASSUME Init PROVE Typed
    OBVIOUS
  <2>1. /\ 0 \in Words /\ 32 \in Words /\ 32 \in 0..(BLOCK_MODULUS - 1)
        /\ "custom" \in Kinds
    BY Settings DEF Words, Kinds
  <2>2. Stopped \in [length : Words, start : BOOLEAN]
    BY <2>1 DEF Stopped
  <2>3. pc \in Places /\ pc \notin InMinor /\ pc # "poll"
    BY DEF Init, Places, InMinor, Switched, InBlock, InTrail, InTest, AfterGeneratorLength,
           AfterCheckerLength, AfterGeneratorStart, AfterCheckerStart
  <2> QED
    BY <2>1, <2>2, <2>3, Settings DEF Init, Typed, TypeOK
<1>2. Typed /\ [Next]_vars => Typed'
  <2> SUFFICES ASSUME Typed, [Next]_vars PROVE Typed'
    OBVIOUS
  <2>1. CASE Software
    BY <2>1, LoopsTyped, TestTyped DEF Software
  <2>2. CASE Deliver
    <3>1. /\ UNCHANGED <<pc, loops, failure_detected, counter, switches>>
          /\ failure_flag' \in [Kinds -> BOOLEAN]
      BY <2>2 DEF Deliver, Typed, TypeOK
    <3>2. Stopped \in [length : Words, start : BOOLEAN]
      BY Settings DEF Stopped, Words
    <3>3. {generator', checker'} \subseteq [Kinds -> [length : Words, start : BOOLEAN]]
      BY <2>2, <3>2 DEF Deliver, Typed, TypeOK
    <3>4. controller' \in [length : Words, block : 0..(BLOCK_MODULUS - 1), trail : 1..255,
                           start : {"clear", "set", "clearing"}]
      BY <2>2 DEF Deliver, Typed, TypeOK
    <3> QED
      BY <3>1, <3>3, <3>4 DEF Typed, TypeOK, loops, switches
  <2>3. CASE ClearStart
    BY <2>3 DEF ClearStart, Typed, TypeOK, loops, switches
  <2>4. CASE UNCHANGED vars
    BY <2>4 DEF vars, Typed, TypeOK, loops, switches, cores
  <2> QED
    BY <2>1, <2>2, <2>3, <2>4 DEF Next
<1> QED
  BY <1>1, <1>2, PTL DEF Spec

(* All registers of the test software keep their width, whatever the settings. *)
THEOREM SweepTypeCorrect == Spec => []TypeOK
<1>1. Typed => TypeOK
  BY DEF Typed
<1> QED
  BY <1>1, SweepTyped, PTL

-----------------------------------------------------------------------------
(* The loops go through the values that doubling reaches.                  *)

LoopOver(D, min, max) ==
  /\ min \in D \/ min > max
  /\ \A x \in D :
       /\ x \in Nat \ {0} /\ min <= x /\ x <= max
       /\ Twice(x) \in D \/ Twice(x) > max
       /\ \A d \in D : d < Twice(x) <=> d <= x

LEMMA Loop ==
  ASSUME NEW min \in Words \ {0}, NEW max \in Words,
         max + max < Modulus, max - LargestPower < LargestPower
  PROVE  LoopOver(Doubles(min, max), min, max)
<1>1. min \in Nat \ {0} /\ max \in Nat /\ Modulus \in Nat
  BY Settings
<1>2. min \in Doubles(min, max) \/ min > max
  BY <1>1, FirstDouble
<1>3. ASSUME NEW x \in Doubles(min, max)
      PROVE  /\ x \in Nat \ {0} /\ min <= x /\ x <= max
             /\ Twice(x) \in Doubles(min, max) \/ Twice(x) > max
             /\ \A d \in Doubles(min, max) : d < Twice(x) <=> d <= x
  <2>1. x \in Nat \ {0} /\ min <= x /\ x <= max
    BY <1>1 DEF Doubles
  <2>2. 2 * x = x + x /\ 2 * x \in 0..(Modulus - 1)
    BY <1>1, <2>1
  <2>3. Twice(x) = x + x
    BY <1>1, <2>2 DEF Twice
  <2> QED
    BY <1>1, <2>1, <2>3, NextDouble
<1> QED
  BY <1>2, <1>3 DEF LoopOver

LEMMA Loops ==
  ASSUME SettingsFit
  PROVE  /\ LoopOver(Blocks, BLOCK_SIZE_MINIMUM, BLOCK_SIZE_MAXIMUM)
         /\ LoopOver(Trails, BLOCK_TRAIL_DISTANCE_MINIMUM, BLOCK_TRAIL_DISTANCE_MAXIMUM)
         /\ LoopOver(Lengths, RAM_LENGTH_MINIMUM, RAM_LENGTH_MAXIMUM)
         /\ \A t \in Trails : t % 256 = t /\ t # 0
         /\ \A b \in Blocks : b % BLOCK_MODULUS = b
<1>1. /\ BLOCK_SIZE_MAXIMUM + BLOCK_SIZE_MAXIMUM < Modulus
      /\ BLOCK_TRAIL_DISTANCE_MAXIMUM + BLOCK_TRAIL_DISTANCE_MAXIMUM < Modulus
      /\ RAM_LENGTH_MAXIMUM + RAM_LENGTH_MAXIMUM < Modulus
      /\ BLOCK_TRAIL_DISTANCE_MAXIMUM - LargestPower < LargestPower
  BY Settings, Powers DEF SettingsFit
<1>2. /\ LoopOver(Blocks, BLOCK_SIZE_MINIMUM, BLOCK_SIZE_MAXIMUM)
      /\ LoopOver(Trails, BLOCK_TRAIL_DISTANCE_MINIMUM, BLOCK_TRAIL_DISTANCE_MAXIMUM)
      /\ LoopOver(Lengths, RAM_LENGTH_MINIMUM, RAM_LENGTH_MAXIMUM)
  BY <1>1, Settings, Loop DEF SettingsFit, Blocks, Trails, Lengths
<1>3. \A t \in Trails : t % 256 = t /\ t # 0
  <2> SUFFICES ASSUME NEW t \in Trails PROVE t % 256 = t /\ t # 0
    OBVIOUS
  <2>1. t \in Nat \ {0} /\ t <= 255
    BY <1>2, Settings DEF LoopOver, SettingsFit
  <2> QED
    BY <2>1
<1>4. \A b \in Blocks : b % BLOCK_MODULUS = b
  <2> SUFFICES ASSUME NEW b \in Blocks PROVE b % BLOCK_MODULUS = b
    OBVIOUS
  <2>1. b \in Nat /\ b < BLOCK_MODULUS /\ BLOCK_MODULUS \in Nat
    BY <1>2, Settings DEF LoopOver, SettingsFit
  <2> QED
    BY <2>1
<1> QED
  BY <1>2, <1>3, <1>4

LEMMA SweptKept ==
  ASSUME SettingsFit, Typed, Swept, [Next]_vars
  PROVE  Swept'
<1> USE DEF Swept, loops, switches, cores, InBlock, InTrail, InTest, AfterGeneratorLength,
            AfterCheckerLength, AfterGeneratorStart, AfterCheckerStart
<1>1. /\ LoopOver(Blocks, BLOCK_SIZE_MINIMUM, BLOCK_SIZE_MAXIMUM)
      /\ LoopOver(Trails, BLOCK_TRAIL_DISTANCE_MINIMUM, BLOCK_TRAIL_DISTANCE_MAXIMUM)
      /\ LoopOver(Lengths, RAM_LENGTH_MINIMUM, RAM_LENGTH_MAXIMUM)
  BY Loops
<1>2. CASE Minor \/ MuxSelect \/ Major
  BY <1>2 DEF Minor, MuxSelect, Major
<1>3. CASE DemuxSelect
  BY <1>1, <1>3 DEF DemuxSelect, LoopOver
<1>a. {block_size_counter, block_trail_distance_counter, length_counter} \subseteq Nat
  BY Settings DEF Typed, TypeOK
<1>b. {BLOCK_SIZE_MAXIMUM, BLOCK_TRAIL_DISTANCE_MAXIMUM, RAM_LENGTH_MAXIMUM} \subseteq Nat
  BY Settings
<1>4. CASE Block
  <2>1. pc = "block" /\ UNCHANGED block_size_counter
    BY <1>4 DEF Block
  <2>2. CASE block_size_counter <= BLOCK_SIZE_MAXIMUM /\ failure_detected = 0
    <3>1. block_size_counter \in Blocks
      BY <1>a, <1>b, <2>1, <2>2
    <3>2. pc' = "trail" /\ block_trail_distance_counter' = BLOCK_TRAIL_DISTANCE_MINIMUM
      BY <1>4, <2>2 DEF Block
    <3> QED
      BY <1>1, <2>1, <3>1, <3>2 DEF LoopOver
  <2>3. CASE ~(block_size_counter <= BLOCK_SIZE_MAXIMUM /\ failure_detected = 0)
    BY <1>4, <2>3 DEF Block
  <2> QED
    BY <2>2, <2>3
<1>5. CASE Trail
  <2>1. pc = "trail" /\ UNCHANGED block_trail_distance_counter /\ block_size_counter \in Blocks
    BY <1>5 DEF Trail
  <2>2. CASE /\ block_trail_distance_counter <= BLOCK_TRAIL_DISTANCE_MAXIMUM
             /\ failure_detected = 0
    <3>1. block_trail_distance_counter \in Trails
      BY <1>a, <1>b, <2>1, <2>2
    <3>2. pc' = "length" /\ length_counter' = RAM_LENGTH_MINIMUM /\ UNCHANGED block_size_counter
      BY <1>5, <2>2 DEF Trail
    <3> QED
      BY <1>1, <2>1, <3>1, <3>2 DEF LoopOver
  <2>3. CASE ~(/\ block_trail_distance_counter <= BLOCK_TRAIL_DISTANCE_MAXIMUM
               /\ failure_detected = 0)
    <3>1. pc' = "block" /\ block_size_counter' = Twice(block_size_counter)
      BY <1>5, <2>3 DEF Trail
    <3> QED
      BY <1>1, <2>1, <3>1 DEF LoopOver
  <2> QED
    BY <2>2, <2>3
<1>6. CASE Length
  <2>1. /\ pc = "length" /\ UNCHANGED <<block_size_counter, length_counter>>
        /\ block_size_counter \in Blocks /\ block_trail_distance_counter \in Trails
    BY <1>6 DEF Length
  <2>2. CASE length_counter <= RAM_LENGTH_MAXIMUM /\ failure_detected = 0
    <3>1. length_counter \in Lengths
      BY <1>a, <1>b, <2>1, <2>2
    <3>2. pc' = "generator_length" /\ UNCHANGED block_trail_distance_counter
      BY <1>6, <2>2 DEF Length
    <3> QED
      BY <2>1, <3>1, <3>2
  <2>3. CASE ~(length_counter <= RAM_LENGTH_MAXIMUM /\ failure_detected = 0)
    <3>1. pc' = "trail" /\ block_trail_distance_counter' = Twice(block_trail_distance_counter)
      BY <1>6, <2>3 DEF Length
    <3> QED
      BY <1>1, <2>1, <3>1 DEF LoopOver
  <2> QED
    BY <2>2, <2>3
<1>7. CASE GeneratorLength \/ CheckerLength \/ GeneratorStart \/ CheckerStart
  BY <1>7 DEF GeneratorLength, CheckerLength, GeneratorStart, CheckerStart, Program
<1>8. CASE SetTimer \/ SetTransferLength \/ SetBlockSize \/ SetBlockTrailDistance \/ EnableStart
  BY <1>8 DEF SetTimer, SetTransferLength, SetBlockSize, SetBlockTrailDistance, EnableStart,
              StartTest
<1>9. CASE Poll
  BY <1>9 DEF Poll
<1>10. CASE Verdict
  BY <1>1, <1>10 DEF Verdict, LoopOver
<1>11. CASE Deliver \/ ClearStart \/ UNCHANGED vars
  BY <1>11 DEF Deliver, ClearStart, vars
<1> QED
  BY <1>2, <1>3, <1>4, <1>5, <1>6, <1>7, <1>8, <1>9, <1>10, <1>11 DEF Next, Software

LEMMA StopsKept ==
  ASSUME StopsAtFailure, [Next]_vars
  PROVE  StopsAtFailure'
<1> USE DEF StopsAtFailure, loops
<1>1. CASE Minor \/ MuxSelect \/ DemuxSelect \/ Block \/ Trail \/ Length \/ Major
  BY <1>1 DEF Minor, MuxSelect, DemuxSelect, Block, Trail, Length, Major
<1>2. CASE GeneratorLength \/ CheckerLength \/ GeneratorStart \/ CheckerStart
  BY <1>2 DEF GeneratorLength, CheckerLength, GeneratorStart, CheckerStart, Program
<1>3. CASE SetTimer \/ SetTransferLength \/ SetBlockSize \/ SetBlockTrailDistance \/ EnableStart
  BY <1>3 DEF SetTimer, SetTransferLength, SetBlockSize, SetBlockTrailDistance, EnableStart,
              StartTest
<1>4. CASE Poll \/ Verdict
  BY <1>4 DEF Poll, Verdict
<1>5. CASE Deliver \/ ClearStart \/ UNCHANGED vars
  BY <1>5 DEF Deliver, ClearStart, vars
<1> QED
  BY <1>1, <1>2, <1>3, <1>4, <1>5 DEF Next, Software

-----------------------------------------------------------------------------
(* The hardware does what the software has set up.                         *)

LEMMA Machine ==
  ASSUME Typed
  PROVE  /\ Kind \in Kinds /\ input \in Kinds /\ output \in Kinds
         /\ generator \in [Kinds -> [length : Words, start : BOOLEAN]]
         /\ checker \in [Kinds -> [length : Words, start : BOOLEAN]]
         /\ controller \in [length : Words, block : 0..(BLOCK_MODULUS - 1), trail : 1..255,
                            start : {"clear", "set", "clearing"}]
         /\ failure_flag \in [Kinds -> BOOLEAN]
BY DEF Typed, TypeOK, Kind, Kinds

(* Between two tests nothing runs. *)
Idle ==
  /\ carriedOut = None /\ controller.start # "set"
  /\ \A k \in Kinds : ~generator[k].start /\ ~checker[k].start /\ ~failure_flag[k]

LEMMA IdleBetween ==
  ASSUME Setup, failure_detected = 0, pc \notin AfterGeneratorStart
  PROVE  Idle
BY DEF Setup, SwitchesSet, OthersQuiet, ControllerSet, CarriedOut, Idle, AfterGeneratorStart,
       AfterCheckerStart

LEMMA IdleSuffices ==
  ASSUME Idle', SwitchesSet', pc' \notin AfterGeneratorLength
  PROVE  Setup'
BY DEF Setup, OthersQuiet, CoresSet, ControllerSet, CarriedOut, Idle, AfterGeneratorLength,
       AfterCheckerLength, AfterGeneratorStart, AfterCheckerStart

LEMMA SetupKeptByLoops ==
  ASSUME Typed, Setup, failure_detected = 0,
         Minor \/ MuxSelect \/ DemuxSelect \/ Block \/ Trail \/ Length \/ Major
  PROVE  Setup'
<1> USE DEF AfterGeneratorLength, AfterCheckerLength, AfterGeneratorStart, AfterCheckerStart
<1>1. /\ pc \notin AfterGeneratorStart /\ pc' \notin AfterGeneratorLength
      /\ UNCHANGED <<generator, checker, failure_flag, controller, carriedOut>>
  BY DEF Minor, MuxSelect, DemuxSelect, Block, Trail, Length, Major, cores
<1>2. Idle /\ Idle'
  BY <1>1, IdleBetween DEF Idle
<1>3. SwitchesSet
  BY DEF Setup
<1>4. SwitchesSet'
  <2> USE <1>2, <1>3, Machine
      DEF SwitchesSet, Kind, InMinor, Switched, InBlock, InTrail, InTest, switches, loops
  <2>1. CASE Minor
    BY <2>1 DEF Minor
  <2>2. CASE MuxSelect
    BY <2>2 DEF MuxSelect, Idle
  <2>3. CASE DemuxSelect
    BY <2>3 DEF DemuxSelect, Idle
  <2>4. CASE Block
    BY <2>4 DEF Block
  <2>5. CASE Trail
    BY <2>5 DEF Trail
  <2>6. CASE Length
    BY <2>6 DEF Length
  <2>7. CASE Major
    BY <2>7 DEF Major
  <2> QED
    BY <2>1, <2>2, <2>3, <2>4, <2>5, <2>6, <2>7
<1> QED
  BY <1>1, <1>2, <1>4, IdleSuffices

LEMMA SetupKeptByCores ==
  ASSUME SettingsFit, Typed, Swept, Setup, failure_detected = 0,
         GeneratorLength \/ CheckerLength \/ GeneratorStart \/ CheckerStart
  PROVE  Setup'
<1> USE DEF AfterGeneratorLength, AfterCheckerLength, AfterGeneratorStart, AfterCheckerStart
<1>1. SwitchesSet /\ OthersQuiet /\ CoresSet /\ ControllerSet /\ CarriedOut
  BY DEF Setup
<1>2. /\ UNCHANGED <<loops, switches, controller, failure_flag, carriedOut>>
      /\ pc \in {"generator_length", "checker_length", "generator_start", "checker_start"}
      /\ pc' \in {"checker_length", "generator_start", "checker_start", "set_timer"}
  BY DEF GeneratorLength, CheckerLength, GeneratorStart, CheckerStart, Program
<1>3. Kind' = Kind /\ length_counter' = length_counter
  BY <1>2 DEF Kind, loops
<1>4. carriedOut = None /\ carriedOut' = None /\ controller.start # "set"
  BY <1>1, <1>2 DEF CarriedOut, ControllerSet
<1>5. length_counter # 0
  BY <1>2, Loops DEF Swept, InTest, LoopOver
<1>6. SwitchesSet'
  BY <1>1, <1>2, <1>3
     DEF SwitchesSet, InMinor, Switched, InBlock, InTrail, InTest, switches, loops
<1>7. OthersQuiet'
  <2> USE <1>1, <1>3, <1>4, Machine DEF OthersQuiet
  <2>1. CASE GeneratorLength
    BY <1>2, <2>1 DEF GeneratorLength, Program
  <2>2. CASE CheckerLength
    BY <1>2, <2>2 DEF CheckerLength, Program
  <2>3. CASE GeneratorStart
    BY <1>2, <2>3 DEF GeneratorStart, Program
  <2>4. CASE CheckerStart
    BY <1>2, <2>4 DEF CheckerStart, Program
  <2> QED
    BY <2>1, <2>2, <2>3, <2>4
<1>8. CoresSet'
  <2> USE <1>1, <1>3, <1>4, Machine DEF CoresSet
  <2>1. CASE GeneratorLength
    BY <2>1 DEF GeneratorLength, Program
  <2>2. CASE CheckerLength
    BY <2>2 DEF CheckerLength, Program
  <2>3. CASE GeneratorStart
    BY <1>5, <2>3 DEF GeneratorStart, Program
  <2>4. CASE CheckerStart
    BY <1>5, <2>4 DEF CheckerStart, Program
  <2> QED
    BY <2>1, <2>2, <2>3, <2>4
<1>9. ControllerSet' /\ CarriedOut'
  BY <1>2, <1>4 DEF ControllerSet, CarriedOut
<1> QED
  BY <1>6, <1>7, <1>8, <1>9 DEF Setup

LEMMA SetupKeptByStartTest ==
  ASSUME SettingsFit, Typed, Swept, Setup, failure_detected = 0,
         SetTimer \/ SetTransferLength \/ SetBlockSize \/ SetBlockTrailDistance \/ EnableStart
  PROVE  Setup'
<1> USE DEF AfterGeneratorLength, AfterCheckerLength, AfterGeneratorStart, AfterCheckerStart
<1>1. SwitchesSet /\ OthersQuiet /\ CoresSet /\ ControllerSet /\ CarriedOut
  BY DEF Setup
<1>2. /\ UNCHANGED <<loops, switches, generator, checker, failure_flag, carriedOut>>
      /\ pc \in {"set_timer", "set_transfer_length", "set_block_size",
                 "set_block_trail_distance", "enable_start"}
      /\ pc' \in {"set_transfer_length", "set_block_size", "set_block_trail_distance",
                  "enable_start", "poll"}
      /\ controller.start = "clear"
  BY DEF SetTimer, SetTransferLength, SetBlockSize, SetBlockTrailDistance, EnableStart, StartTest
<1>3. Kind' = Kind /\ UNCHANGED <<minor_test_counter, block_size_counter,
                                  block_trail_distance_counter, length_counter>>
  BY <1>2 DEF Kind, loops
<1>4. carriedOut = None /\ carriedOut' = None
  BY <1>1, <1>2 DEF CarriedOut
<1>5. /\ block_trail_distance_counter % 256 = block_trail_distance_counter
      /\ block_trail_distance_counter # 0
  BY <1>2, Loops DEF Swept, InTrail, InTest
<1>10. block_size_counter % BLOCK_MODULUS = block_size_counter
  <2>1. block_size_counter \in Blocks
    BY <1>2 DEF Swept, InBlock, InTrail, InTest
  <2> QED
    BY <2>1, Loops
<1>6. SwitchesSet'
  BY <1>1, <1>2, <1>3
     DEF SwitchesSet, InMinor, Switched, InBlock, InTrail, InTest, switches
<1>7. OthersQuiet' /\ CoresSet'
  BY <1>1, <1>2, <1>3, <1>4 DEF OthersQuiet, CoresSet
<1>8. ControllerSet'
  <2> USE <1>1, <1>3, <1>4, Machine DEF ControllerSet
  <2>0. length_counter \in Nat /\ block_size_counter \in Nat
    BY Settings DEF Typed, TypeOK
  <2>1. CASE SetTimer
    BY <1>2, <2>1 DEF SetTimer, StartTest
  <2>2. CASE SetTransferLength
    BY <1>2, <2>0, <2>2 DEF SetTransferLength, StartTest
  <2>3. CASE SetBlockSize
    BY <1>2, <1>10, <2>0, <2>3 DEF SetBlockSize, StartTest
  <2>4. CASE SetBlockTrailDistance
    BY <1>2, <1>5, <2>4 DEF SetBlockTrailDistance, StartTest
  <2>5. CASE EnableStart
    BY <1>2, <2>5 DEF EnableStart, StartTest
  <2> QED
    BY <2>1, <2>2, <2>3, <2>4, <2>5
<1>9. CarriedOut'
  BY <1>2, <1>4 DEF CarriedOut
<1> QED
  BY <1>6, <1>7, <1>8, <1>9 DEF Setup

LEMMA SetupKeptByPoll ==
  ASSUME Typed, Setup, failure_detected = 0, Poll
  PROVE  Setup'
<1>1. SwitchesSet /\ OthersQuiet /\ CoresSet /\ ControllerSet /\ CarriedOut
  BY DEF Setup
<1>2. /\ UNCHANGED <<loops, switches, cores, carriedOut>> /\ counter' = counter + 1
      /\ pc = "poll" /\ pc' \in {"poll", "verdict"}
      /\ pc' = "verdict" => counter' = TIMEOUT \/ ~checker[Kind].start
  BY DEF Poll
<1>3. Kind' = Kind /\ Combination' = Combination
  BY <1>2 DEF Kind, Combination, loops
<1>4. pc' = "verdict" /\ counter' # TIMEOUT => carriedOut # None
  BY <1>1, <1>2 DEF CoresSet, AfterCheckerStart
<1> QED
  BY <1>1, <1>2, <1>3, <1>4
     DEF Setup, SwitchesSet, OthersQuiet, CoresSet, ControllerSet, CarriedOut, loops, switches,
         cores, InMinor, Switched, InBlock, InTrail, InTest, AfterGeneratorLength,
         AfterCheckerLength, AfterGeneratorStart, AfterCheckerStart

(* A verdict of 0 is given when the test is carried out, and has set no flag. *)
LEMMA GoodVerdict ==
  ASSUME Typed, Setup, failure_detected = 0, Verdict, failure_detected' = 0
  PROVE  /\ carriedOut = Combination /\ controller.start # "set"
         /\ \A k \in Kinds : ~generator[k].start /\ ~checker[k].start /\ ~failure_flag[k]
<1>1. /\ pc = "verdict" /\ counter # TIMEOUT /\ ~failure_flag["custom"]
      /\ Kind = "prbs" => ~failure_flag["prbs"]
  BY DEF Verdict
<1>2. OthersQuiet /\ CarriedOut
  BY DEF Setup
<1>3. \A k \in Kinds : ~failure_flag[k]
  BY <1>1, <1>2 DEF OthersQuiet, Kinds
<1> QED
  BY <1>1, <1>2, <1>3 DEF CarriedOut

LEMMA SetupKeptByVerdict ==
  ASSUME Typed, Setup, failure_detected = 0, Verdict, failure_detected' = 0
  PROVE  Setup'
<1>1. SwitchesSet
  BY DEF Setup
<1>2. Idle'
  BY GoodVerdict DEF Verdict, cores, Idle
<1>3. SwitchesSet'
  BY <1>1 DEF Verdict, SwitchesSet, Kind, switches, InMinor, Switched, InBlock, InTrail, InTest,
              AfterGeneratorLength, AfterCheckerLength, AfterGeneratorStart, AfterCheckerStart
<1>4. pc' \notin AfterGeneratorLength
  BY DEF Verdict, AfterGeneratorLength, AfterCheckerLength, AfterGeneratorStart,
         AfterCheckerStart
<1> QED
  BY <1>2, <1>3, <1>4, IdleSuffices

LEMMA SetupKeptByHardware ==
  ASSUME Typed, Setup, failure_detected = 0, Deliver \/ ClearStart
  PROVE  Setup'
<1> USE DEF AfterGeneratorLength, AfterCheckerLength, AfterGeneratorStart, AfterCheckerStart
<1>1. SwitchesSet /\ OthersQuiet /\ CoresSet /\ ControllerSet /\ CarriedOut
  BY DEF Setup
<1>2. /\ UNCHANGED <<pc, counter, switches>> /\ Combination' = Combination /\ Kind' = Kind
      /\ UNCHANGED <<minor_test_counter, block_size_counter, block_trail_distance_counter,
                     length_counter>>
  BY DEF Deliver, ClearStart, Combination, Kind, loops
<1>3. SwitchesSet'
  BY <1>1, <1>2 DEF SwitchesSet, switches
<1>4. CASE Deliver
  <2>1. pc \in {"poll", "verdict"} /\ carriedOut = None /\ input = Kind /\ output = Kind
    BY <1>1, <1>4 DEF Deliver, Ready, ControllerSet, CarriedOut, SwitchesSet, InMinor, Switched,
                      InBlock, InTrail, InTest
  <2>2. carriedOut' = Combination /\ carriedOut' # None
    BY <1>1, <1>4, <2>1, Machine
       DEF Deliver, Ready, ControllerSet, SwitchesSet, Combination, Kind, Kinds, InMinor,
           Switched, InBlock, InTrail, InTest, None
  <2>3. /\ \A k \in Kinds : ~generator'[k].start /\ ~checker'[k].start
        /\ controller'.start = "clearing"
    BY <1>1, <1>4, <2>1, Machine DEF Deliver, OthersQuiet, Stopped
  <2>4. \A k \in Kinds : failure_flag'[k] => k = Kind
    <3>1. PICK bad \in BOOLEAN : failure_flag' = [failure_flag EXCEPT ![output] = @ \/ bad]
      BY <1>4 DEF Deliver
    <3> QED
      BY <1>1, <2>1, <3>1, Machine DEF OthersQuiet
  <2> QED
    BY <1>2, <1>3, <2>1, <2>2, <2>3, <2>4
       DEF Setup, OthersQuiet, CoresSet, ControllerSet, CarriedOut
<1>5. CASE ClearStart
  <2>1. /\ UNCHANGED <<generator, checker, failure_flag, carriedOut>>
        /\ controller.start = "clearing" /\ controller'.start = "clear"
        /\ controller'.length = controller.length /\ controller'.block = controller.block
        /\ controller'.trail = controller.trail
    BY <1>5, Machine DEF ClearStart
  <2> QED
    BY <1>1, <1>2, <1>3, <2>1 DEF Setup, OthersQuiet, CoresSet, ControllerSet, CarriedOut
<1> QED
  BY <1>4, <1>5

LEMMA SetupKept ==
  ASSUME SettingsFit, Typed, StopsAtFailure, Swept, Setup, [Next]_vars
  PROVE  Setup'
<1>1. CASE UNCHANGED vars
  BY <1>1 DEF vars, loops, switches, cores, Setup, SwitchesSet, OthersQuiet, CoresSet,
              ControllerSet, CarriedOut, Combination, Kind
<1>2. CASE Next /\ failure_detected' # 0
  BY <1>2 DEF Setup
<1>3. CASE Next /\ failure_detected' = 0 /\ failure_detected # 0
  <2>1. Verdict
    BY <1>3 DEF Next, Software, Minor, MuxSelect, DemuxSelect, Block, Trail, Length, Major,
                GeneratorLength, CheckerLength, GeneratorStart, CheckerStart, Program, SetTimer,
                SetTransferLength, SetBlockSize, SetBlockTrailDistance, EnableStart, StartTest,
                Poll, Deliver, ClearStart
  <2> QED
    BY <1>3, <2>1 DEF Verdict, StopsAtFailure
<1>4. CASE Next /\ failure_detected' = 0 /\ failure_detected = 0
  BY <1>4, SetupKeptByLoops, SetupKeptByCores, SetupKeptByStartTest, SetupKeptByPoll,
     SetupKeptByVerdict, SetupKeptByHardware DEF Next, Software
<1> QED
  BY <1>1, <1>2, <1>3, <1>4

SweepInv == Typed /\ StopsAtFailure /\ Swept /\ Setup

(***************************************************************************)
(* A test that runs is the one that the loops have come to, with its       *)
(* settings in the cores and both switches on its side, as long as nothing *)
(* has failed: for all settings that fit the registers.                    *)
(***************************************************************************)
THEOREM OnlyTheTestSetUp ==
  ASSUME SettingsFit PROVE Spec => []SweepInv
<1>1. Init => StopsAtFailure /\ Swept /\ Setup
  <2> SUFFICES ASSUME Init PROVE StopsAtFailure /\ Swept /\ Setup
    OBVIOUS
  <2>1. /\ pc = "minor" /\ carriedOut = None /\ controller.start = "clear"
        /\ \A k \in Kinds : ~generator[k].start /\ ~checker[k].start /\ ~failure_flag[k]
    BY DEF Init, Stopped
  <2> QED
    BY <2>1 DEF Init, StopsAtFailure, Swept, Setup, SwitchesSet, OthersQuiet, CoresSet,
                ControllerSet, CarriedOut, InMinor, Switched, InBlock, InTrail, InTest,
                AfterGeneratorLength, AfterCheckerLength, AfterGeneratorStart, AfterCheckerStart
<1>2. /\ StopsAtFailure /\ Swept /\ Setup /\ Typed /\ [Next]_vars
      => (StopsAtFailure /\ Swept /\ Setup)'
  BY StopsKept, SweptKept, SetupKept
<1>3. Typed /\ StopsAtFailure /\ Swept /\ Setup <=> SweepInv
  BY DEF SweepInv
<1> QED
  BY <1>1, <1>2, <1>3, SweepTyped, PTL DEF Spec

(***************************************************************************)
(* The software never polls for a test that cannot end.  start_test leaves *)
(* without setting the start bit when a value is too small for the driver, *)
(* and main() does not look: the settings must stay above those values.    *)
(***************************************************************************)
THEOREM NeverWaits ==
  ASSUME SettingsFit, BLOCK_SIZE_MINIMUM > 32, RAM_LENGTH_MINIMUM > 32
  PROVE  Spec => []NeverWaitsInVain
<1>1. SweepInv => NeverWaitsInVain
  <2> SUFFICES ASSUME SweepInv, pc = "poll", carriedOut = None PROVE Ready
    BY DEF NeverWaitsInVain
  <2>1. SwitchesSet /\ CoresSet /\ ControllerSet /\ block_size_counter \in Blocks
          /\ length_counter \in Lengths
    BY DEF SweepInv, StopsAtFailure, Setup, Swept, InBlock, InTrail, InTest,
           AfterGeneratorLength, AfterCheckerLength, AfterGeneratorStart, AfterCheckerStart
  <2>2. block_size_counter > 32 /\ length_counter > 32 /\ length_counter \in Nat
    BY <2>1, Loops, Settings DEF LoopOver
  <2>3. /\ controller.start = "set" /\ controller.length = length_counter
        /\ controller.block = block_size_counter /\ block_size_counter # 0
        /\ input = Kind /\ output = Kind
        /\ generator[Kind].start /\ generator[Kind].length = length_counter
        /\ checker[Kind].start /\ checker[Kind].length = length_counter
    BY <2>1, <2>2 DEF SwitchesSet, CoresSet, ControllerSet, InMinor, Switched, InBlock, InTrail,
                      InTest, AfterGeneratorLength, AfterCheckerLength, AfterGeneratorStart,
                      AfterCheckerStart
  <2> QED
    BY <2>2, <2>3 DEF Ready
<1> QED
  BY <1>1, OnlyTheTestSetUp, PTL

-----------------------------------------------------------------------------
(* Each combination passes once in a round.                                *)

LEMMA Member ==
  ASSUME SettingsFit, NEW c \in Combinations
  PROVE  /\ c[1] \in TestsEnabled /\ c[2] \in Blocks /\ c[3] \in Trails /\ c[4] \in Lengths
         /\ {c[1], c[2], c[3], c[4]} \subseteq Nat
         /\ c = <<c[1], c[2], c[3], c[4]>>
<1>1. c \in TestsEnabled \X Blocks \X Trails \X Lengths
  BY DEF Combinations, Blocks, Trails, Lengths
<1>2. /\ c[1] \in TestsEnabled /\ c[2] \in Blocks /\ c[3] \in Trails /\ c[4] \in Lengths
      /\ c = <<c[1], c[2], c[3], c[4]>>
  BY <1>1
<1> QED
  BY <1>2, Loops, Settings DEF LoopOver

LEMMA OneMore ==
  ASSUME NEW c, passed' = passed (+) SetToBag({c}),
         NEW d, Promise!Passes(d) \in Nat
  PROVE  Promise!Passes(d)' = IF d = c THEN Promise!Passes(d) + 1 ELSE Promise!Passes(d)
<1> DEFINE one == [e \in {c} |-> 1]
<1>1. /\ DOMAIN one = {c} /\ one[c] = 1
      /\ passed' = [e \in (DOMAIN passed) \cup (DOMAIN one) |->
                     (IF e \in DOMAIN passed THEN passed[e] ELSE 0)
                       + (IF e \in DOMAIN one THEN one[e] ELSE 0)]
  BY DEF (+), SetToBag
<1> HIDE DEF one
<1>2. /\ Promise!Passes(d) = IF d \in DOMAIN passed THEN passed[d] ELSE 0
      /\ Promise!Passes(d)' = IF d \in DOMAIN passed' THEN passed'[d] ELSE 0
  BY DEF Promise!Passes, Promise!BagIn, Promise!BagToSet
<1>3. CASE d = c
  BY <1>1, <1>2, <1>3
<1>4. CASE d # c
  BY <1>1, <1>2, <1>4
<1> QED
  BY <1>3, <1>4

(* The loops' own steps leave the tests that are over as they are. *)
LEMMA PastKept ==
  ASSUME SettingsFit, SweepInv, failure_detected = 0,
         Minor \/ MuxSelect \/ DemuxSelect \/ Block \/ Trail \/ Length,
         NEW c \in Combinations
  PROVE  Past(c)' <=> Past(c)
<1> USE DEF Past, loops, Switched, InBlock, InTrail, InTest, AfterGeneratorLength,
            AfterCheckerLength, AfterGeneratorStart, AfterCheckerStart
<1>1. /\ c[1] \in TestsEnabled /\ c[2] \in Blocks /\ c[3] \in Trails /\ c[4] \in Lengths
      /\ {c[1], c[2], c[3], c[4]} \subseteq Nat
  BY Member
<1>2. /\ BLOCK_SIZE_MINIMUM <= c[2] /\ c[2] <= BLOCK_SIZE_MAXIMUM
      /\ BLOCK_TRAIL_DISTANCE_MINIMUM <= c[3] /\ c[3] <= BLOCK_TRAIL_DISTANCE_MAXIMUM
      /\ RAM_LENGTH_MINIMUM <= c[4] /\ c[4] <= RAM_LENGTH_MAXIMUM
  BY <1>1, Loops DEF LoopOver
<1>3. /\ {block_size_counter, block_trail_distance_counter, length_counter,
          minor_test_counter} \subseteq Nat
      /\ {BLOCK_SIZE_MINIMUM, BLOCK_TRAIL_DISTANCE_MINIMUM, RAM_LENGTH_MINIMUM,
          BLOCK_SIZE_MAXIMUM, BLOCK_TRAIL_DISTANCE_MAXIMUM, RAM_LENGTH_MAXIMUM} \subseteq Nat
  <2>1. /\ minor_test_counter \in Nat
        /\ {block_size_counter, block_trail_distance_counter, length_counter} \subseteq Nat
    <3>1. /\ minor_test_counter \in 0..NUMBER_OF_MINOR_TESTS
          /\ {block_size_counter, block_trail_distance_counter, length_counter} \subseteq Words
      BY DEF SweepInv, Typed, TypeOK
    <3>2. minor_test_counter \in Nat
      BY <3>1, Settings
    <3> QED
      BY <3>1, <3>2, Settings
  <2> QED
    BY <2>1, Settings
<1>4. CASE Minor
  <2>1. pc = "minor" /\ pc' \notin Switched
    BY <1>4 DEF Minor
  <2>2. c[1] < minor_test_counter' <=> c[1] < minor_test_counter
    BY <1>1, <1>3, <1>4 DEF Minor
  <2> QED
    BY <2>1, <2>2
<1>5. CASE MuxSelect
  BY <1>5 DEF MuxSelect
<1>6. CASE DemuxSelect
  BY <1>1, <1>2, <1>3, <1>6 DEF DemuxSelect
<1>7. CASE Block
  <2>1. CASE block_size_counter <= BLOCK_SIZE_MAXIMUM
    BY <1>1, <1>2, <1>3, <1>7, <2>1 DEF Block
  <2>2. CASE ~(block_size_counter <= BLOCK_SIZE_MAXIMUM)
    BY <1>1, <1>2, <1>3, <1>7, <2>2 DEF Block
  <2> QED
    BY <2>1, <2>2
<1>8. CASE Trail
  <2>1. CASE block_trail_distance_counter <= BLOCK_TRAIL_DISTANCE_MAXIMUM
    BY <1>1, <1>2, <1>3, <1>8, <2>1 DEF Trail
  <2>2. CASE ~(block_trail_distance_counter <= BLOCK_TRAIL_DISTANCE_MAXIMUM)
    <3>1. /\ block_size_counter' = Twice(block_size_counter)
          /\ UNCHANGED <<minor_test_counter, block_trail_distance_counter>>
          /\ pc = "trail" /\ pc' = "block"
      BY <1>8, <2>2 DEF Trail
    <3>2. c[2] < block_size_counter' <=> c[2] < block_size_counter \/ c[2] = block_size_counter
      <4>1. block_size_counter \in Blocks
        BY <3>1 DEF SweepInv, Swept
      <4>2. c[2] < Twice(block_size_counter) <=> c[2] <= block_size_counter
        BY <1>1, <4>1, Loops DEF LoopOver
      <4> QED
        BY <1>1, <1>3, <3>1, <4>2
    <3>3. c[3] < block_trail_distance_counter
      BY <1>1, <1>2, <1>3, <2>2
    <3> QED
      BY <3>1, <3>2, <3>3
  <2> QED
    BY <2>1, <2>2
<1>9. CASE Length
  <2>1. CASE length_counter <= RAM_LENGTH_MAXIMUM
    BY <1>9, <2>1 DEF Length
  <2>2. CASE ~(length_counter <= RAM_LENGTH_MAXIMUM)
    <3>1. /\ block_trail_distance_counter' = Twice(block_trail_distance_counter)
          /\ UNCHANGED <<minor_test_counter, block_size_counter>>
          /\ pc = "length" /\ pc' = "trail"
      BY <1>9, <2>2 DEF Length
    <3>2. c[3] < block_trail_distance_counter'
            <=> c[3] < block_trail_distance_counter \/ c[3] = block_trail_distance_counter
      <4>1. block_trail_distance_counter \in Trails
        BY <3>1 DEF SweepInv, Swept
      <4>2. c[3] < Twice(block_trail_distance_counter) <=> c[3] <= block_trail_distance_counter
        BY <1>1, <4>1, Loops DEF LoopOver
      <4> QED
        BY <1>1, <1>3, <3>1, <4>2
    <3>3. c[4] < length_counter
      BY <1>1, <1>2, <1>3, <2>2
    <3> QED
      BY <3>1, <3>2, <3>3
  <2> QED
    BY <2>1, <2>2
<1> QED
  BY <1>4, <1>5, <1>6, <1>7, <1>8, <1>9

(* A verdict of 0 adds the test that has been carried out to the tests that are over. *)
LEMMA PastVerdict ==
  ASSUME SettingsFit, SweepInv, failure_detected = 0, Verdict, failure_detected' = 0
  PROVE  /\ carriedOut = Combination /\ Combination \in Combinations
         /\ passed' = passed (+) SetToBag({Combination})
         /\ ~Past(Combination)
         /\ \A c \in Combinations : Past(c)' <=> Past(c) \/ c = Combination
<1> USE DEF Switched, InBlock, InTrail, InTest, AfterGeneratorLength,
            AfterCheckerLength, AfterGeneratorStart, AfterCheckerStart
<1>1. carriedOut = Combination
  BY GoodVerdict DEF SweepInv
<1>2. passed' = passed (+) SetToBag({Combination})
  BY <1>1 DEF Verdict
<1>3. /\ pc = "verdict" /\ pc' = "length" /\ length_counter' = Twice(length_counter)
      /\ UNCHANGED <<minor_test_counter, block_size_counter, block_trail_distance_counter>>
  BY DEF Verdict
<1>4. /\ minor_test_counter \in TestsEnabled /\ block_size_counter \in Blocks
      /\ block_trail_distance_counter \in Trails /\ length_counter \in Lengths
  BY <1>3 DEF SweepInv, Typed, Swept, InMinor
<1>5. Combination \in Combinations
  BY <1>4 DEF Combination, Combinations, Blocks, Trails, Lengths
<1>6. {minor_test_counter, block_size_counter, block_trail_distance_counter, length_counter}
        \subseteq Nat
  BY <1>4, Loops, Settings DEF LoopOver
<1>7. ~Past(Combination)
  BY <1>6 DEF Past, Combination
<1>8. ASSUME NEW c \in Combinations
      PROVE  Past(c)' <=> Past(c) \/ c = Combination
  <2>1. c[4] \in Lengths /\ c[4] \in Nat /\ c = <<c[1], c[2], c[3], c[4]>>
    BY Member
  <2>2. c[4] < length_counter' <=> c[4] < length_counter \/ c[4] = length_counter
    <3>1. c[4] < Twice(length_counter) <=> c[4] <= length_counter
      BY <1>4, <2>1, Loops DEF LoopOver
    <3> QED
      BY <1>3, <1>6, <2>1, <3>1
  <2>3. c = Combination <=> /\ c[1] = minor_test_counter /\ c[2] = block_size_counter
                            /\ c[3] = block_trail_distance_counter /\ c[4] = length_counter
    BY <2>1 DEF Combination
  <2> QED
    BY <1>3, <2>2, <2>3 DEF Past
<1> QED
  BY <1>1, <1>2, <1>5, <1>7, <1>8

LEMMA PassesKept ==
  ASSUME NEW c, UNCHANGED passed
  PROVE  Promise!Passes(c)' = Promise!Passes(c)
BY DEF Promise!Passes, Promise!BagIn, Promise!BagToSet

LEMMA CountedSame ==
  ASSUME NEW r \in Nat, Counted(r), UNCHANGED <<passed, main_test_byte_counter>>,
         \A c \in Combinations : Past(c)' <=> Past(c)
  PROVE  Counted(r)'
BY PassesKept DEF Counted

LEMMA EachPassedKept ==
  ASSUME SettingsFit, SweepInv, EachPassed, [Next]_vars
  PROVE  EachPassed'
<1> SUFFICES ASSUME failure_detected' = 0, pc' # "return"
             PROVE  /\ \E r \in Nat : Counted(r)'
                    /\ pc' = "major" => minor_test_counter' = NUMBER_OF_MINOR_TESTS
  BY DEF EachPassed
<1>1. failure_detected = 0 /\ pc # "return"
  <2>1. CASE Verdict
    BY <2>1 DEF SweepInv, StopsAtFailure, Verdict
  <2>2. CASE ~Verdict
    BY <2>2 DEF Next, Software, Minor, MuxSelect, DemuxSelect, Block, Trail, Length, Major,
                GeneratorLength, CheckerLength, GeneratorStart, CheckerStart, Program, SetTimer,
                SetTransferLength, SetBlockSize, SetBlockTrailDistance, EnableStart, StartTest,
                Poll, Deliver, ClearStart, vars
  <2> QED
    BY <2>1, <2>2
<1>2. PICK r \in Nat : Counted(r)
  BY <1>1 DEF EachPassed
<1>3. pc = "major" => minor_test_counter = NUMBER_OF_MINOR_TESTS
  BY <1>1 DEF EachPassed
<1>4. minor_test_counter \in 0..NUMBER_OF_MINOR_TESTS
  BY DEF SweepInv, Typed, TypeOK
<1>5. CASE Minor \/ MuxSelect \/ DemuxSelect \/ Block \/ Trail \/ Length
  <2>1. UNCHANGED <<passed, main_test_byte_counter>>
    BY <1>5 DEF Minor, MuxSelect, DemuxSelect, Block, Trail, Length, loops
  <2>2. Counted(r)'
    BY <1>1, <1>2, <1>5, <2>1, PastKept, CountedSame
  <2>3. pc' = "major" => minor_test_counter' = NUMBER_OF_MINOR_TESTS
    <3>1. pc' = "major" => /\ Minor /\ ~(minor_test_counter < NUMBER_OF_MINOR_TESTS)
                           /\ UNCHANGED minor_test_counter
      BY <1>1, <1>5 DEF Minor, MuxSelect, DemuxSelect, Block, Trail, Length
    <3> QED
      BY <1>4, <3>1, Settings
  <2> QED
    BY <2>2, <2>3
<1>6. CASE Major
  <2>1. /\ pc = "major" /\ pc' = "minor" /\ minor_test_counter' = 0 /\ UNCHANGED passed
        /\ NUM_OF_TESTS # -1 => /\ main_test_byte_counter' = main_test_byte_counter + 1
                                /\ main_test_byte_counter' < NUM_OF_TESTS
    BY <1>1, <1>6 DEF Major
  <2>2. \A c \in Combinations : Past(c) /\ ~Past(c)'
    <3> SUFFICES ASSUME NEW c \in Combinations PROVE Past(c) /\ ~Past(c)'
      OBVIOUS
    <3>1. c[1] \in TestsEnabled
      BY Member
    <3>2. c[1] \in Nat /\ c[1] < NUMBER_OF_MINOR_TESTS
      <4>1. \A x \in TestsEnabled : x \in Nat /\ x < NUMBER_OF_MINOR_TESTS
        BY Settings
      <4> QED
        BY <3>1, <4>1
    <3>3. ~(c[1] < 0)
      BY <3>2
    <3> QED
      BY <1>3, <2>1, <3>2, <3>3
         DEF Past, Switched, InBlock, InTrail, InTest, AfterGeneratorLength, AfterCheckerLength,
             AfterGeneratorStart, AfterCheckerStart
  <2>3. \A c \in Combinations : Promise!Passes(c)' = r + 1
    BY <1>2, <2>1, <2>2, PassesKept DEF Counted
  <2>4. Counted(r + 1)'
    BY <1>2, <2>1, <2>2, <2>3 DEF Counted
  <2> QED
    BY <2>1, <2>4
<1>7. CASE Verdict
  <2>1. UNCHANGED main_test_byte_counter /\ pc' # "major"
    BY <1>7 DEF Verdict
  <2>2. \A c \in Combinations : Promise!Passes(c) \in Nat
    BY <1>2 DEF Counted
  <2>3. \A c \in Combinations :
          Promise!Passes(c)' = IF c = Combination THEN Promise!Passes(c) + 1
                               ELSE Promise!Passes(c)
    <3>1. PICK x : x = Combination
      OBVIOUS
    <3> QED
      BY <1>1, <1>7, <2>2, <3>1, PastVerdict, OneMore
  <2>4. /\ ~Past(Combination)
        /\ \A c \in Combinations : Past(c)' <=> Past(c) \/ c = Combination
    BY <1>1, <1>7, PastVerdict
  <2>5. \A c \in Combinations : Promise!Passes(c)' = IF Past(c)' THEN r + 1 ELSE r
    <3> SUFFICES ASSUME NEW c \in Combinations
                 PROVE  Promise!Passes(c)' = IF Past(c)' THEN r + 1 ELSE r
      OBVIOUS
    <3>1. Promise!Passes(c) = IF Past(c) THEN r + 1 ELSE r
      BY <1>2 DEF Counted
    <3> QED
      BY <2>3, <2>4, <3>1
  <2> QED
    BY <1>2, <2>1, <2>5 DEF Counted
<1>8. CASE \/ GeneratorLength \/ CheckerLength \/ GeneratorStart \/ CheckerStart
           \/ SetTimer \/ SetTransferLength \/ SetBlockSize \/ SetBlockTrailDistance
           \/ EnableStart \/ Poll \/ Deliver \/ ClearStart \/ UNCHANGED vars
  <2>1. UNCHANGED <<passed, loops>>
    BY <1>8 DEF GeneratorLength, CheckerLength, GeneratorStart, CheckerStart, Program,
                SetTimer, SetTransferLength, SetBlockSize, SetBlockTrailDistance, EnableStart,
                StartTest, Poll, Deliver, ClearStart, vars
  <2>2. pc' = pc \/ (pc \in InTest /\ pc' \in InTest)
    BY <1>8 DEF GeneratorLength, CheckerLength, GeneratorStart, CheckerStart, Program,
                SetTimer, SetTransferLength, SetBlockSize, SetBlockTrailDistance, EnableStart,
                StartTest, Poll, Deliver, ClearStart, vars, InTest, AfterGeneratorLength,
                AfterCheckerLength, AfterGeneratorStart, AfterCheckerStart
  <2>3. \A c \in Combinations : Past(c)' <=> Past(c)
    BY <2>1, <2>2 DEF Past, loops, InBlock, InTrail, Switched
  <2>4. Counted(r)'
    BY <1>2, <2>1, <2>3, CountedSame DEF loops
  <2>5. pc' = "major" => pc = "major"
    BY <2>2 DEF InTest, AfterGeneratorLength, AfterCheckerLength, AfterGeneratorStart,
                AfterCheckerStart
  <2> QED
    BY <1>3, <2>1, <2>4, <2>5 DEF loops
<1> QED
  BY <1>5, <1>6, <1>7, <1>8 DEF Next, Software

LEMMA EachPassedFirst ==
  ASSUME SettingsFit, NUM_OF_TESTS # 0, Init
  PROVE  EachPassed
<1>1. /\ pc = "minor" /\ minor_test_counter = 0 /\ main_test_byte_counter = 0
      /\ passed = EmptyBag
  BY DEF Init
<1>2. \A c \in Combinations : Promise!Passes(c) = 0
  BY <1>1 DEF Promise!Passes, Promise!BagIn, Promise!BagToSet, EmptyBag, SetToBag
<1>3. \A c \in Combinations : ~Past(c)
  <2> SUFFICES ASSUME NEW c \in Combinations PROVE ~Past(c)
    OBVIOUS
  <2>1. ~(c[1] < 0)
    BY Member
  <2> QED
    BY <1>1, <2>1 DEF Past, Switched, InBlock, InTrail, InTest, AfterGeneratorLength,
                      AfterCheckerLength, AfterGeneratorStart, AfterCheckerStart
<1>4. NUM_OF_TESTS # -1 => 0 < NUM_OF_TESTS
  BY TestSweepAssumption
<1>5. Counted(0)
  BY <1>1, <1>2, <1>3, <1>4 DEF Counted
<1> QED
  BY <1>1, <1>5 DEF EachPassed

(* A test passes when it is its turn: the others have passed no less often. *)
LEMMA PassesInTurn ==
  ASSUME SettingsFit, SweepInv, EachPassed, failure_detected = 0, Verdict,
         failure_detected' = 0
  PROVE  Promise!Next
<1>1. pc = "verdict" /\ pc' = "length"
  BY DEF Verdict
<1>2. PICK r \in Nat : Counted(r)
  BY <1>1 DEF EachPassed
<1>3. PICK c \in Combinations : c = Combination
  BY PastVerdict
<1>4. passed' = passed (+) SetToBag({c}) /\ ~Past(c)
  BY <1>3, PastVerdict
<1>5. Promise!Passes(c) = r
  BY <1>2, <1>4 DEF Counted
<1>6. \A d \in Combinations : Promise!Passes(c) <= Promise!Passes(d)
  BY <1>2, <1>5 DEF Counted
<1>7. NUM_OF_TESTS = -1 \/ Promise!Passes(c) < NUM_OF_TESTS
  BY <1>2, <1>5 DEF Counted
<1>8. Promise!Pass(c)
  BY <1>1, <1>4, <1>6, <1>7 DEF Promise!Pass, (+), SetToBag, Promise!(+), Promise!SetToBag
<1> QED
  BY <1>8 DEF Promise!Next

(* The verdict is given when every test has passed in every round. *)
LEMMA FinishesInTime ==
  ASSUME SettingsFit, SweepInv, EachPassed, Major, pc' = "return"
  PROVE  Promise!Next
<1>1. pc = "major" /\ UNCHANGED <<passed, failure_detected>>
  BY DEF Major
<1>2. ASSUME failure_detected = 0
      PROVE  \A c \in Combinations : Promise!Passes(c) = NUM_OF_TESTS
  <2>1. PICK r \in Nat : Counted(r)
    BY <1>1, <1>2 DEF EachPassed
  <2>2. minor_test_counter = NUMBER_OF_MINOR_TESTS
    BY <1>1, <1>2 DEF EachPassed
  <2>3. NUM_OF_TESTS # -1 /\ ~(main_test_byte_counter + 1 < NUM_OF_TESTS)
    BY <1>2 DEF Major
  <2>4. NUM_OF_TESTS \in Nat /\ r = main_test_byte_counter /\ r < NUM_OF_TESTS
    BY <2>1, <2>3, TestSweepAssumption DEF Counted
  <2>5. r + 1 = NUM_OF_TESTS
    BY <2>3, <2>4
  <2>6. \A c \in Combinations : Past(c)
    <3> SUFFICES ASSUME NEW c \in Combinations PROVE Past(c)
      OBVIOUS
    <3>1. \A x \in TestsEnabled : x < NUMBER_OF_MINOR_TESTS
      BY Settings
    <3> QED
      BY <2>2, <3>1, Member DEF Past
  <2> QED
    BY <2>1, <2>5, <2>6 DEF Counted
<1>3. Promise!Finish
  BY <1>1, <1>2 DEF Promise!Finish, Major
<1> QED
  BY <1>3 DEF Promise!Next

(***************************************************************************)
(* The sweep keeps its promise for all settings that fit the registers,    *)
(* for any number of rounds: each combination passes once in a round, with *)
(* the parameters it was meant to have, verdict 0 comes after the last,    *)
(* and the first test that does not pass is the last.  With no rounds at   *)
(* all main() still makes one.                                             *)
(***************************************************************************)
THEOREM SweepKeepsPromise ==
  ASSUME SettingsFit, NUM_OF_TESTS # 0 PROVE Spec => ImplementsSweep
<1>1. Init => Promise!Init
  BY DEF Init, Promise!Init, EmptyBag, SetToBag, Promise!EmptyBag, Promise!SetToBag
<1>2. SweepInv /\ EachPassed /\ [Next]_vars => [Promise!Next]_(Promise!vars)
  <2> SUFFICES ASSUME SweepInv, EachPassed, [Next]_vars
               PROVE  Promise!Next \/ UNCHANGED Promise!vars
    OBVIOUS
  <2>1. CASE Verdict
    <3>1. pc = "verdict" /\ pc' = "length" /\ failure_detected = 0
            /\ failure_detected' \in {0, 1, 2}
      BY <2>1 DEF Verdict, SweepInv, StopsAtFailure
    <3>2. CASE failure_detected' = 0
      BY <2>1, <3>1, <3>2, PassesInTurn
    <3>3. CASE failure_detected' # 0
      <4>1. Promise!Fail
        BY <2>1, <3>1, <3>3 DEF Promise!Fail, Verdict
      <4> QED
        BY <4>1 DEF Promise!Next
    <3> QED
      BY <3>2, <3>3
  <2>2. CASE Major
    <3>1. pc = "major" /\ pc' \in {"minor", "return"} /\ UNCHANGED <<passed, failure_detected>>
      BY <2>2 DEF Major
    <3>2. CASE pc' = "return"
      BY <2>2, <3>2, FinishesInTime
    <3>3. CASE pc' = "minor"
      BY <3>1, <3>3 DEF Promise!vars
    <3> QED
      BY <3>1, <3>2, <3>3
  <2>3. CASE ~Verdict /\ ~Major
    <3>1. UNCHANGED <<passed, failure_detected>> /\ (pc' = "return" <=> pc = "return")
      BY <2>3 DEF Next, Software, Minor, MuxSelect, DemuxSelect, Block, Trail, Length,
                  GeneratorLength, CheckerLength, GeneratorStart, CheckerStart, Program,
                  SetTimer, SetTransferLength, SetBlockSize, SetBlockTrailDistance, EnableStart,
                  StartTest, Poll, Deliver, ClearStart, vars
    <3> QED
      BY <3>1 DEF Promise!vars
  <2> QED
    BY <2>1, <2>2, <2>3
<1>3. Init => EachPassed
  BY EachPassedFirst
<1>4. SweepInv /\ EachPassed /\ [Next]_vars => EachPassed'
  BY EachPassedKept
<1> QED
  BY <1>1, <1>2, <1>3, <1>4, OnlyTheTestSetUp, PTL DEF Spec, ImplementsSweep, Promise!Spec

-----------------------------------------------------------------------------
(* The switches.  All words of a test are in line: the one at the checker, *)
(* those in the path, the one behind the multiplexer, numbered through to  *)
(* the last sent.                                                          *)
LaneWords == [lane : Lanes, number : Nat]

AtChecker == IF demux.valid_out[lane] THEN 1 ELSE 0
AtMux     == IF mux.valid_out THEN 1 ELSE 0

RegistersOK ==
  /\ mux \in [input_select : Lanes, valid_out : BOOLEAN, data_out : LaneWords]
  /\ demux \in [output_select : Lanes, valid_out : [Lanes -> BOOLEAN],
                data_out : [Lanes -> LaneWords]]
  /\ path \in Seq(LaneWords)
  /\ step \in {"next", "mux_read", "mux_write", "demux_read", "demux_write", "start", "poll"}
  /\ lane \in Lanes /\ payload \in Nat /\ sent \in Nat /\ received \in Nat

OtherLaneQuiet == \A l \in Lanes : demux.valid_out[l] => l = lane

InLine ==
  /\ demux.valid_out[lane] => demux.data_out[lane] = Word(lane, received + 1)
  /\ \A i \in 1..Len(path) : path[i] = Word(lane, received + AtChecker + i)
  /\ mux.valid_out => mux.data_out = Word(lane, sent)
  /\ sent = received + AtChecker + Len(path) + AtMux
  /\ sent <= payload

(* Nothing is under way while the software sets up a test. *)
QuietBetweenTests == step # "poll" => sent = 0 /\ received = 0

OutputSet == step \in {"start", "poll"} => demux.output_select = lane

LineInv == RegistersOK /\ OtherLaneQuiet /\ InLine /\ QuietBetweenTests /\ OutputSet

-----------------------------------------------------------------------------
(* A word leaves the path only for the checker of the test. *)
LEMMA OutputIsLane ==
  ASSUME LineInv, NEW in \in BOOLEAN, NEW out \in BOOLEAN, NEW valid \in BOOLEAN,
         NEW ready \in SUBSET Lanes, Clock(in, out, valid, ready), out
  PROVE  demux.output_select = lane /\ step = "poll" /\ Len(path) > 0
<1>1. path # <<>> /\ path \in Seq(LaneWords)
  BY DEF Clock, LineInv, RegistersOK
<1>2. Len(path) \in Nat /\ Len(path) > 0
  BY <1>1
<1>3. AtChecker \in Nat /\ AtMux \in Nat
  BY DEF AtChecker, AtMux
<1>4. sent = received + AtChecker + Len(path) + AtMux /\ received \in Nat
  BY DEF LineInv, InLine, RegistersOK
<1>5. sent > 0
  BY <1>2, <1>3, <1>4
<1> QED
  BY <1>2, <1>5 DEF LineInv, QuietBetweenTests, OutputSet

(* The register in front of the checker after a clock. *)
LEMMA CheckerSide ==
  ASSUME LineInv, NEW in \in BOOLEAN, NEW out \in BOOLEAN, NEW valid \in BOOLEAN,
         NEW ready \in SUBSET Lanes, Clock(in, out, valid, ready)
  PROVE  /\ lane' = lane
         /\ \A l \in Lanes : demux.valid_out'[l] => l = lane
         /\ demux.valid_out'[lane] =
              (IF demux_pipeline_ready(lane, ready) THEN out ELSE demux.valid_out[lane])
         /\ out /\ demux_pipeline_ready(lane, ready) =>
              demux.data_out'[lane] = Head(path)
         /\ ~(out /\ demux_pipeline_ready(lane, ready)) =>
              demux.data_out'[lane] = demux.data_out[lane]
         /\ (out /\ demux_snk_ready(ready)) = (out /\ demux_pipeline_ready(lane, ready))
<1>1. out => demux.output_select = lane
  BY OutputIsLane
<1>2. lane \in Lanes /\ lane' = lane
  BY DEF LineInv, RegistersOK, Clock, test
<1>3. PICK s : Demultiplex(ready, out, s)
  BY DEF Clock
<1> QED
  BY <1>1, <1>2, <1>3 DEF Demultiplex, demux_pipeline_enable, demux_snk_ready,
     demux_pipeline_ready, LineInv, OtherLaneQuiet

(* The register behind the multiplexer after a clock. *)
LEMMA MuxSide ==
  ASSUME LineInv, NEW in \in BOOLEAN, NEW out \in BOOLEAN, NEW valid \in BOOLEAN,
         NEW ready \in SUBSET Lanes, Clock(in, out, valid, ready)
  PROVE  /\ mux.valid_out' = (mux_pipeline_enable(in, valid) \/ (mux.valid_out /\ ~in))
         /\ mux_pipeline_enable(in, valid) =>
              /\ mux.data_out' = Word(lane, sent + 1)
              /\ (mux.valid_out => in) /\ step = "poll" /\ sent < payload
         /\ ~mux_pipeline_enable(in, valid) => mux.data_out' = mux.data_out
         /\ mux_pipeline_enable(in, valid) \in BOOLEAN
         /\ mux.valid_out \in BOOLEAN
<1>1. PICK s : Multiplex(in, valid, s)
  BY DEF Clock
<1>2. valid => step = "poll" /\ sent < payload
  BY DEF Clock
<1>3. mux.valid_out \in BOOLEAN
  BY DEF LineInv, RegistersOK
<1> QED
  BY <1>1, <1>2, <1>3 DEF Multiplex, mux_pipeline_enable, mux_pipeline_ready

(* Every word keeps its place in the line, one further on or not. *)
LEMMA LineMoves ==
  ASSUME LineInv, NEW in \in BOOLEAN, NEW out \in BOOLEAN, NEW valid \in BOOLEAN,
         NEW ready \in SUBSET Lanes, Clock(in, out, valid, ready)
  PROVE  InLine' /\ path' \in Seq(LaneWords) /\ sent' \in Nat /\ received' \in Nat
<1> DEFINE took  == out /\ demux_pipeline_ready(lane, ready)
           left  == in /\ mux.valid_out
           made  == mux_pipeline_enable(in, valid)
           check == demux.valid_out[lane] /\ lane \in ready
           rest  == IF took THEN Tail(path) ELSE path
           base  == received + AtChecker
<1>1. /\ path' = IF left THEN Append(rest, mux.data_out) ELSE rest
      /\ sent' = IF made THEN sent + 1 ELSE sent
      /\ received' = IF check THEN received + 1 ELSE received
  BY CheckerSide DEF Clock, Transport
<1>2. lane' = lane /\ payload' = payload /\ lane \in Lanes
  BY DEF Clock, test, LineInv, RegistersOK
<1>3. path \in Seq(LaneWords) /\ sent \in Nat /\ received \in Nat /\ payload \in Nat
  BY DEF LineInv, RegistersOK
<1>4. took => path # <<>>
  BY DEF Clock
<1>5. AtChecker \in {0, 1} /\ AtMux \in {0, 1} /\ AtChecker' \in {0, 1} /\ AtMux' \in {0, 1}
  BY DEF AtChecker, AtMux
<1>6. demux.valid_out[lane] \in BOOLEAN /\ mux.data_out \in LaneWords
  BY <1>2 DEF LineInv, RegistersOK
<1>7. received' + AtChecker' = IF took THEN base + 1 ELSE base
  <2>1. AtChecker' = IF demux_pipeline_ready(lane, ready) THEN (IF out THEN 1 ELSE 0)
                     ELSE AtChecker
    BY CheckerSide, <1>2 DEF AtChecker
  <2>2. CASE demux.valid_out[lane] /\ lane \in ready
    <3>1. AtChecker = 1 /\ demux_pipeline_ready(lane, ready) /\ received' = received + 1
      BY <1>1, <2>2 DEF AtChecker, demux_pipeline_ready
    <3> QED
      BY <2>1, <3>1, <1>3
  <2>3. CASE ~demux.valid_out[lane]
    <3>1. AtChecker = 0 /\ demux_pipeline_ready(lane, ready) /\ received' = received
      BY <1>1, <2>3 DEF AtChecker, demux_pipeline_ready
    <3> QED
      BY <2>1, <3>1, <1>3
  <2>4. CASE demux.valid_out[lane] /\ lane \notin ready
    <3>1. ~demux_pipeline_ready(lane, ready) /\ received' = received
      BY <1>1, <2>4 DEF demux_pipeline_ready
    <3> QED
      BY <2>1, <3>1, <1>3, <1>5
  <2> QED
    BY <2>2, <2>3, <2>4, <1>6
<1>8. /\ rest \in Seq(LaneWords)
      /\ Len(rest) = IF took THEN Len(path) - 1 ELSE Len(path)
      /\ \A i \in 1..Len(rest) : rest[i] = Word(lane, received' + AtChecker' + i)
  <2>1. \A i \in 1..Len(path) : path[i] = Word(lane, base + i)
    BY DEF LineInv, InLine
  <2>2. CASE took
    <3>1. /\ rest \in Seq(LaneWords) /\ Len(rest) = Len(path) - 1
          /\ \A i \in 1..Len(rest) : rest[i] = path[i + 1] /\ i + 1 \in 1..Len(path)
      BY <2>2, <1>3, <1>4
    <3>2. \A i \in 1..Len(rest) : rest[i] = Word(lane, base + (i + 1))
      BY <3>1, <2>1
    <3>3. \A i \in Nat : base + (i + 1) = received' + AtChecker' + i
      BY <2>2, <1>7, <1>3, <1>5
    <3> QED
      BY <3>1, <3>2, <3>3, <2>2
  <2>3. CASE ~took
    BY <2>1, <2>3, <1>7, <1>3
  <2> QED
    BY <2>2, <2>3
<1>9. sent = base + Len(path) + AtMux /\ sent <= payload
  BY DEF LineInv, InLine
<1>10. /\ path' \in Seq(LaneWords)
       /\ Len(path') = IF left THEN Len(rest) + 1 ELSE Len(rest)
       /\ \A i \in 1..Len(path') : path'[i] = Word(lane, received' + AtChecker' + i)
  <2>1. CASE left
    <3>1. mux.data_out = Word(lane, sent) /\ AtMux = 1
      BY <2>1 DEF LineInv, InLine, AtMux
    <3>2. sent = received' + AtChecker' + (Len(rest) + 1)
      BY <3>1, <1>9, <1>7, <1>8, <1>3, <1>5
    <3>3. path' = Append(rest, mux.data_out)
      BY <1>1, <2>1
    <3>4. /\ path' \in Seq(LaneWords) /\ Len(path') = Len(rest) + 1
          /\ \A i \in 1..Len(rest) : path'[i] = rest[i]
          /\ path'[Len(rest) + 1] = mux.data_out
      BY <3>3, <1>8, <1>6
    <3>5. \A i \in 1..(Len(rest) + 1) : i \in 1..Len(rest) \/ i = Len(rest) + 1
      BY <1>8
    <3> QED
      BY <3>1, <3>2, <3>4, <3>5, <1>8, <2>1
  <2>2. CASE ~left
    BY <2>2, <1>1, <1>8
  <2> QED
    BY <2>1, <2>2
<1>11. /\ received' + AtChecker' \in Nat /\ Len(rest) \in Nat /\ base + Len(path) \in Nat
       /\ received' + AtChecker' + Len(rest) = base + Len(path)
  BY <1>7, <1>8, <1>3, <1>5
<1>12. made => sent' = sent + 1 /\ AtMux' = 1 /\ AtMux = (IF left THEN 1 ELSE 0)
  BY MuxSide, <1>1 DEF AtMux
<1>13. ~made => sent' = sent /\ AtMux = (IF left THEN 1 ELSE 0) + AtMux'
  BY MuxSide, <1>1 DEF AtMux
<1>14. sent' = received' + AtChecker' + Len(path') + AtMux'
  <2> HIDE DEF took, left, made, check, rest, base
  <2>1. Len(path') = Len(rest) + (IF left THEN 1 ELSE 0)
    BY <1>10, <1>11
  <2>2. sent = received' + AtChecker' + Len(rest) + AtMux
    BY <1>9, <1>11, <1>5
  <2>3. sent' = received' + AtChecker' + Len(rest) + (IF left THEN 1 ELSE 0) + AtMux'
    <3>1. CASE made
      <4>1. AtMux = (IF left THEN 1 ELSE 0) /\ AtMux' = 1 /\ sent' = sent + 1
        BY <3>1, <1>12
      <4> QED
        BY <4>1, <2>2, <1>11
    <3>2. CASE ~made
      <4>1. AtMux = (IF left THEN 1 ELSE 0) + AtMux' /\ sent' = sent
        BY <3>2, <1>13
      <4>2. CASE left
        BY <4>1, <4>2, <2>2, <1>11, <1>5
      <4>3. CASE ~left
        BY <4>1, <4>3, <2>2, <1>11, <1>5
      <4> QED
        BY <4>2, <4>3
    <3> QED
      BY <3>1, <3>2
  <2> QED
    BY <2>1, <2>3, <1>11, <1>5
<1>15. (mux'.valid_out => mux'.data_out = Word(lane, sent')) /\ sent' <= payload
  <2>1. CASE made
    BY <2>1, <1>12, MuxSide, <1>3
  <2>2. CASE ~made
    BY <2>2, <1>13, <1>9, MuxSide DEF LineInv, InLine
  <2> QED
    BY <2>1, <2>2
<1>16. demux'.valid_out[lane] => demux'.data_out[lane] = Word(lane, received' + 1)
  <2>1. CASE took
    <3>0. Head(path) = path[1] /\ 1 \in 1..Len(path)
      BY <2>1, <1>3, <1>4
    <3>1. demux'.data_out[lane] = path[1]
      BY <3>0, <2>1, CheckerSide
    <3>2. path[1] = Word(lane, base + 1)
      BY <3>0 DEF LineInv, InLine
    <3>3. AtChecker' = 1
      BY <2>1, CheckerSide, <1>2 DEF AtChecker
    <3> QED
      BY <3>1, <3>2, <3>3, <1>7, <2>1, <1>3
  <2>2. CASE ~took /\ demux'.valid_out[lane]
    <3>1. demux.valid_out[lane] /\ lane \notin ready
      BY <2>2, CheckerSide DEF demux_pipeline_ready
    <3>2. received' = received /\ demux'.data_out[lane] = demux.data_out[lane]
      BY <3>1, <2>2, CheckerSide, <1>1
    <3> QED
      BY <3>1, <3>2 DEF LineInv, InLine
  <2> QED
    BY <2>1, <2>2
<1>17. InLine'
  BY <1>2, <1>10, <1>14, <1>15, <1>16 DEF InLine
<1> QED
  BY <1>1, <1>3, <1>10, <1>17

-----------------------------------------------------------------------------
(* Between two tests nothing moves, so no switch is ever refused. *)
LEMMA SwitchTaken ==
  ASSUME LineInv, NEW in \in BOOLEAN, NEW out \in BOOLEAN, NEW valid \in BOOLEAN,
         NEW ready \in SUBSET Lanes, Tick(in, out, valid, ready)
  PROVE  (QuietBetweenTests /\ OutputSet)'
         /\ step' \in {"next", "mux_read", "mux_write", "demux_read", "demux_write",
                      "start", "poll"}
<1>1. Clock(in, out, valid, ready) /\ lane' = lane
  BY DEF Tick, Clock, test
<1>2. PICK s : s = (IF step = "demux_write" /\ step' # step THEN lane ELSE demux.output_select)
                 /\ Demultiplex(ready, out, s)
  BY <1>1 DEF Clock
<1>3. demux'.output_select = IF step = "demux_write" /\ step' # step THEN lane
                             ELSE demux.output_select
  BY <1>2 DEF Demultiplex
<1>4. /\ step' \in {"next", "mux_read", "mux_write", "demux_read", "demux_write",
                   "start", "poll"}
      /\ step = "poll" => step' = "poll"
      /\ step' = "poll" /\ step # "poll" => step = "start"
  BY DEF Tick, SelectLanes, Compute, LineInv, RegistersOK
<1>5. CASE step = "poll"
  BY <1>1, <1>3, <1>4, <1>5 DEF LineInv, QuietBetweenTests, OutputSet
<1>6. CASE step # "poll"
  <2>1. sent = 0 /\ received = 0
    BY <1>6 DEF LineInv, QuietBetweenTests
  <2>2. Len(path) \in Nat /\ AtChecker \in Nat /\ AtMux \in Nat
    BY DEF LineInv, RegistersOK, AtChecker, AtMux
  <2>3. AtChecker = 0 /\ AtMux = 0
    BY <2>1, <2>2 DEF LineInv, InLine
  <2>4. ~demux.valid_out[lane] /\ ~mux.valid_out
    BY <2>3 DEF AtChecker, AtMux
  <2>5. ~out /\ ~mux_pipeline_enable(in, valid)
    BY <1>1, <1>6, OutputIsLane, MuxSide
  <2>6. sent' = 0 /\ received' = 0
    BY <2>1, <2>4, <2>5, <1>1 DEF Clock, Transport
  <2>7. ~demux_pending_data("A", ready, out)
    BY <2>4, <2>5 DEF demux_pending_data, demux_pipeline_enable, LineInv, OtherLaneQuiet
  <2>8. step' \in {"start", "poll"} => step \in {"demux_write", "start"}
    BY <2>7, <1>6 DEF Tick, SelectLanes, Compute
  <2>9. OutputSet'
    BY <2>8, <1>1, <1>3 DEF LineInv, OutputSet
  <2> QED
    BY <2>6, <2>9, <1>4 DEF QuietBetweenTests
<1> QED
  BY <1>5, <1>6

(* The registers keep their types. *)
LEMMA RegistersTyped ==
  ASSUME LineInv, NEW in \in BOOLEAN, NEW out \in BOOLEAN, NEW valid \in BOOLEAN,
         NEW ready \in SUBSET Lanes, Clock(in, out, valid, ready)
  PROVE  /\ mux' \in [input_select : Lanes, valid_out : BOOLEAN, data_out : LaneWords]
         /\ demux' \in [output_select : Lanes, valid_out : [Lanes -> BOOLEAN],
                        data_out : [Lanes -> LaneWords]]
<1>1. lane \in Lanes /\ sent + 1 \in Nat
  BY DEF LineInv, RegistersOK
<1>2. Word(lane, sent + 1) \in LaneWords
  BY <1>1 DEF Word, LaneWords
<1>3. PICK s \in Lanes : Multiplex(in, valid, s)
  BY <1>1 DEF Clock, LineInv, RegistersOK
<1>4. mux' \in [input_select : Lanes, valid_out : BOOLEAN, data_out : LaneWords]
  BY <1>2, <1>3 DEF Multiplex, mux_pipeline_enable, LineInv, RegistersOK
<1>5. PICK o \in Lanes : Demultiplex(ready, out, o)
  BY <1>1 DEF Clock, LineInv, RegistersOK
<1>6. out => Head(path) \in LaneWords
  BY DEF Clock, LineInv, RegistersOK
<1>7. demux' \in [output_select : Lanes, valid_out : [Lanes -> BOOLEAN],
                  data_out : [Lanes -> LaneWords]]
  BY <1>5, <1>6 DEF Demultiplex, demux_pipeline_enable, LineInv, RegistersOK
<1> QED
  BY <1>4, <1>7

(* Invariant: the words of a test are in line on its own lane. *)
THEOREM WordsInLine == SwitchSpec => []LineInv
<1>1. SwitchInit => LineInv
  <2> SUFFICES ASSUME SwitchInit PROVE LineInv
    OBVIOUS
  <2>1. "A" \in Lanes /\ Word("A", 0) \in LaneWords
    BY DEF Lanes, Word, LaneWords
  <2>2. RegistersOK
    BY <2>1 DEF SwitchInit, RegistersOK
  <2>3. AtChecker = 0 /\ AtMux = 0 /\ Len(path) = 0
    BY <2>1 DEF SwitchInit, AtChecker, AtMux
  <2>4. InLine
    BY <2>1, <2>3 DEF SwitchInit, InLine
  <2> QED
    BY <2>2, <2>4 DEF SwitchInit, LineInv, OtherLaneQuiet, QuietBetweenTests, OutputSet
<1>2. LineInv /\ [SwitchNext]_switch_vars => LineInv'
  <2> SUFFICES ASSUME LineInv, [SwitchNext]_switch_vars PROVE LineInv'
    OBVIOUS
  <2>1. CASE NextTest
    <3>1. lane' \in Lanes /\ payload' \in Nat /\ sent' = 0 /\ received' = 0
          /\ step' = "mux_read" /\ UNCHANGED <<mux, demux, path>>
      BY <2>1, StreamSwitchAssumption DEF NextTest, registers
    <3>2. Len(path) \in Nat /\ AtChecker \in Nat /\ AtMux \in Nat
          /\ sent = received + AtChecker + Len(path) + AtMux /\ received \in Nat
      BY DEF LineInv, RegistersOK, InLine, AtChecker, AtMux
    <3>3. sent = received
      <4>1. CASE step = "next"
        BY <4>1 DEF LineInv, QuietBetweenTests
      <4>2. CASE received = payload
        BY <4>2, <3>2 DEF LineInv, InLine
      <4> QED
        BY <2>1, <4>1, <4>2 DEF NextTest, CheckerDone
    <3>4. Len(path) = 0 /\ AtChecker = 0 /\ AtMux = 0
      BY <3>2, <3>3
    <3>5. ~mux.valid_out /\ \A l \in Lanes : ~demux.valid_out[l]
      BY <3>4 DEF AtChecker, AtMux, LineInv, OtherLaneQuiet
    <3>6. AtChecker' = 0 /\ AtMux' = 0 /\ Len(path') = 0
      BY <3>1, <3>4, <3>5 DEF AtChecker, AtMux
    <3>7. InLine'
      BY <3>1, <3>5, <3>6 DEF InLine
    <3> QED
      BY <3>1, <3>5, <3>7 DEF LineInv, RegistersOK, OtherLaneQuiet, QuietBetweenTests, OutputSet
  <2>2. ASSUME NEW in \in BOOLEAN, NEW out \in BOOLEAN, NEW valid \in BOOLEAN,
               NEW ready \in SUBSET Lanes, Tick(in, out, valid, ready)
        PROVE  LineInv'
    <3>1. Clock(in, out, valid, ready)
      BY <2>2 DEF Tick
    <3>2. lane' = lane /\ payload' = payload
      BY <3>1 DEF Clock, test
    <3>3. OtherLaneQuiet'
      BY <3>1, CheckerSide DEF OtherLaneQuiet
    <3> QED
      BY <2>2, <3>1, <3>2, <3>3, SwitchTaken, LineMoves, RegistersTyped DEF LineInv, RegistersOK
  <2>3. CASE UNCHANGED switch_vars
    BY <2>3 DEF switch_vars, registers, test, LineInv, RegistersOK, OtherLaneQuiet, InLine,
                QuietBetweenTests, OutputSet, AtChecker, AtMux
  <2> QED
    BY <2>1, <2>2, <2>3 DEF SwitchNext
<1> QED
  BY <1>1, <1>2, PTL DEF SwitchSpec

(***************************************************************************)
(* A checker is shown each word of its own test once and in order,         *)
(* whatever the length of the test and the depth of the path.              *)
(***************************************************************************)
THEOREM CheckerSeesItsWords == SwitchSpec => []RightChecker
<1>1. LineInv => RightChecker
  BY DEF LineInv, OtherLaneQuiet, InLine, RightChecker
<1> QED
  BY <1>1, WordsInLine, PTL
=============================================================================
