--------------------------- MODULE PrbsTestProofs ---------------------------
(***************************************************************************)
(* The verdict on a PRBS test is true, for words of any width, any         *)
(* polynomial and seed, any payloads and any path.                         *)
(***************************************************************************)
EXTENDS PrbsTest, TLAPS

(***************************************************************************)
(* The words under way follow each other, from the one the checker expects *)
(* to the one the generator goes on with.                                  *)
(***************************************************************************)
Following == IF channel = <<>> THEN NextWord(chk) ELSE pipeline_input(channel[Len(channel)])

Chain ==
  /\ channel # <<>> => channel[1] = NextWord(chk)
  /\ \A i \in 1..(Len(channel) - 1) : channel[i + 1] = pipeline_input(channel[i])
  /\ gen.pipeline_enable_d1 => gen.pipeline_d1 = Following
  /\ NextWord(gen) = IF gen.pipeline_enable_d1 THEN pipeline_input(gen.pipeline_d1)
                     ELSE Following

Chained == sw.pc # "chk_seed" => Chain

(* A core that runs has its seed behind it. *)
Seeds ==
  /\ gen.start => ~gen.seed
  /\ chk.start => ~chk.seed
  /\ sw.pc = "chk_seed" => gen.seed

(* While the software sets up a test nothing moves. *)
Quiet == ~gen.start /\ ~chk.start /\ channel = <<>> /\ ~gen.pipeline_enable_d1

SetUp == {"infinite", "stop", "gen_seed", "chk_seed", "gen_payload", "chk_payload", "gen_start"}

Phases ==
  /\ sw.pc \in SetUp => Quiet
  /\ sw.pc = "chk_start" => ~chk.start
  /\ sw.pc \in {"chk_payload", "gen_start"} =>
       sw.length \in Payloads /\ gen.payload_length_counter = sw.length
  /\ sw.pc = "gen_start" => chk.payload_length_counter = sw.length

(* Words on their way and words still to be sent make up the payload. *)
AtGenerator == IF gen.pipeline_enable_d1 THEN 1 ELSE 0

Counted ==
  /\ gen.infinite_payload_length = chk.infinite_payload_length
  /\ gen.start /\ ~gen.infinite_payload_length => gen.payload_length_counter > 0
  /\ ~gen.infinite_payload_length /\ sw.pc \in {"chk_start", "poll", "judge", "exit"} =>
       chk.payload_length_counter = Len(channel) + AtGenerator + Remaining

(* What a checker that has stopped has behind it. *)
Complete ==
  ~chk.infinite_payload_length /\ chk.payload_length_counter = 0 /\ ~chk.pipeline_enable_d1

Stopped ==
  /\ sw.pc \in {"poll", "judge"} /\ ~chk.start => chk.failure_detected \/ Complete
  /\ sw.pc = "judge" =>
       /\ ~chk.start /\ ~chk.pipeline_enable_d1
       /\ chk.failure_detected \/ ~chk.pipeline_enable_d2

(* A wrong word is in the failure flag or on its way there. *)
Alarm ==
  corrupted = (\/ chk.failure_detected
               \/ chk.pipeline_enable_d2 /\ ~chk.data_compare_d1
               \/ chk.pipeline_enable_d1 /\ chk.data_in_d1 # chk.pipeline_d1)

Verdicts ==
  /\ sw.verdict = "error" => corrupted
  /\ sw.verdict = "pass" =>
       /\ sw.pc \in {"gen_seed", "chk_seed", "gen_payload", "exit"}
       /\ Quiet /\ ~corrupted /\ chk.payload_length_counter = 0

Polls == sw.pc # "exit" => sw.counter < TIMEOUT

IInv ==
  TypeOK /\ Polls /\ Chained /\ Seeds /\ Phases /\ Counted /\ Stopped /\ Alarm /\ Verdicts

-----------------------------------------------------------------------------
(* The sequence never gets to the word 0. *)
LEMMA NeverZero ==
  ASSUME NEW w \in Words \ {Zero}
  PROVE  pipeline_input(w) \in Words \ {Zero}
<1>1. WIDTH \in Nat \ {0} /\ POLYNOMIAL \in Words
  BY PrbsAssumption
<1>2. pipeline_input(w) \in Words
  <2> DEFINE bit(d) == IF d = WIDTH - 1 THEN w[0]
                       ELSE w[d + 1] # (w[0] /\ POLYNOMIAL[d])
  <2>1. ASSUME NEW d \in Bits PROVE bit(d) \in BOOLEAN
    <3>1. CASE d = WIDTH - 1
      <4>1. 0 \in Bits
        BY <1>1 DEF Bits
      <4> QED
        BY <4>1, <3>1 DEF Words
    <3>2. CASE d # WIDTH - 1
      <4>1. bit(d) = (w[d + 1] # (w[0] /\ POLYNOMIAL[d]))
        BY <3>2
      <4> QED
        BY <4>1
    <3> QED
      BY <3>1, <3>2
  <2>2. pipeline_input(w) = [d \in Bits |-> bit(d)]
    BY DEF pipeline_input
  <2> HIDE DEF bit
  <2> QED
    BY <2>1, <2>2 DEF Words
<1>3. ASSUME pipeline_input(w) = Zero PROVE FALSE
  <2>1. ~w[0]
    <3>1. WIDTH - 1 \in Bits
      BY <1>1 DEF Bits
    <3>2. pipeline_input(w)[WIDTH - 1] = w[0] /\ Zero[WIDTH - 1] = FALSE
      BY <3>1 DEF pipeline_input, Zero
    <3> QED
      BY <3>2, <1>3
  <2>2. ASSUME NEW d \in Bits PROVE w[d] = FALSE
    <3>1. CASE d = 0
      BY <3>1, <2>1, <2>2 DEF Words
    <3>2. CASE d # 0
      <4>1. d - 1 \in Bits /\ d - 1 # WIDTH - 1 /\ (d - 1) + 1 = d
        BY <3>2, <1>1 DEF Bits
      <4>2. pipeline_input(w)[d - 1] = (w[d] # (w[0] /\ POLYNOMIAL[d - 1]))
        BY <4>1 DEF pipeline_input
      <4>3. Zero[d - 1] = FALSE
        BY <4>1 DEF Zero
      <4> QED
        BY <4>2, <4>3, <2>1, <1>3 DEF Words
    <3> QED
      BY <3>1, <3>2
  <2>3. w = Zero
    BY <2>2 DEF Words, Zero
  <2> QED
    BY <2>3
<1> QED
  BY <1>2, <1>3

-----------------------------------------------------------------------------
(* What the software does in a clock: the writes and where it goes on.      *)
Keep == sw'.length = sw.length /\ sw'.verdict = sw.verdict

Moves(gen_write, chk_write) ==
  \/ UNCHANGED sw /\ gen_write = NoWrite /\ chk_write = NoWrite
  \/ /\ sw.pc = "infinite" /\ sw'.pc = "stop" /\ Keep
     /\ \E b \in BOOLEAN : gen_write = Write("infinite_payload_length", b)
     /\ chk_write = gen_write
  \/ /\ sw.pc = "stop" /\ sw'.pc \in {"gen_seed", "gen_payload"} /\ Keep
     /\ gen_write = NoWrite
     /\ \E b \in BOOLEAN : chk_write = Write("stop_on_failure", b)
  \/ /\ sw.pc = "gen_seed" /\ sw'.pc = "chk_seed" /\ Keep
     /\ gen_write = Write("seed", TRUE) /\ chk_write = NoWrite
  \/ /\ sw.pc = "chk_seed" /\ sw'.pc = "gen_payload" /\ Keep
     /\ gen_write = NoWrite /\ chk_write = Write("seed", TRUE)
  \/ /\ sw.pc = "gen_payload" /\ sw'.pc = "chk_payload" /\ sw'.verdict = "none"
     /\ sw'.length \in Payloads
     /\ gen_write = Write("payload_length", sw'.length) /\ chk_write = NoWrite
  \/ /\ sw.pc = "chk_payload" /\ sw'.pc = "gen_start" /\ Keep
     /\ gen_write = NoWrite /\ chk_write = Write("payload_length", sw.length)
  \/ /\ sw.pc = "gen_start" /\ sw'.pc = "chk_start" /\ Keep
     /\ gen_write = Write("start", TRUE) /\ chk_write = NoWrite
  \/ /\ sw.pc = "chk_start" /\ sw'.pc = "poll" /\ Keep
     /\ gen_write = NoWrite /\ chk_write = Write("start", TRUE)
  \/ /\ sw.pc = "poll" /\ gen_write = NoWrite /\ chk_write = NoWrite
     /\ \/ sw'.pc = "exit" /\ sw'.verdict = "timeout"
        \/ sw'.pc = "poll" /\ sw'.verdict = "none"
        \/ sw'.pc = "judge" /\ sw'.verdict = "none" /\ ~chk.start
  \/ /\ sw.pc = "judge" /\ gen_write = NoWrite /\ chk_write = NoWrite
     /\ \/ sw'.pc = "exit" /\ sw'.verdict = "error" /\ chk.failure_detected
        \/ /\ sw'.pc \in {"gen_seed", "gen_payload", "exit"} /\ sw'.verdict = "pass"
           /\ ~chk.failure_detected

GeneratorType ==
  [start                   : BOOLEAN,
   seed                    : BOOLEAN,
   infinite_payload_length : BOOLEAN,
   payload_length_counter  : 0..(LENGTH_WRAP - 1),
   pipeline                : Words \ {Zero},
   pipeline_d1             : Words,
   pipeline_enable_d1      : BOOLEAN]

CheckerType ==
  [start                   : BOOLEAN,
   seed                    : BOOLEAN,
   infinite_payload_length : BOOLEAN,
   stop_on_failure         : BOOLEAN,
   failure_detected        : BOOLEAN,
   payload_length_counter  : 0..(LENGTH_WRAP - 1),
   pipeline                : Words \ {Zero},
   pipeline_d1             : Words,
   pipeline_enable_d1      : BOOLEAN,
   pipeline_enable_d2      : BOOLEAN,
   data_in_d1              : Words,
   data_compare_d1         : BOOLEAN]

SwType ==
  [pc : {"infinite", "stop", "gen_seed", "chk_seed", "gen_payload", "chk_payload",
         "gen_start", "chk_start", "poll", "judge", "exit"},
   length : {0} \cup Payloads, counter : 0..TIMEOUT,
   verdict : {"none", "pass", "error", "timeout"}]

(* Every operation is one of these moves. *)
LEMMA SoftwareMoves ==
  ASSUME TypeOK, NEW ready \in BOOLEAN, NEW word \in Words \cup {NoWord},
         Access(ready, word) \/ Compute(ready, word), Polls
  PROVE  /\ \E gen_write, chk_write :
              Hardware(ready, word, gen_write, chk_write) /\ Moves(gen_write, chk_write)
         /\ sw' \in SwType /\ Polls'
<1>1. sw \in SwType /\ chk.failure_detected \in BOOLEAN /\ chk.start \in BOOLEAN
  BY DEF TypeOK, SwType, Checker!TypeOK
<1>2. CASE Compute(ready, word)
  BY <1>1, <1>2 DEF Compute, Moves, Polls
<1>3. CASE set_infinite_payload_length(ready, word)
  <2>1. PICK mode \in Modes :
          Hardware(ready, word, Write("infinite_payload_length", mode.infinite),
                   Write("infinite_payload_length", mode.infinite))
    BY <1>3 DEF set_infinite_payload_length
  <2>2. mode.infinite \in BOOLEAN
    BY PrbsTestAssumption
  <2>3. Moves(Write("infinite_payload_length", mode.infinite),
              Write("infinite_payload_length", mode.infinite)) /\ sw' \in SwType /\ Polls'
    BY <1>1, <1>3, <2>2 DEF set_infinite_payload_length, GoTo, Moves, Keep, SwType, Polls
  <2> QED
    BY <2>1, <2>3
<1>4. CASE prbs_checker_set_stop_on_failure(ready, word)
  <2>1. PICK mode \in Modes :
          Hardware(ready, word, NoWrite, Write("stop_on_failure", mode.stop))
    BY <1>4 DEF prbs_checker_set_stop_on_failure
  <2>2. mode.stop \in BOOLEAN
    BY PrbsTestAssumption
  <2>3. Moves(NoWrite, Write("stop_on_failure", mode.stop)) /\ sw' \in SwType /\ Polls'
    BY <1>1, <1>4, <2>2 DEF prbs_checker_set_stop_on_failure, GoTo, Moves, Keep, SwType, Polls
  <2> QED
    BY <2>1, <2>3
<1>5. CASE prbs_generator_seed_enable(ready, word)
  <2>1. Moves(Write("seed", TRUE), NoWrite) /\ sw' \in SwType /\ Polls'
    BY <1>1, <1>5 DEF prbs_generator_seed_enable, GoTo, Moves, Keep, SwType, Polls
  <2> QED
    BY <1>5, <2>1 DEF prbs_generator_seed_enable
<1>6. CASE prbs_checker_seed_enable(ready, word)
  <2>1. Moves(NoWrite, Write("seed", TRUE)) /\ sw' \in SwType /\ Polls'
    BY <1>1, <1>6 DEF prbs_checker_seed_enable, GoTo, Moves, Keep, SwType, Polls
  <2> QED
    BY <1>6, <2>1 DEF prbs_checker_seed_enable
<1>7. CASE prbs_generator_set_payload_length(ready, word)
  <2>1. PICK length \in Payloads :
          /\ sw.pc = "gen_payload"
          /\ sw' = [pc |-> "chk_payload", length |-> length, counter |-> 0, verdict |-> "none"]
          /\ Hardware(ready, word, Write("payload_length", length), NoWrite)
    BY <1>7 DEF prbs_generator_set_payload_length
  <2>2. Moves(Write("payload_length", length), NoWrite) /\ sw' \in SwType /\ Polls'
    BY <2>1, PrbsTestAssumption DEF Moves, SwType, Polls
  <2> QED
    BY <2>1, <2>2
<1>8. CASE prbs_checker_set_payload_length(ready, word)
  <2>1. Moves(NoWrite, Write("payload_length", sw.length)) /\ sw' \in SwType /\ Polls'
    BY <1>1, <1>8 DEF prbs_checker_set_payload_length, GoTo, Moves, Keep, SwType, Polls
  <2> QED
    BY <1>8, <2>1 DEF prbs_checker_set_payload_length
<1>9. CASE prbs_generator_enable_start(ready, word)
  <2>1. Moves(Write("start", TRUE), NoWrite) /\ sw' \in SwType /\ Polls'
    BY <1>1, <1>9 DEF prbs_generator_enable_start, GoTo, Moves, Keep, SwType, Polls
  <2> QED
    BY <1>9, <2>1 DEF prbs_generator_enable_start
<1>10. CASE prbs_checker_enable_start(ready, word)
  <2>1. Moves(NoWrite, Write("start", TRUE)) /\ sw' \in SwType /\ Polls'
    BY <1>1, <1>10 DEF prbs_checker_enable_start, GoTo, Moves, Keep, SwType, Polls
  <2> QED
    BY <1>10, <2>1 DEF prbs_checker_enable_start
<1>11. CASE prbs_checker_read_start(ready, word)
  <2>1. sw.counter + 1 \in 0..TIMEOUT /\ sw.pc = "poll"
    BY <1>1, <1>11, PrbsTestAssumption DEF prbs_checker_read_start, SwType, Polls
  <2>2. Moves(NoWrite, NoWrite) /\ sw' \in SwType
    BY <1>1, <1>11, <2>1 DEF prbs_checker_read_start, Moves, SwType
  <2>3. sw'.pc # "exit" => sw'.counter = sw.counter + 1 /\ sw'.counter # TIMEOUT
    BY <1>1, <1>11 DEF prbs_checker_read_start, SwType
  <2>4. Polls'
    BY <2>1, <2>3, PrbsTestAssumption DEF Polls
  <2> QED
    BY <1>11, <2>2, <2>4 DEF prbs_checker_read_start
<1>12. CASE prbs_checker_read_failure_detected(ready, word)
  <2>1. Moves(NoWrite, NoWrite) /\ sw' \in SwType /\ Polls'
    BY <1>1, <1>12, PrbsTestAssumption DEF prbs_checker_read_failure_detected, Moves, SwType, Polls
  <2> QED
    BY <1>12, <2>1 DEF prbs_checker_read_failure_detected
<1> QED
  BY <1>2, <1>3, <1>4, <1>5, <1>6, <1>7, <1>8, <1>9, <1>10, <1>11, <1>12 DEF Access

-----------------------------------------------------------------------------
(* The two cores use the words and the registers of the same port. *)
LEMMA SamePort ==
  /\ Generator!TypeOK <=> gen \in GeneratorType
  /\ Checker!TypeOK <=> chk \in CheckerType
BY DEF Generator!TypeOK, Checker!TypeOK, GeneratorType, CheckerType,
       Generator!Words, Checker!Words, Words, Generator!Zero, Checker!Zero, Zero,
       Generator!Bits, Checker!Bits, Bits

(* The same after a clock. *)
LEMMA SamePortNext ==
  /\ Generator!TypeOK' <=> gen' \in GeneratorType
  /\ Checker!TypeOK' <=> chk' \in CheckerType
BY DEF Generator!TypeOK, Checker!TypeOK, GeneratorType, CheckerType,
       Generator!Words, Checker!Words, Words, Generator!Zero, Checker!Zero, Zero,
       Generator!Bits, Checker!Bits, Bits

(* The registers of the generator after a clock. *)
LEMMA GeneratorClock ==
  ASSUME NEW write, NEW ready, Generator!Clock(write, ready)
  PROVE  gen' =
    [start |-> ~Generator!clear_start(ready) /\ Load(write, "start", gen.start),
     seed |-> Seeded(write, gen.seed),
     infinite_payload_length |->
       Load(write, "infinite_payload_length", gen.infinite_payload_length),
     payload_length_counter |->
       IF write.reg # "payload_length" /\ Generator!decrement_payload_length_counter(ready)
       THEN (gen.payload_length_counter - 1) % LENGTH_WRAP
       ELSE Load(write, "payload_length", gen.payload_length_counter),
     pipeline |-> Pipeline(gen, Generator!pipeline_enable(ready)),
     pipeline_d1 |-> IF Generator!pipeline_enable(ready) THEN gen.pipeline ELSE gen.pipeline_d1,
     pipeline_enable_d1 |-> Generator!pipeline_enable(ready)]
BY DEF Generator!Clock, Generator!Load, Load, Generator!Seeded, Seeded,
       Generator!Pipeline, Pipeline, Generator!pipeline_input, pipeline_input,
       Generator!Bits, Bits

(* The registers of the checker after a clock. *)
LEMMA CheckerClock ==
  ASSUME NEW write, NEW word, Checker!Clock(write, word)
  PROVE  chk' =
    [start |-> ~Checker!clear_start /\ Load(write, "start", chk.start),
     seed |-> Seeded(write, chk.seed),
     infinite_payload_length |->
       Load(write, "infinite_payload_length", chk.infinite_payload_length),
     stop_on_failure |-> Load(write, "stop_on_failure", chk.stop_on_failure),
     failure_detected |-> Checker!set_failure_detected \/ chk.failure_detected,
     payload_length_counter |->
       IF write.reg # "payload_length" /\ Checker!decrement_payload_length_counter(word)
       THEN (chk.payload_length_counter - 1) % LENGTH_WRAP
       ELSE Load(write, "payload_length", chk.payload_length_counter),
     pipeline |-> Pipeline(chk, Checker!pipeline_enable(word)),
     pipeline_d1 |-> IF Checker!pipeline_enable(word) THEN chk.pipeline ELSE chk.pipeline_d1,
     pipeline_enable_d1 |-> Checker!pipeline_enable(word),
     pipeline_enable_d2 |-> chk.pipeline_enable_d1,
     data_in_d1 |-> IF Checker!pipeline_enable(word) THEN word ELSE chk.data_in_d1,
     data_compare_d1 |->
       IF chk.pipeline_enable_d1 THEN Checker!data_compare ELSE chk.data_compare_d1]
BY DEF Checker!Clock, Checker!Load, Load, Checker!Seeded, Seeded,
       Checker!Pipeline, Pipeline, Checker!pipeline_input, pipeline_input,
       Checker!Bits, Bits

(* The values a write of the software can carry. *)
LEMMA WritesTyped ==
  ASSUME NEW gen_write, NEW chk_write, Moves(gen_write, chk_write),
         sw.pc = "chk_payload" => sw.length \in Payloads
  PROVE  \A write \in {gen_write, chk_write} :
           /\ \A old \in BOOLEAN : Load(write, "start", old) \in BOOLEAN
           /\ \A old \in BOOLEAN : Load(write, "seed", old) \in BOOLEAN
           /\ \A old \in BOOLEAN : Load(write, "infinite_payload_length", old) \in BOOLEAN
           /\ \A old \in BOOLEAN : Load(write, "stop_on_failure", old) \in BOOLEAN
           /\ \A old \in 0..(LENGTH_WRAP - 1) :
                Load(write, "payload_length", old) \in 0..(LENGTH_WRAP - 1)
<1>1. Payloads \subseteq 0..(LENGTH_WRAP - 1)
  BY PrbsTestAssumption, PrbsAssumption
<1>2. ASSUME NEW write \in {gen_write, chk_write}
      PROVE  \/ write = NoWrite
             \/ \E b \in BOOLEAN : write = Write("infinite_payload_length", b)
             \/ \E b \in BOOLEAN : write = Write("stop_on_failure", b)
             \/ write = Write("seed", TRUE)
             \/ write = Write("start", TRUE)
             \/ \E n \in Payloads : write = Write("payload_length", n)
  BY DEF Moves
<1>3. ASSUME NEW write \in {gen_write, chk_write}
      PROVE  /\ \A old \in BOOLEAN : Load(write, "start", old) \in BOOLEAN
             /\ \A old \in BOOLEAN : Load(write, "seed", old) \in BOOLEAN
             /\ \A old \in BOOLEAN : Load(write, "infinite_payload_length", old) \in BOOLEAN
             /\ \A old \in BOOLEAN : Load(write, "stop_on_failure", old) \in BOOLEAN
             /\ \A old \in 0..(LENGTH_WRAP - 1) :
                  Load(write, "payload_length", old) \in 0..(LENGTH_WRAP - 1)
  <2>1. CASE write = NoWrite
    BY <2>1 DEF Load, NoWrite
  <2>2. CASE \E b \in BOOLEAN : write = Write("infinite_payload_length", b)
    BY <2>2 DEF Load, Write
  <2>3. CASE \E b \in BOOLEAN : write = Write("stop_on_failure", b)
    BY <2>3 DEF Load, Write
  <2>4. CASE write = Write("seed", TRUE)
    BY <2>4 DEF Load, Write
  <2>5. CASE write = Write("start", TRUE)
    BY <2>5 DEF Load, Write
  <2>6. CASE \E n \in Payloads : write = Write("payload_length", n)
    BY <2>6, <1>1 DEF Load, Write
  <2> QED
    BY <1>2, <1>3, <2>1, <2>2, <2>3, <2>4, <2>5, <2>6
<1> QED
  BY <1>3

(* The registers and the path keep their types. *)
LEMMA TypesKept ==
  ASSUME TypeOK, NEW ready \in BOOLEAN, NEW word \in Words \cup {NoWord},
         ready => MayAsk, word \in Offers,
         NEW gen_write, NEW chk_write, Moves(gen_write, chk_write),
         sw.pc = "chk_payload" => sw.length \in Payloads,
         Hardware(ready, word, gen_write, chk_write), sw' \in SwType
  PROVE  TypeOK'
<1>1. gen \in GeneratorType /\ chk \in CheckerType
  BY SamePort DEF TypeOK
<1>2. /\ \A w \in Words \ {Zero} : pipeline_input(w) \in Words \ {Zero}
      /\ SEED_VALUE \in Words \ {Zero}
  BY NeverZero, PrbsAssumption
<1>3. \A n \in 0..(LENGTH_WRAP - 1) : (n - 1) % LENGTH_WRAP \in 0..(LENGTH_WRAP - 1)
  BY PrbsAssumption
<1>4. gen' \in GeneratorType
  <2>1. Generator!Clock(gen_write, ready)
    BY DEF Hardware
  <2>2. Generator!pipeline_enable(ready) \in BOOLEAN
    BY <1>1 DEF Generator!pipeline_enable, GeneratorType
  <2>3. Pipeline(gen, Generator!pipeline_enable(ready)) \in Words \ {Zero}
    BY <1>1, <1>2 DEF Pipeline, GeneratorType
  <2>4. Seeded(gen_write, gen.seed) \in BOOLEAN
    BY <1>1, WritesTyped DEF Seeded, GeneratorType
  <2>5. /\ Load(gen_write, "start", gen.start) \in BOOLEAN
        /\ Load(gen_write, "infinite_payload_length", gen.infinite_payload_length) \in BOOLEAN
        /\ Load(gen_write, "payload_length", gen.payload_length_counter)
              \in 0..(LENGTH_WRAP - 1)
        /\ (gen.payload_length_counter - 1) % LENGTH_WRAP \in 0..(LENGTH_WRAP - 1)
    BY <1>1, <1>3, WritesTyped DEF GeneratorType
  <2>6. gen.pipeline \in Words /\ gen.pipeline_d1 \in Words
    BY <1>1 DEF GeneratorType
  <2> DEFINE start == ~Generator!clear_start(ready) /\ Load(gen_write, "start", gen.start)
             counter ==
               IF gen_write.reg # "payload_length"
                    /\ Generator!decrement_payload_length_counter(ready)
               THEN (gen.payload_length_counter - 1) % LENGTH_WRAP
               ELSE Load(gen_write, "payload_length", gen.payload_length_counter)
  <2>7. start \in BOOLEAN /\ counter \in 0..(LENGTH_WRAP - 1)
    BY <2>5
  <2>8. gen' = [start |-> start, seed |-> Seeded(gen_write, gen.seed),
                infinite_payload_length |->
                  Load(gen_write, "infinite_payload_length", gen.infinite_payload_length),
                payload_length_counter |-> counter,
                pipeline |-> Pipeline(gen, Generator!pipeline_enable(ready)),
                pipeline_d1 |-> IF Generator!pipeline_enable(ready) THEN gen.pipeline
                                ELSE gen.pipeline_d1,
                pipeline_enable_d1 |-> Generator!pipeline_enable(ready)]
    BY <2>1, GeneratorClock
  <2> HIDE DEF start, counter
  <2> QED
    BY <2>2, <2>3, <2>4, <2>5, <2>6, <2>7, <2>8 DEF GeneratorType
<1>5. chk' \in CheckerType
  <2>1. Checker!Clock(chk_write, word)
    BY DEF Hardware
  <2>2. Checker!pipeline_enable(word) \in BOOLEAN /\ Checker!data_compare \in BOOLEAN
    BY <1>1 DEF Checker!pipeline_enable, Checker!data_compare, CheckerType
  <2>3. Pipeline(chk, Checker!pipeline_enable(word)) \in Words \ {Zero}
    BY <1>1, <1>2 DEF Pipeline, CheckerType
  <2>4. Seeded(chk_write, chk.seed) \in BOOLEAN
    BY <1>1, WritesTyped DEF Seeded, CheckerType
  <2>5. /\ Load(chk_write, "start", chk.start) \in BOOLEAN
        /\ Load(chk_write, "infinite_payload_length", chk.infinite_payload_length) \in BOOLEAN
        /\ Load(chk_write, "stop_on_failure", chk.stop_on_failure) \in BOOLEAN
        /\ Load(chk_write, "payload_length", chk.payload_length_counter)
              \in 0..(LENGTH_WRAP - 1)
        /\ (chk.payload_length_counter - 1) % LENGTH_WRAP \in 0..(LENGTH_WRAP - 1)
    BY <1>1, <1>3, WritesTyped DEF CheckerType
  <2>6. /\ chk.pipeline \in Words /\ chk.pipeline_d1 \in Words /\ chk.data_in_d1 \in Words
        /\ chk.pipeline_enable_d1 \in BOOLEAN /\ chk.data_compare_d1 \in BOOLEAN
    BY <1>1 DEF CheckerType
  <2>7. Checker!pipeline_enable(word) => word \in Words
    BY DEF Checker!pipeline_enable
  <2> DEFINE start == ~Checker!clear_start /\ Load(chk_write, "start", chk.start)
             failure == Checker!set_failure_detected \/ chk.failure_detected
             counter ==
               IF chk_write.reg # "payload_length"
                    /\ Checker!decrement_payload_length_counter(word)
               THEN (chk.payload_length_counter - 1) % LENGTH_WRAP
               ELSE Load(chk_write, "payload_length", chk.payload_length_counter)
  <2>8. start \in BOOLEAN /\ failure \in BOOLEAN /\ counter \in 0..(LENGTH_WRAP - 1)
    BY <2>5
  <2>9. chk' = [start |-> start, seed |-> Seeded(chk_write, chk.seed),
                infinite_payload_length |->
                  Load(chk_write, "infinite_payload_length", chk.infinite_payload_length),
                stop_on_failure |-> Load(chk_write, "stop_on_failure", chk.stop_on_failure),
                failure_detected |-> failure,
                payload_length_counter |-> counter,
                pipeline |-> Pipeline(chk, Checker!pipeline_enable(word)),
                pipeline_d1 |-> IF Checker!pipeline_enable(word) THEN chk.pipeline
                                ELSE chk.pipeline_d1,
                pipeline_enable_d1 |-> Checker!pipeline_enable(word),
                pipeline_enable_d2 |-> chk.pipeline_enable_d1,
                data_in_d1 |-> IF Checker!pipeline_enable(word) THEN word ELSE chk.data_in_d1,
                data_compare_d1 |->
                  IF chk.pipeline_enable_d1 THEN Checker!data_compare ELSE chk.data_compare_d1]
    BY <2>1, CheckerClock
  <2> HIDE DEF start, failure, counter
  <2> QED
    BY <2>2, <2>3, <2>4, <2>5, <2>6, <2>7, <2>8, <2>9 DEF CheckerType
<1>6. /\ channel' \in Seq(Words) /\ Len(channel') + Len(Leaving') <= CHANNEL_WORDS
      /\ corrupted' \in BOOLEAN
  <2> DEFINE taken == Checker!pipeline_enable(word)
             left == IF taken THEN Tail(channel) ELSE channel
  <2>1. /\ channel \in Seq(Words) /\ Len(channel) + Len(Leaving) <= CHANNEL_WORDS
        /\ corrupted \in BOOLEAN /\ CHANNEL_WORDS \in Nat
    BY PrbsTestAssumption DEF TypeOK
  <2>2. channel' = left \o Leaving /\ corrupted' = (corrupted \/ (taken /\ word # Head(channel)))
    BY DEF Hardware
  <2>3. Leaving \in Seq(Words) /\ Len(Leaving) \in 0..1
    BY <1>1 DEF Leaving, Generator!src_data, GeneratorType
  <2>4. left \in Seq(Words) /\ Len(left) <= Len(channel)
    <3>1. taken => channel # <<>>
      BY DEF Offers, Checker!pipeline_enable
    <3> QED
      BY <2>1, <3>1
  <2>5. channel' \in Seq(Words) /\ Len(channel') = Len(left) + Len(Leaving)
    BY <2>2, <2>3, <2>4
  <2>6. gen'.pipeline_enable_d1 => ready
    BY GeneratorClock DEF Hardware, Generator!pipeline_enable
  <2>7. Len(Leaving') = IF gen'.pipeline_enable_d1 THEN 1 ELSE 0
    BY DEF Leaving, Generator!src_valid
  <2>8. ready => Len(channel) + Len(Leaving) < CHANNEL_WORDS
    BY DEF MayAsk
  <2> HIDE DEF taken, left
  <2>9. Len(channel') + Len(Leaving') <= CHANNEL_WORDS
    BY <2>1, <2>3, <2>4, <2>5, <2>6, <2>7, <2>8
  <2>10. corrupted' \in BOOLEAN
    BY <2>2
  <2> QED
    BY <2>5, <2>9, <2>10
<1> QED
  BY <1>4, <1>5, <1>6, SamePortNext DEF TypeOK, SwType

-----------------------------------------------------------------------------
(***************************************************************************)
(* A clock register by register: what the software does is in the phases   *)
(* it comes from and goes to, what the cores do in the words sent and taken*)
(***************************************************************************)
Goes(from, to) == sw.pc = from /\ sw'.pc = to

sent(ready) == gen.start /\ ready
taken(word) == chk.start /\ word # NoWord

GeneratorMoves(ready) ==
  /\ gen'.start = (/\ gen.start \/ Goes("gen_start", "chk_start")
                   /\ ~(/\ sent(ready) /\ ~gen.infinite_payload_length
                        /\ gen.payload_length_counter = 1))
  /\ gen'.seed = (/\ gen.seed \/ Goes("gen_seed", "chk_seed")
                  /\ ~Goes("gen_start", "chk_start"))
  /\ ~Goes("infinite", "stop") =>
       gen'.infinite_payload_length = gen.infinite_payload_length
  /\ gen'.payload_length_counter =
       IF Goes("gen_payload", "chk_payload") THEN sw'.length
       ELSE IF sent(ready) /\ ~gen.infinite_payload_length
            THEN (gen.payload_length_counter - 1) % LENGTH_WRAP
            ELSE gen.payload_length_counter
  /\ gen'.pipeline_enable_d1 = sent(ready)
  /\ gen'.pipeline_d1 = IF sent(ready) THEN gen.pipeline ELSE gen.pipeline_d1

CheckerMoves(word) ==
  /\ chk'.start = (/\ chk.start \/ Goes("chk_start", "poll")
                   /\ ~Checker!clear_start)
  /\ chk'.seed = (/\ chk.seed \/ Goes("chk_seed", "gen_payload")
                  /\ ~Goes("chk_start", "poll"))
  /\ ~Goes("infinite", "stop") =>
       chk'.infinite_payload_length = chk.infinite_payload_length
  /\ chk'.failure_detected = (Checker!set_failure_detected \/ chk.failure_detected)
  /\ chk'.payload_length_counter =
       IF Goes("chk_payload", "gen_start") THEN sw.length
       ELSE IF taken(word) /\ ~chk.infinite_payload_length
            THEN (chk.payload_length_counter - 1) % LENGTH_WRAP
            ELSE chk.payload_length_counter
  /\ chk'.pipeline_enable_d1 = taken(word)
  /\ chk'.pipeline_enable_d2 = chk.pipeline_enable_d1
  /\ chk'.pipeline_d1 = IF taken(word) THEN chk.pipeline ELSE chk.pipeline_d1
  /\ chk'.data_in_d1 = IF taken(word) THEN word ELSE chk.data_in_d1
  /\ chk'.data_compare_d1 = IF chk.pipeline_enable_d1 THEN Checker!data_compare
                            ELSE chk.data_compare_d1

WordsMove(ready, word) ==
  /\ NextWord(gen)' = IF Goes("gen_seed", "chk_seed") THEN SEED_VALUE
                      ELSE IF sent(ready) THEN pipeline_input(NextWord(gen)) ELSE NextWord(gen)
  /\ NextWord(chk)' = IF Goes("chk_seed", "gen_payload") THEN SEED_VALUE
                      ELSE IF taken(word) THEN pipeline_input(NextWord(chk)) ELSE NextWord(chk)
  /\ channel' = (IF taken(word) THEN Tail(channel) ELSE channel) \o Leaving
  /\ corrupted' = (corrupted \/ (taken(word) /\ word # Head(channel)))

LEMMA RegistersMove ==
  ASSUME IInv, NEW ready \in BOOLEAN, NEW word \in Words \cup {NoWord},
         NEW gen_write, NEW chk_write, Moves(gen_write, chk_write),
         Hardware(ready, word, gen_write, chk_write)
  PROVE  /\ GeneratorMoves(ready) /\ CheckerMoves(word) /\ WordsMove(ready, word)
         /\ gen.infinite_payload_length = chk.infinite_payload_length =>
              gen'.infinite_payload_length = chk'.infinite_payload_length
<1>1. gen \in GeneratorType /\ chk \in CheckerType /\ sw \in SwType
  BY SamePort DEF IInv, TypeOK, SwType
<1>2. Generator!Clock(gen_write, ready) /\ Checker!Clock(chk_write, word)
  BY DEF Hardware
<1>3. /\ Load(gen_write, "start", gen.start) = (gen.start \/ Goes("gen_start", "chk_start"))
      /\ Load(chk_write, "start", chk.start) = (chk.start \/ Goes("chk_start", "poll"))
  <2>1. /\ gen_write.reg = "start" <=> Goes("gen_start", "chk_start")
        /\ chk_write.reg = "start" <=> Goes("chk_start", "poll")
    BY <1>1 DEF Moves, Goes, Write, NoWrite, SwType
  <2>2. /\ Goes("gen_start", "chk_start") => gen_write = Write("start", TRUE)
        /\ Goes("chk_start", "poll") => chk_write = Write("start", TRUE)
    BY <1>1 DEF Moves, Goes, SwType
  <2>3. /\ Goes("gen_start", "chk_start") => gen_write.value = TRUE
        /\ Goes("chk_start", "poll") => chk_write.value = TRUE
    BY <2>2 DEF Write
  <2>4. gen.start \in BOOLEAN /\ chk.start \in BOOLEAN
    BY <1>1 DEF GeneratorType, CheckerType
  <2> QED
    BY <2>1, <2>3, <2>4 DEF Load
<1>4. /\ Seeded(gen_write, gen.seed) = (/\ gen.seed \/ Goes("gen_seed", "chk_seed")
                                        /\ ~Goes("gen_start", "chk_start"))
      /\ Seeded(chk_write, chk.seed) = (/\ chk.seed \/ Goes("chk_seed", "gen_payload")
                                        /\ ~Goes("chk_start", "poll"))
  <2>1. /\ gen_write.reg = "start" <=> Goes("gen_start", "chk_start")
        /\ chk_write.reg = "start" <=> Goes("chk_start", "poll")
        /\ gen_write.reg = "seed" <=> Goes("gen_seed", "chk_seed")
        /\ chk_write.reg = "seed" <=> Goes("chk_seed", "gen_payload")
    BY <1>1 DEF Moves, Goes, Write, NoWrite, SwType
  <2>2. /\ Goes("gen_seed", "chk_seed") => gen_write = Write("seed", TRUE)
        /\ Goes("chk_seed", "gen_payload") => chk_write = Write("seed", TRUE)
    BY <1>1 DEF Moves, Goes, SwType
  <2>3. /\ Goes("gen_seed", "chk_seed") => gen_write.value = TRUE
        /\ Goes("chk_seed", "gen_payload") => chk_write.value = TRUE
    BY <2>2 DEF Write
  <2>4. gen.seed \in BOOLEAN /\ chk.seed \in BOOLEAN
    BY <1>1 DEF GeneratorType, CheckerType
  <2>5. /\ ~(Goes("gen_seed", "chk_seed") /\ Goes("gen_start", "chk_start"))
        /\ ~(Goes("chk_seed", "gen_payload") /\ Goes("chk_start", "poll"))
    BY DEF Goes
  <2> QED
    BY <2>1, <2>3, <2>4, <2>5 DEF Load, Seeded
<1>5. /\ ~Goes("infinite", "stop") =>
           /\ Load(gen_write, "infinite_payload_length", gen.infinite_payload_length)
                = gen.infinite_payload_length
           /\ Load(chk_write, "infinite_payload_length", chk.infinite_payload_length)
                = chk.infinite_payload_length
      /\ Goes("infinite", "stop") => gen_write = chk_write
  BY <1>1 DEF Moves, Goes, Load, Write, NoWrite, SwType
<1>6. /\ (gen_write.reg = "payload_length") = Goes("gen_payload", "chk_payload")
      /\ Load(gen_write, "payload_length", gen.payload_length_counter) =
           IF Goes("gen_payload", "chk_payload") THEN sw'.length ELSE gen.payload_length_counter
      /\ (chk_write.reg = "payload_length") = Goes("chk_payload", "gen_start")
      /\ Load(chk_write, "payload_length", chk.payload_length_counter) =
           IF Goes("chk_payload", "gen_start") THEN sw.length ELSE chk.payload_length_counter
  BY <1>1 DEF Moves, Goes, Load, Write, NoWrite, SwType
<1>7. GeneratorMoves(ready)
  <2>1. /\ gen'.start = (~Generator!clear_start(ready) /\ Load(gen_write, "start", gen.start))
        /\ gen'.seed = Seeded(gen_write, gen.seed)
    BY <1>2, GeneratorClock
  <2>2. gen'.infinite_payload_length =
          Load(gen_write, "infinite_payload_length", gen.infinite_payload_length)
    BY <1>2, GeneratorClock
  <2>3. gen'.payload_length_counter =
          IF gen_write.reg # "payload_length"
               /\ Generator!decrement_payload_length_counter(ready)
          THEN (gen.payload_length_counter - 1) % LENGTH_WRAP
          ELSE Load(gen_write, "payload_length", gen.payload_length_counter)
    BY <1>2, GeneratorClock
  <2>4. /\ gen'.pipeline_enable_d1 = sent(ready)
        /\ gen'.pipeline_d1 = IF sent(ready) THEN gen.pipeline ELSE gen.pipeline_d1
    BY <1>2, GeneratorClock DEF sent, Generator!pipeline_enable
  <2>5. Generator!clear_start(ready) <=>
          (/\ sent(ready) /\ ~gen.infinite_payload_length
           /\ gen.payload_length_counter = 1)
    BY DEF sent, Generator!clear_start, Generator!pipeline_enable
  <2>6. Generator!decrement_payload_length_counter(ready) <=>
          sent(ready) /\ ~gen.infinite_payload_length
    BY DEF sent, Generator!decrement_payload_length_counter
  <2>7. gen'.start = (/\ gen.start \/ Goes("gen_start", "chk_start")
                     /\ ~(/\ sent(ready) /\ ~gen.infinite_payload_length
                          /\ gen.payload_length_counter = 1))
    BY <2>1, <2>5, <1>3
  <2>8. gen'.payload_length_counter =
          IF Goes("gen_payload", "chk_payload") THEN sw'.length
          ELSE IF sent(ready) /\ ~gen.infinite_payload_length
               THEN (gen.payload_length_counter - 1) % LENGTH_WRAP
               ELSE gen.payload_length_counter
    BY <2>3, <2>6, <1>6
  <2> QED
    BY <2>1, <2>2, <2>4, <2>7, <2>8, <1>4, <1>5 DEF GeneratorMoves
<1>8. CheckerMoves(word)
  <2>1. /\ chk'.start = (~Checker!clear_start /\ Load(chk_write, "start", chk.start))
        /\ chk'.seed = Seeded(chk_write, chk.seed)
    BY <1>2, CheckerClock
  <2>2. /\ chk'.infinite_payload_length =
             Load(chk_write, "infinite_payload_length", chk.infinite_payload_length)
        /\ chk'.failure_detected = (Checker!set_failure_detected \/ chk.failure_detected)
    BY <1>2, CheckerClock
  <2>3. chk'.payload_length_counter =
          IF chk_write.reg # "payload_length"
               /\ Checker!decrement_payload_length_counter(word)
          THEN (chk.payload_length_counter - 1) % LENGTH_WRAP
          ELSE Load(chk_write, "payload_length", chk.payload_length_counter)
    BY <1>2, CheckerClock
  <2>4. /\ chk'.pipeline_enable_d1 = taken(word)
        /\ chk'.pipeline_enable_d2 = chk.pipeline_enable_d1
        /\ chk'.pipeline_d1 = IF taken(word) THEN chk.pipeline ELSE chk.pipeline_d1
        /\ chk'.data_in_d1 = IF taken(word) THEN word ELSE chk.data_in_d1
        /\ chk'.data_compare_d1 = IF chk.pipeline_enable_d1 THEN Checker!data_compare
                                  ELSE chk.data_compare_d1
    BY <1>2, CheckerClock DEF taken, Checker!pipeline_enable
  <2>5. Checker!decrement_payload_length_counter(word) <=>
          taken(word) /\ ~chk.infinite_payload_length
    BY DEF taken, Checker!decrement_payload_length_counter, Checker!pipeline_enable
  <2>6. chk'.start = (/\ chk.start \/ Goes("chk_start", "poll")
                     /\ ~Checker!clear_start)
    BY <2>1, <1>3
  <2>7. chk'.payload_length_counter =
          IF Goes("chk_payload", "gen_start") THEN sw.length
          ELSE IF taken(word) /\ ~chk.infinite_payload_length
               THEN (chk.payload_length_counter - 1) % LENGTH_WRAP
               ELSE chk.payload_length_counter
    BY <2>3, <2>5, <1>6
  <2> QED
    BY <2>1, <2>2, <2>4, <2>6, <2>7, <1>4, <1>5 DEF CheckerMoves
<1>9. WordsMove(ready, word)
  <2>1. /\ gen'.seed = (/\ gen.seed \/ Goes("gen_seed", "chk_seed")
                        /\ ~Goes("gen_start", "chk_start"))
        /\ chk'.seed = (/\ chk.seed \/ Goes("chk_seed", "gen_payload")
                        /\ ~Goes("chk_start", "poll"))
    BY <1>7, <1>8 DEF GeneratorMoves, CheckerMoves
  <2>2. /\ gen'.pipeline = IF gen.seed THEN SEED_VALUE
                           ELSE IF sent(ready) THEN pipeline_input(gen.pipeline) ELSE gen.pipeline
        /\ chk'.pipeline = IF chk.seed THEN SEED_VALUE
                           ELSE IF taken(word) THEN pipeline_input(chk.pipeline) ELSE chk.pipeline
    BY <1>2, GeneratorClock, CheckerClock
       DEF Pipeline, sent, taken, Generator!pipeline_enable, Checker!pipeline_enable
  <2>3. /\ gen.seed => ~sent(ready)
        /\ chk.seed => ~taken(word)
    BY DEF IInv, Seeds, sent, taken
  <2>4. NextWord(gen)' = IF Goes("gen_seed", "chk_seed") THEN SEED_VALUE
                      ELSE IF sent(ready) THEN pipeline_input(NextWord(gen)) ELSE NextWord(gen)
    <3>1. ~(Goes("gen_seed", "chk_seed") /\ Goes("gen_start", "chk_start"))
      BY DEF Goes
    <3> QED
      BY <2>1, <2>2, <2>3, <3>1 DEF NextWord
  <2>5. NextWord(chk)' = IF Goes("chk_seed", "gen_payload") THEN SEED_VALUE
                      ELSE IF taken(word) THEN pipeline_input(NextWord(chk)) ELSE NextWord(chk)
    <3>1. ~(Goes("chk_seed", "gen_payload") /\ Goes("chk_start", "poll"))
      BY DEF Goes
    <3> QED
      BY <2>1, <2>2, <2>3, <3>1 DEF NextWord
  <2> QED
    BY <2>4, <2>5 DEF WordsMove, Hardware, taken, Checker!pipeline_enable
<1>10. gen.infinite_payload_length = chk.infinite_payload_length =>
         gen'.infinite_payload_length = chk'.infinite_payload_length
  <2>1. gen'.infinite_payload_length =
          Load(gen_write, "infinite_payload_length", gen.infinite_payload_length)
    BY <1>2, GeneratorClock
  <2>2. chk'.infinite_payload_length =
          Load(chk_write, "infinite_payload_length", chk.infinite_payload_length)
    BY <1>2, CheckerClock
  <2> QED
    BY <2>1, <2>2, <1>5 DEF Load
<1> QED
  BY <1>7, <1>8, <1>9, <1>10

-----------------------------------------------------------------------------
(* One lemma for each part of the invariant that a clock could disturb. *)
AClock(ready, word) ==
  /\ IInv /\ TypeOK'
  /\ \E gen_write, chk_write : Moves(gen_write, chk_write)
  /\ GeneratorMoves(ready) /\ CheckerMoves(word) /\ WordsMove(ready, word)
  /\ gen'.infinite_payload_length = chk'.infinite_payload_length

(* The registers the proofs below do arithmetic and case splits with. *)
LEMMA Types ==
  ASSUME TypeOK
  PROVE  /\ gen \in GeneratorType /\ chk \in CheckerType /\ sw \in SwType
         /\ channel \in Seq(Words) /\ corrupted \in BOOLEAN
         /\ Leaving = IF gen.pipeline_enable_d1 THEN <<gen.pipeline_d1>> ELSE <<>>
BY SamePort DEF TypeOK, SwType, Leaving, Generator!src_valid, Generator!src_data

(* A word is taken only when there is one. *)
LEMMA TakenIsThere ==
  ASSUME NEW word \in Offers, taken(word)
  PROVE  channel # <<>> /\ word \in Words
BY DEF Offers, taken

(* The seed of a core is cleared by starting it. *)
LEMMA SeedsKept ==
  ASSUME NEW ready \in BOOLEAN, NEW word \in Offers, AClock(ready, word)
  PROVE  Seeds'
<1>1. /\ gen \in GeneratorType /\ chk \in CheckerType
  BY Types DEF AClock, IInv
<1>2. Seeds /\ Phases
  BY DEF AClock, IInv
<1>3. /\ gen'.start => gen.start \/ Goes("gen_start", "chk_start")
      /\ gen'.seed <=> (gen.seed \/ Goes("gen_seed", "chk_seed"))
                          /\ ~Goes("gen_start", "chk_start")
      /\ chk'.start => chk.start \/ Goes("chk_start", "poll")
      /\ chk'.seed <=> (chk.seed \/ Goes("chk_seed", "gen_payload"))
                          /\ ~Goes("chk_start", "poll")
  BY DEF AClock, GeneratorMoves, CheckerMoves
<1>4. sw.pc \in {"gen_seed", "chk_seed"} => ~gen.start /\ ~chk.start
  BY <1>2 DEF Phases, SetUp, Quiet
<1>5. gen'.start => ~gen'.seed
  BY <1>2, <1>3, <1>4 DEF Seeds, Goes
<1>6. chk'.start => ~chk'.seed
  BY <1>2, <1>3, <1>4 DEF Seeds, Goes
<1>7. sw'.pc = "chk_seed" => gen'.seed
  <2>1. sw'.pc = "chk_seed" => Goes("gen_seed", "chk_seed") \/ sw.pc = "chk_seed"
    BY DEF AClock, Moves, Goes
  <2> QED
    BY <1>2, <1>3, <2>1 DEF Seeds, Goes
<1> QED
  BY <1>5, <1>6, <1>7 DEF Seeds

(* A checker asked for its failure flag has nothing left to do. *)
LEMMA JudgedIsQuiet ==
  ASSUME IInv, sw.pc = "judge", ~chk.failure_detected
  PROVE  Quiet /\ ~corrupted /\ chk.payload_length_counter = 0
<1>1. /\ gen \in GeneratorType /\ chk \in CheckerType /\ channel \in Seq(Words)
      /\ corrupted \in BOOLEAN
  BY Types DEF IInv
<1>2. ~chk.start /\ Complete /\ ~chk.pipeline_enable_d2
  BY DEF IInv, Stopped
<1>3. ~gen.infinite_payload_length /\ chk.payload_length_counter = 0
  BY <1>2 DEF Complete, IInv, Counted
<1>4. 0 = Len(channel) + AtGenerator + Remaining
  BY <1>3 DEF IInv, Counted
<1>5. Len(channel) = 0 /\ AtGenerator = 0 /\ Remaining = 0
  <2>1. Len(channel) \in Nat /\ AtGenerator \in Nat /\ Remaining \in Nat
    BY <1>1, PrbsAssumption DEF AtGenerator, Remaining, GeneratorType
  <2> QED
    BY <1>4, <2>1
<1>6. channel = <<>> /\ ~gen.pipeline_enable_d1
  BY <1>1, <1>5 DEF AtGenerator
<1>7. ~gen.start
  BY <1>3, <1>5 DEF IInv, Counted, Remaining
<1>8. ~corrupted
  BY <1>1, <1>2 DEF IInv, Alarm, Complete
<1> QED
  BY <1>2, <1>3, <1>6, <1>7, <1>8 DEF Quiet

(* What is quiet stays quiet until the software starts a core. *)
LEMMA QuietStays ==
  ASSUME NEW ready \in BOOLEAN, NEW word \in Offers, AClock(ready, word), Quiet
  PROVE  /\ ~sent(ready) /\ ~taken(word) /\ channel' = <<>> /\ ~gen'.pipeline_enable_d1
         /\ gen'.start => Goes("gen_start", "chk_start")
         /\ chk'.start => Goes("chk_start", "poll")
         /\ corrupted' = corrupted
<1>1. /\ gen \in GeneratorType /\ chk \in CheckerType /\ corrupted \in BOOLEAN
      /\ Leaving = IF gen.pipeline_enable_d1 THEN <<gen.pipeline_d1>> ELSE <<>>
  BY Types DEF AClock, IInv
<1>2. ~sent(ready) /\ ~taken(word)
  BY DEF Quiet, sent, taken
<1>3. Leaving = <<>> /\ channel = <<>>
  BY <1>1 DEF Quiet
<1>4. channel' = <<>> /\ corrupted' = corrupted
  BY <1>1, <1>2, <1>3 DEF AClock, WordsMove
<1>5. /\ gen'.pipeline_enable_d1 = sent(ready)
      /\ gen'.start => gen.start \/ Goes("gen_start", "chk_start")
      /\ chk'.start => chk.start \/ Goes("chk_start", "poll")
  BY DEF AClock, GeneratorMoves, CheckerMoves
<1> QED
  BY <1>2, <1>4, <1>5 DEF Quiet

(* The software sets up a test only when nothing moves. *)
LEMMA PhasesKept ==
  ASSUME NEW ready \in BOOLEAN, NEW word \in Offers, AClock(ready, word)
  PROVE  Phases'
<1>1. /\ gen \in GeneratorType /\ chk \in CheckerType /\ sw \in SwType
  BY Types DEF AClock, IInv
<1>2. Phases /\ IInv
  BY DEF AClock, IInv
<1>3. ASSUME sw'.pc \in SetUp PROVE Quiet'
  <2>1. sw.pc \in SetUp \/ (sw.pc = "judge" /\ ~chk.failure_detected)
    BY <1>1, <1>3 DEF AClock, Moves, SetUp, SwType
  <2>2. Quiet
    BY <1>2, <2>1, JudgedIsQuiet DEF Phases
  <2>3. ~Goes("gen_start", "chk_start") /\ ~Goes("chk_start", "poll")
    BY <1>3 DEF Goes, SetUp
  <2> QED
    BY <2>2, <2>3, QuietStays DEF Quiet
<1>4. ASSUME sw'.pc = "chk_start" PROVE ~chk'.start
  <2>1. sw.pc \in {"gen_start", "chk_start"}
    BY <1>1, <1>4 DEF AClock, Moves, SwType
  <2>2. ~chk.start
    BY <1>2, <2>1 DEF Phases, SetUp, Quiet
  <2>3. chk'.start => chk.start \/ Goes("chk_start", "poll")
    BY DEF AClock, CheckerMoves
  <2> QED
    BY <1>4, <2>2, <2>3 DEF Goes
<1>5. ASSUME sw'.pc \in {"chk_payload", "gen_start"}
      PROVE  /\ sw'.length \in Payloads /\ gen'.payload_length_counter = sw'.length
             /\ sw'.pc = "gen_start" => chk'.payload_length_counter = sw'.length
  <2>1. CASE sw.pc = "gen_payload"
    <3>1. Goes("gen_payload", "chk_payload") /\ sw'.length \in Payloads
      BY <1>1, <1>5, <2>1 DEF AClock, Moves, Goes, SwType
    <3> QED
      BY <3>1 DEF AClock, GeneratorMoves, Goes
  <2>2. CASE sw.pc # "gen_payload"
    <3>1. /\ sw.pc \in {"chk_payload", "gen_start"} /\ sw'.length = sw.length
          /\ sw'.pc = "gen_start" => Goes("chk_payload", "gen_start") \/ sw.pc = "gen_start"
      BY <1>1, <1>5, <2>2 DEF AClock, Moves, Goes, SwType, Keep
    <3>2. /\ ~sent(ready) /\ ~taken(word) /\ sw.length \in Payloads
          /\ gen.payload_length_counter = sw.length
          /\ sw.pc = "gen_start" => chk.payload_length_counter = sw.length
      BY <1>2, <3>1 DEF Phases, SetUp, Quiet, sent, taken
    <3>3. gen'.payload_length_counter = gen.payload_length_counter
      BY <3>1, <3>2 DEF AClock, GeneratorMoves, Goes
    <3>4. chk'.payload_length_counter = IF Goes("chk_payload", "gen_start") THEN sw.length
                                        ELSE chk.payload_length_counter
      BY <3>2 DEF AClock, CheckerMoves
    <3> QED
      BY <3>1, <3>2, <3>3, <3>4
  <2> QED
    BY <2>1, <2>2
<1> QED
  BY <1>3, <1>4, <1>5 DEF Phases

(* Neither counter is taken below 0: what the checker counts is there. *)
LEMMA CountedKept ==
  ASSUME NEW ready \in BOOLEAN, NEW word \in Offers, AClock(ready, word), Phases'
  PROVE  Counted'
<1>1. /\ gen \in GeneratorType /\ chk \in CheckerType /\ sw \in SwType
      /\ channel \in Seq(Words)
      /\ Leaving = IF gen.pipeline_enable_d1 THEN <<gen.pipeline_d1>> ELSE <<>>
  BY Types DEF AClock, IInv
<1>2. Phases /\ Counted
  BY DEF AClock, IInv
<1>3. gen'.infinite_payload_length = chk'.infinite_payload_length
  BY DEF AClock
<1>4. gen.payload_length_counter \in 0..(LENGTH_WRAP - 1)
      /\ chk.payload_length_counter \in 0..(LENGTH_WRAP - 1) /\ LENGTH_WRAP \in Nat \ {0}
  BY <1>1, PrbsAssumption DEF GeneratorType, CheckerType
<1>5. \A n \in 1..(LENGTH_WRAP - 1) : (n - 1) % LENGTH_WRAP = n - 1
  BY <1>4
<1>6. sw.pc \notin SetUp =>
        /\ ~Goes("infinite", "stop") /\ ~Goes("gen_payload", "chk_payload")
        /\ ~Goes("chk_payload", "gen_start") /\ ~Goes("gen_start", "chk_start")
  BY DEF Goes, SetUp
<1>7. ASSUME gen'.start, ~gen'.infinite_payload_length PROVE gen'.payload_length_counter > 0
  <2>1. CASE Goes("gen_start", "chk_start")
    <3>1. ~sent(ready) /\ gen.payload_length_counter \in Payloads
      BY <1>2, <2>1 DEF Goes, Phases, SetUp, Quiet, sent
    <3>2. gen'.payload_length_counter = gen.payload_length_counter
      BY <2>1, <3>1 DEF AClock, GeneratorMoves, Goes
    <3>3. gen.payload_length_counter \in 1..(LENGTH_WRAP - 1)
      BY <3>1, PrbsTestAssumption
    <3> QED
      BY <1>4, <3>2, <3>3
  <2>2. CASE ~Goes("gen_start", "chk_start")
    <3>1. gen.start /\ ~(sent(ready) /\ ~gen.infinite_payload_length
                           /\ gen.payload_length_counter = 1)
      BY <1>7, <2>2 DEF AClock, GeneratorMoves
    <3>2. sw.pc \notin SetUp
      BY <1>2, <3>1 DEF Phases, Quiet
    <3>3. ~gen.infinite_payload_length
      BY <1>6, <1>7, <3>2 DEF AClock, GeneratorMoves
    <3>4. gen.payload_length_counter > 0
      BY <1>2, <3>1, <3>3 DEF Counted
    <3>5. gen'.payload_length_counter =
            IF sent(ready) THEN (gen.payload_length_counter - 1) % LENGTH_WRAP
            ELSE gen.payload_length_counter
      BY <1>6, <3>2, <3>3 DEF AClock, GeneratorMoves
    <3> QED
      BY <1>4, <1>5, <3>1, <3>3, <3>4, <3>5
  <2> QED
    BY <2>1, <2>2
<1>8. ASSUME ~gen'.infinite_payload_length, sw'.pc \in {"chk_start", "poll", "judge", "exit"}
      PROVE  chk'.payload_length_counter = Len(channel') + AtGenerator' + Remaining'
  <2>1. CASE sw.pc = "gen_start"
    <3>1. Goes("gen_start", "chk_start")
      BY <1>8, <2>1 DEF AClock, Moves, Goes
    <3>2. Quiet /\ gen.payload_length_counter = sw.length
          /\ chk.payload_length_counter = sw.length
      BY <1>2, <2>1 DEF Phases, SetUp
    <3>3. ~sent(ready) /\ ~taken(word) /\ channel' = <<>> /\ ~gen'.pipeline_enable_d1
      BY <3>2, QuietStays
    <3>4. gen'.payload_length_counter = sw.length /\ chk'.payload_length_counter = sw.length
      BY <3>1, <3>2, <3>3 DEF AClock, GeneratorMoves, CheckerMoves, Goes
    <3>5. gen'.start
      BY <3>1, <3>3 DEF AClock, GeneratorMoves
    <3>6. sw.length \in Nat
      BY <1>4, <3>2
    <3> QED
      BY <3>3, <3>4, <3>5, <3>6 DEF AtGenerator, Remaining
  <2>2. CASE sw.pc # "gen_start"
    <3>0. sw.pc \in {"chk_start", "poll", "judge", "exit"}
      <4>1. PICK gen_write, chk_write : Moves(gen_write, chk_write)
        BY DEF AClock
      <4>2. sw'.pc \in {"chk_start", "poll", "judge", "exit"}
        BY <1>8
      <4> QED
        BY <1>1, <2>2, <4>1, <4>2 DEF Moves, SwType
    <3>1. sw.pc \in {"chk_start", "poll", "judge", "exit"} /\ sw.pc \notin SetUp
      BY <3>0 DEF SetUp
    <3>2. ~gen.infinite_payload_length /\ ~chk.infinite_payload_length
      BY <1>2, <1>6, <1>8, <3>1 DEF AClock, GeneratorMoves, Counted
    <3>3. chk.payload_length_counter = Len(channel) + AtGenerator + Remaining
      BY <1>2, <3>1, <3>2 DEF Counted
    <3>4. Len(channel) \in Nat /\ AtGenerator \in 0..1 /\ Remaining \in Nat
          /\ Len(Leaving) = AtGenerator
      BY <1>1, <1>4 DEF AtGenerator, Remaining
    <3>5. chk'.payload_length_counter =
            IF taken(word) THEN chk.payload_length_counter - 1 ELSE chk.payload_length_counter
      <4>1. chk'.payload_length_counter =
              IF taken(word) THEN (chk.payload_length_counter - 1) % LENGTH_WRAP
              ELSE chk.payload_length_counter
        BY <1>6, <3>1, <3>2 DEF AClock, CheckerMoves
      <4>2. taken(word) => chk.payload_length_counter > 0
        BY <1>1, <3>3, <3>4, TakenIsThere
      <4> QED
        BY <1>4, <1>5, <4>1, <4>2
    <3>6. Len(channel') = (IF taken(word) THEN Len(channel) - 1 ELSE Len(channel)) + AtGenerator
      <4>1. CASE taken(word)
        <5>1. Tail(channel) \in Seq(Words) /\ Len(Tail(channel)) = Len(channel) - 1
          BY <1>1, <4>1, TakenIsThere
        <5>2. channel' = Tail(channel) \o Leaving
          BY <4>1 DEF AClock, WordsMove
        <5>3. Leaving \in Seq(Words)
          BY <1>1 DEF GeneratorType
        <5> QED
          BY <3>4, <4>1, <5>1, <5>2, <5>3
      <4>2. CASE ~taken(word)
        <5>1. channel' = channel \o Leaving /\ Leaving \in Seq(Words)
          BY <1>1, <4>2 DEF AClock, WordsMove, GeneratorType
        <5> QED
          BY <1>1, <3>4, <4>2, <5>1
      <4> QED
        BY <4>1, <4>2
    <3>7. AtGenerator' = IF sent(ready) THEN 1 ELSE 0
      BY DEF AClock, GeneratorMoves, AtGenerator
    <3>8. Remaining' = IF sent(ready) THEN Remaining - 1 ELSE Remaining
      <4>1. sent(ready) => gen.start
        BY DEF sent
      <4>2. gen'.start = (gen.start /\ ~(sent(ready) /\ gen.payload_length_counter = 1))
        BY <1>1, <1>6, <3>1, <3>2 DEF AClock, GeneratorMoves, GeneratorType
      <4>3. gen'.payload_length_counter =
              IF sent(ready) THEN (gen.payload_length_counter - 1) % LENGTH_WRAP
              ELSE gen.payload_length_counter
        BY <1>6, <3>1, <3>2 DEF AClock, GeneratorMoves
      <4>4. gen.start => gen.payload_length_counter > 0
        BY <1>2, <3>2 DEF Counted
      <4>5. CASE sent(ready)
        <5>1. gen.payload_length_counter \in 1..(LENGTH_WRAP - 1) /\ gen.start
          BY <1>4, <4>1, <4>4, <4>5
        <5>2. gen'.payload_length_counter = gen.payload_length_counter - 1
          BY <1>5, <4>3, <4>5, <5>1
        <5>3. gen'.start = (gen.payload_length_counter # 1)
          BY <4>2, <4>5, <5>1
        <5>4. Remaining = gen.payload_length_counter
          BY <5>1 DEF Remaining
        <5>5. CASE gen.payload_length_counter = 1
          <6>1. ~gen'.start
            BY <5>3, <5>5
          <6>2. Remaining' = 0
            BY <6>1 DEF Remaining
          <6> QED
            BY <4>5, <5>4, <5>5, <6>2
        <5>6. CASE gen.payload_length_counter # 1
          BY <4>5, <5>2, <5>3, <5>4, <5>6 DEF Remaining
        <5> QED
          BY <5>5, <5>6
      <4>6. CASE ~sent(ready)
        <5>1. gen'.start = gen.start
          BY <1>1, <4>2, <4>6 DEF GeneratorType
        <5> QED
          BY <4>3, <4>6, <5>1 DEF Remaining
      <4> QED
        BY <4>5, <4>6
    <3> DEFINE t == IF taken(word) THEN 1 ELSE 0
               s == IF sent(ready) THEN 1 ELSE 0
    <3>9. /\ chk'.payload_length_counter = chk.payload_length_counter - t
          /\ Len(channel') = Len(channel) - t + AtGenerator
          /\ AtGenerator' = s /\ Remaining' = Remaining - s
      BY <1>4, <3>4, <3>5, <3>6, <3>7, <3>8
    <3>10. t \in 0..1 /\ s \in 0..1
      OBVIOUS
    <3> HIDE DEF t, s
    <3> QED
      BY <3>3, <3>4, <3>9, <3>10
  <2> QED
    BY <2>1, <2>2
<1> QED
  BY <1>3, <1>7, <1>8 DEF Counted

(* The checker stops with its payload complete, or with the failure seen. *)
LEMMA StoppedKept ==
  ASSUME NEW ready \in BOOLEAN, NEW word \in Offers, AClock(ready, word)
  PROVE  Stopped'
<1>1. /\ gen \in GeneratorType /\ chk \in CheckerType /\ sw \in SwType
      /\ channel \in Seq(Words)
  BY Types DEF AClock, IInv
<1>2. Stopped /\ Counted /\ Phases
  BY DEF AClock, IInv
<1>3. /\ chk'.failure_detected = (Checker!set_failure_detected \/ chk.failure_detected)
      /\ chk'.pipeline_enable_d1 = taken(word)
      /\ chk'.pipeline_enable_d2 = chk.pipeline_enable_d1
      /\ chk'.start = ((chk.start \/ Goes("chk_start", "poll")) /\ ~Checker!clear_start)
  BY DEF AClock, CheckerMoves
<1>4. ASSUME sw'.pc \in {"poll", "judge"}, ~chk'.start
      PROVE  chk'.failure_detected \/ Complete'
  <2>1. sw.pc \in {"chk_start", "poll", "judge"}
    BY <1>1, <1>4 DEF AClock, Moves, SwType
  <2>2. sw.pc # "chk_start"
    <3>1. ASSUME sw.pc = "chk_start" PROVE FALSE
      <4>1. Goes("chk_start", "poll") /\ ~chk.start
        BY <1>2, <1>4, <3>1 DEF AClock, Moves, Goes, Phases
      <4> QED
        BY <1>3, <1>4, <4>1 DEF Checker!clear_start
    <3> QED
      BY <3>1
  <2>3. ~Goes("infinite", "stop") /\ ~Goes("chk_payload", "gen_start")
    BY <2>1 DEF Goes
  <2>4. chk'.infinite_payload_length = chk.infinite_payload_length
    BY <2>3 DEF AClock, CheckerMoves
  <2>5. ~taken(word) => chk'.payload_length_counter = chk.payload_length_counter
    BY <2>3 DEF AClock, CheckerMoves
  <2>6. CASE ~chk.start
    <3>1. chk.failure_detected \/ Complete
      BY <1>2, <2>1, <2>2, <2>6 DEF Stopped
    <3>2. ~taken(word)
      BY <2>6 DEF taken
    <3> QED
      BY <1>3, <2>4, <2>5, <3>1, <3>2 DEF Complete
  <2>7. CASE chk.start
    <3>1. \/ chk.failure_detected
          \/ ~chk.infinite_payload_length /\ chk.payload_length_counter = 0
      BY <1>3, <1>4, <2>7 DEF Checker!clear_start
    <3>2. CASE ~chk.infinite_payload_length /\ chk.payload_length_counter = 0
      <4>1. 0 = Len(channel) + AtGenerator + Remaining
        BY <1>2, <2>1, <3>2 DEF Counted
      <4>2. Len(channel) \in Nat /\ AtGenerator \in Nat /\ Remaining \in Nat
        BY <1>1, PrbsAssumption DEF AtGenerator, Remaining, GeneratorType
      <4>3. channel = <<>>
        BY <1>1, <4>1, <4>2
      <4>4. ~taken(word)
        BY <4>3, TakenIsThere
      <4> QED
        BY <1>3, <2>4, <2>5, <3>2, <4>4 DEF Complete
    <3> QED
      BY <1>3, <3>1, <3>2
  <2> QED
    BY <1>1, <2>6, <2>7 DEF CheckerType
<1>5. ASSUME sw'.pc = "judge"
      PROVE  /\ ~chk'.start /\ ~chk'.pipeline_enable_d1
             /\ chk'.failure_detected \/ ~chk'.pipeline_enable_d2
  <2>1. sw.pc \in {"poll", "judge"} /\ ~chk.start
    BY <1>1, <1>2, <1>5 DEF AClock, Moves, SwType, Stopped
  <2>2. chk.failure_detected \/ ~chk.pipeline_enable_d1
    BY <1>2, <2>1 DEF Stopped, Complete
  <2>3. ~taken(word) /\ ~Goes("chk_start", "poll")
    BY <2>1 DEF taken, Goes
  <2> QED
    BY <1>3, <2>1, <2>2, <2>3
<1> QED
  BY <1>4, <1>5 DEF Stopped

(* A wrong word goes through the comparison into the failure flag. *)
LEMMA AlarmKept ==
  ASSUME NEW ready \in BOOLEAN, NEW word \in Offers, AClock(ready, word)
  PROVE  Alarm'
<1>1. /\ chk \in CheckerType /\ corrupted \in BOOLEAN /\ sw \in SwType
  BY Types DEF AClock, IInv
<1>2. Alarm /\ Chained /\ Seeds /\ Phases
  BY DEF AClock, IInv
<1>3. /\ chk'.failure_detected = (Checker!set_failure_detected \/ chk.failure_detected)
      /\ chk'.pipeline_enable_d1 = taken(word)
      /\ chk'.pipeline_enable_d2 = chk.pipeline_enable_d1
      /\ chk'.pipeline_d1 = IF taken(word) THEN chk.pipeline ELSE chk.pipeline_d1
      /\ chk'.data_in_d1 = IF taken(word) THEN word ELSE chk.data_in_d1
      /\ chk'.data_compare_d1 = IF chk.pipeline_enable_d1 THEN Checker!data_compare
                                ELSE chk.data_compare_d1
  BY DEF AClock, CheckerMoves
<1>4. corrupted' = (corrupted \/ (taken(word) /\ word # Head(channel)))
  BY DEF AClock, WordsMove
<1>5. taken(word) => Head(channel) = chk.pipeline
  <2>1. SUFFICES ASSUME taken(word) PROVE Head(channel) = chk.pipeline
    OBVIOUS
  <2>2. chk.start /\ ~chk.seed /\ sw.pc # "chk_seed"
    BY <1>2, <2>1 DEF taken, Seeds, Phases, SetUp, Quiet
  <2>3. channel # <<>> /\ Head(channel) = channel[1]
    BY <2>1, TakenIsThere
  <2> QED
    BY <1>2, <2>2, <2>3 DEF Chained, Chain, NextWord
<1>6. chk'.failure_detected <=>
        chk.failure_detected \/ (chk.pipeline_enable_d2 /\ ~chk.data_compare_d1)
  BY <1>1, <1>3 DEF Checker!set_failure_detected, CheckerType
<1>7. chk'.pipeline_enable_d2 /\ ~chk'.data_compare_d1 <=>
        chk.pipeline_enable_d1 /\ chk.data_in_d1 # chk.pipeline_d1
  BY <1>1, <1>3 DEF Checker!data_compare, CheckerType
<1>8. chk'.pipeline_enable_d1 /\ chk'.data_in_d1 # chk'.pipeline_d1 <=>
        taken(word) /\ word # chk.pipeline
  BY <1>3
<1>9. corrupted <=> (\/ chk.failure_detected
                     \/ chk.pipeline_enable_d2 /\ ~chk.data_compare_d1
                     \/ chk.pipeline_enable_d1 /\ chk.data_in_d1 # chk.pipeline_d1)
  BY <1>2 DEF Alarm
<1>10. corrupted' <=> (\/ chk'.failure_detected
                       \/ chk'.pipeline_enable_d2 /\ ~chk'.data_compare_d1
                       \/ chk'.pipeline_enable_d1 /\ chk'.data_in_d1 # chk'.pipeline_d1)
  BY <1>4, <1>5, <1>6, <1>7, <1>8, <1>9
<1>11. corrupted' \in BOOLEAN /\ chk' \in CheckerType
  BY SamePortNext DEF AClock, TypeOK
<1> QED
  BY <1>10, <1>11 DEF Alarm, CheckerType

(* The software draws its verdict when nothing is left to compare. *)
LEMMA VerdictsKept ==
  ASSUME NEW ready \in BOOLEAN, NEW word \in Offers, AClock(ready, word)
  PROVE  Verdicts'
<1>1. /\ chk \in CheckerType /\ sw \in SwType /\ corrupted \in BOOLEAN
  BY Types DEF AClock, IInv
<1>2. Verdicts /\ Alarm /\ Phases /\ IInv
  BY DEF AClock, IInv
<1>3. PICK gen_write, chk_write : Moves(gen_write, chk_write)
  BY DEF AClock
<1>4. corrupted => corrupted'
  BY DEF AClock, WordsMove
<1>5. ASSUME sw'.verdict = "error" PROVE corrupted'
  <2>1. sw.verdict = "error" \/ (sw.pc = "judge" /\ chk.failure_detected)
    BY <1>1, <1>3, <1>5 DEF Moves, Keep, SwType
  <2> QED
    BY <1>2, <1>4, <2>1 DEF Verdicts, Alarm
<1>6. ASSUME sw'.verdict = "pass"
      PROVE  /\ sw'.pc \in {"gen_seed", "chk_seed", "gen_payload", "exit"}
             /\ Quiet' /\ ~corrupted' /\ chk'.payload_length_counter = 0
  <2>1. \/ sw.verdict = "pass" /\ sw.pc \in {"gen_seed", "chk_seed", "gen_payload", "exit"}
        \/ sw.pc = "judge" /\ ~chk.failure_detected
    BY <1>1, <1>2, <1>3, <1>6 DEF Moves, Keep, SwType, Verdicts
  <2>2. sw'.pc \in {"gen_seed", "chk_seed", "gen_payload", "exit"}
    <3>1. CASE sw.verdict = "pass" /\ sw.pc \in {"gen_seed", "chk_seed", "gen_payload", "exit"}
      BY <1>3, <1>6, <3>1 DEF Moves, Keep
    <3>2. CASE sw.pc = "judge" /\ ~chk.failure_detected
      BY <1>1, <1>2, <1>3, <1>6, <3>2 DEF Moves, Verdicts
    <3> QED
      BY <2>1, <3>1, <3>2
  <2>3. Quiet /\ ~corrupted /\ chk.payload_length_counter = 0
    BY <1>2, <2>1, JudgedIsQuiet DEF Verdicts
  <2>4. ~Goes("gen_start", "chk_start") /\ ~Goes("chk_start", "poll")
        /\ ~Goes("chk_payload", "gen_start")
    BY <2>2 DEF Goes
  <2>5. Quiet' /\ ~corrupted' /\ ~taken(word)
    BY <2>3, <2>4, QuietStays DEF Quiet
  <2>6. chk'.payload_length_counter = 0
    BY <2>3, <2>4, <2>5 DEF AClock, CheckerMoves
  <2> QED
    BY <2>2, <2>5, <2>6
<1> QED
  BY <1>5, <1>6 DEF Verdicts

(* The words on their way are still in line after one is taken. *)
LEMMA ChainedKept ==
  ASSUME NEW ready \in BOOLEAN, NEW word \in Offers, AClock(ready, word)
  PROVE  Chained'
<1>1. /\ gen \in GeneratorType /\ chk \in CheckerType /\ sw \in SwType
      /\ channel \in Seq(Words)
      /\ Leaving = IF gen.pipeline_enable_d1 THEN <<gen.pipeline_d1>> ELSE <<>>
  BY Types DEF AClock, IInv
<1>2. Chained /\ Seeds /\ Phases
  BY DEF AClock, IInv
<1>3. /\ gen'.pipeline_enable_d1 = sent(ready)
      /\ gen'.pipeline_d1 = IF sent(ready) THEN gen.pipeline ELSE gen.pipeline_d1
  BY DEF AClock, GeneratorMoves
<1>4. /\ NextWord(gen)' = IF Goes("gen_seed", "chk_seed") THEN SEED_VALUE
                          ELSE IF sent(ready) THEN pipeline_input(NextWord(gen)) ELSE NextWord(gen)
      /\ NextWord(chk)' = IF Goes("chk_seed", "gen_payload") THEN SEED_VALUE
                          ELSE IF taken(word) THEN pipeline_input(NextWord(chk)) ELSE NextWord(chk)
      /\ channel' = (IF taken(word) THEN Tail(channel) ELSE channel) \o Leaving
  BY DEF AClock, WordsMove
<1>5. SUFFICES ASSUME sw'.pc # "chk_seed" PROVE Chain'
  BY DEF Chained
<1>6. CASE sw.pc = "chk_seed"
  <2>1. Goes("chk_seed", "gen_payload") /\ ~Goes("gen_seed", "chk_seed") /\ Quiet /\ gen.seed
    BY <1>2, <1>5, <1>6 DEF AClock, Moves, Goes, Phases, SetUp, Seeds
  <2>2. ~sent(ready) /\ channel' = <<>> /\ ~gen'.pipeline_enable_d1
    BY <2>1, QuietStays
  <2>3. NextWord(chk)' = SEED_VALUE /\ NextWord(gen)' = SEED_VALUE
    BY <1>4, <2>1, <2>2 DEF NextWord
  <2> QED
    BY <2>2, <2>3 DEF Chain, Following
<1>7. CASE sw.pc # "chk_seed"
  <2>1. ~Goes("gen_seed", "chk_seed") /\ ~Goes("chk_seed", "gen_payload") /\ Chain
    BY <1>2, <1>5, <1>7 DEF Goes, Chained
  <2> DEFINE first == NextWord(chk)'
             left  == IF taken(word) THEN Tail(channel) ELSE channel
  <2>2. /\ first = IF taken(word) THEN pipeline_input(NextWord(chk)) ELSE NextWord(chk)
        /\ NextWord(gen)' = IF sent(ready) THEN pipeline_input(NextWord(gen)) ELSE NextWord(gen)
    BY <1>4, <2>1
  <2>3. /\ left \in Seq(Words)
        /\ left # <<>> => left[1] = first
        /\ \A i \in 1..(Len(left) - 1) : left[i + 1] = pipeline_input(left[i])
        /\ Following = IF left = <<>> THEN first ELSE pipeline_input(left[Len(left)])
    <3>1. CASE ~taken(word)
      BY <1>1, <2>1, <2>2, <3>1 DEF Chain, Following
    <3>2. CASE taken(word)
      <4>1. channel # <<>> /\ channel[1] = NextWord(chk)
        BY <2>1, <3>2, TakenIsThere DEF Chain
      <4>2. left = Tail(channel) /\ left \in Seq(Words) /\ Len(left) = Len(channel) - 1
            /\ \A i \in 1..Len(left) : left[i] = channel[i + 1]
        BY <1>1, <3>2, <4>1
      <4>3. first = pipeline_input(channel[1])
        BY <2>2, <3>2, <4>1
      <4>4. Following = pipeline_input(channel[Len(channel)])
        BY <4>1 DEF Following
      <4>5. \A i \in 1..(Len(channel) - 1) : channel[i + 1] = pipeline_input(channel[i])
        BY <2>1 DEF Chain
      <4> HIDE DEF left, first
      <4>6. Len(channel) \in Nat \ {0} /\ Len(left) \in Nat
        BY <1>1, <4>1, <4>2
      <4>7. left # <<>> => left[1] = first
        BY <4>2, <4>3, <4>5, <4>6
      <4>8. \A i \in 1..(Len(left) - 1) : left[i + 1] = pipeline_input(left[i])
        BY <4>2, <4>5, <4>6
      <4>9. Following = IF left = <<>> THEN first ELSE pipeline_input(left[Len(left)])
        <5>1. CASE left = <<>>
          <6>1. Len(left) = 0
            BY <5>1
          <6>2. Len(channel) = 1
            BY <4>2, <4>6, <6>1
          <6> QED
            BY <4>3, <4>4, <5>1, <6>2
        <5>2. CASE left # <<>>
          <6>1. Len(left) \in 1..Len(left) /\ Len(left) + 1 = Len(channel)
            BY <4>2, <4>6, <5>2
          <6> QED
            BY <4>2, <4>4, <5>2, <6>1
        <5> QED
          BY <5>1, <5>2
      <4> QED
        BY <4>2, <4>7, <4>8, <4>9
    <3> QED
      BY <3>1, <3>2
  <2>4. channel' = left \o Leaving
    BY <1>4
  <2> HIDE DEF left, first
  <2>5. /\ channel' # <<>> => channel'[1] = first
        /\ \A i \in 1..(Len(channel') - 1) : channel'[i + 1] = pipeline_input(channel'[i])
        /\ NextWord(gen) = IF channel' = <<>> THEN first
                           ELSE pipeline_input(channel'[Len(channel')])
    <3>1. CASE gen.pipeline_enable_d1
      <4> DEFINE w == gen.pipeline_d1
      <4>1. w = Following /\ w \in Words /\ NextWord(gen) = pipeline_input(w)
        BY <1>1, <2>1, <3>1 DEF Chain, GeneratorType
      <4> HIDE DEF w
      <4>2. channel' = Append(left, w)
        BY <1>1, <2>3, <2>4, <3>1, <4>1 DEF w
      <4>3. /\ Len(channel') = Len(left) + 1 /\ Len(left) \in Nat
            /\ channel'[Len(left) + 1] = w /\ channel' # <<>>
            /\ \A i \in 1..Len(left) : channel'[i] = left[i]
        BY <2>3, <4>1, <4>2
      <4>4. channel'[1] = first
        BY <2>3, <4>1, <4>3
      <4>5. ASSUME NEW i \in 1..(Len(channel') - 1)
            PROVE  channel'[i + 1] = pipeline_input(channel'[i])
        <5>1. CASE i < Len(left)
          BY <2>3, <4>3, <4>5, <5>1
        <5>2. CASE i = Len(left)
          BY <2>3, <4>1, <4>3, <4>5, <5>2
        <5> QED
          BY <4>3, <4>5, <5>1, <5>2
      <4> QED
        BY <4>1, <4>3, <4>4, <4>5
    <3>2. CASE ~gen.pipeline_enable_d1
      <4>1. channel' = left
        BY <1>1, <2>3, <2>4, <3>2
      <4>2. NextWord(gen) = Following
        BY <2>1, <3>2 DEF Chain
      <4> QED
        BY <2>3, <4>1, <4>2
    <3> QED
      BY <3>1, <3>2
  <2>6. NextWord(gen) = Following'
    BY <2>5 DEF Following, first
  <2>7. sent(ready) => gen.pipeline = NextWord(gen)
    BY <1>2 DEF sent, Seeds, NextWord
  <2> QED
    BY <1>3, <2>2, <2>5, <2>6, <2>7 DEF Chain, first
<1> QED
  BY <1>6, <1>7

-----------------------------------------------------------------------------
(* The invariant holds of the cores after reset. *)
LEMMA Initially == Init => IInv
<1>1. SUFFICES ASSUME Init PROVE IInv
  OBVIOUS
<1>2. /\ Generator!Zero = Zero /\ Checker!Zero = Zero /\ Zero \in Words
      /\ SEED_VALUE \in Words \ {Zero} /\ 0 \in 0..(LENGTH_WRAP - 1)
  BY PrbsAssumption DEF Generator!Zero, Checker!Zero, Zero, Generator!Bits, Checker!Bits, Bits, Words
<1>3. /\ gen = [start |-> FALSE, seed |-> FALSE, infinite_payload_length |-> FALSE,
                payload_length_counter |-> 0, pipeline |-> SEED_VALUE, pipeline_d1 |-> Zero,
                pipeline_enable_d1 |-> FALSE]
      /\ chk = [start |-> FALSE, seed |-> FALSE, infinite_payload_length |-> FALSE,
                stop_on_failure |-> FALSE, failure_detected |-> FALSE,
                payload_length_counter |-> 0, pipeline |-> SEED_VALUE, pipeline_d1 |-> Zero,
                pipeline_enable_d1 |-> FALSE, pipeline_enable_d2 |-> FALSE,
                data_in_d1 |-> Zero, data_compare_d1 |-> FALSE]
      /\ channel = <<>> /\ corrupted = FALSE
      /\ sw = [pc |-> "infinite", length |-> 0, counter |-> 0, verdict |-> "none"]
  BY <1>1, <1>2 DEF Init, Generator!Init, Checker!Init
<1>4. gen \in GeneratorType /\ chk \in CheckerType
  BY <1>2, <1>3 DEF GeneratorType, CheckerType
<1>5. Leaving = <<>>
  BY <1>3 DEF Leaving, Generator!src_valid
<1>6. TypeOK
  <2>1. sw \in SwType
    BY <1>3, PrbsTestAssumption DEF SwType
  <2>2. channel \in Seq(Words) /\ Len(channel) = 0 /\ Len(Leaving) = 0
    BY <1>3, <1>5
  <2>3. Len(channel) + Len(Leaving) <= CHANNEL_WORDS
    BY <2>2, PrbsTestAssumption
  <2>4. Generator!TypeOK /\ Checker!TypeOK /\ corrupted \in BOOLEAN
    BY <1>3, <1>4, SamePort
  <2> QED
    BY <2>1, <2>2, <2>3, <2>4 DEF TypeOK, SwType
<1>7. Chained /\ Seeds /\ Quiet
  BY <1>3 DEF Chained, Chain, Following, NextWord, Seeds, Quiet
<1>8. Phases /\ Counted /\ Stopped
  BY <1>3, <1>7 DEF Phases, Counted, Stopped
<1>9. Alarm /\ Verdicts
  BY <1>3 DEF Alarm, Verdicts
<1>10. Polls
  BY <1>3, PrbsTestAssumption DEF Polls
<1> QED
  BY <1>6, <1>7, <1>8, <1>9, <1>10 DEF IInv

(* And every clock keeps it. *)
LEMMA Kept == IInv /\ [Next]_vars => IInv'
<1>1. ASSUME IInv, UNCHANGED vars PROVE IInv'
  <2>1. /\ gen' = gen /\ chk' = chk /\ channel' = channel /\ sw' = sw /\ corrupted' = corrupted
    BY <1>1 DEF vars
  <2>2. TypeOK'
    BY <1>1, <2>1 DEF IInv, TypeOK, Generator!TypeOK, Checker!TypeOK, Leaving,
         Generator!src_valid, Generator!src_data
  <2> QED
    BY <1>1, <2>1, <2>2
       DEF IInv, Polls, Chained, Chain, Following, NextWord, Seeds, Phases, SetUp, Quiet, Counted,
           AtGenerator, Remaining, Stopped, Complete, Alarm, Verdicts
<1>2. ASSUME IInv, NEW ready \in BOOLEAN, NEW word \in Words \cup {NoWord}, Clock(ready, word)
      PROVE  IInv'
  <2>1. word \in Offers /\ (ready => MayAsk) /\ (Access(ready, word) \/ Compute(ready, word))
    BY <1>2 DEF Clock
  <2>2. PICK gen_write, chk_write :
          Hardware(ready, word, gen_write, chk_write) /\ Moves(gen_write, chk_write)
    BY <1>2, <2>1, SoftwareMoves DEF IInv
  <2>3. sw' \in SwType /\ Polls'
    BY <1>2, <2>1, SoftwareMoves DEF IInv
  <2>4. TypeOK'
    BY <1>2, <2>1, <2>2, <2>3, TypesKept DEF IInv, Phases
  <2>5. AClock(ready, word)
    BY <1>2, <2>2, <2>4, RegistersMove DEF AClock, IInv, Counted
  <2>6. Seeds' /\ Phases' /\ Stopped' /\ Alarm' /\ Verdicts' /\ Chained'
    BY <2>1, <2>5, SeedsKept, PhasesKept, StoppedKept, AlarmKept, VerdictsKept, ChainedKept
  <2>7. Counted'
    BY <2>1, <2>5, <2>6, CountedKept
  <2> QED
    BY <2>3, <2>4, <2>6, <2>7 DEF IInv
<1> QED
  BY <1>1, <1>2 DEF Next

(* The inductive invariant holds of every run. *)
THEOREM Inductive == Spec => []IInv
BY Initially, Kept, PTL DEF Spec

(***************************************************************************)
(* The registers keep their types; neither core ever holds the word 0, from*)
(* which its sequence would not go on.                                     *)
(***************************************************************************)
THEOREM TypesHold == Spec => []TypeOK
<1>1. IInv => TypeOK
  BY DEF IInv
<1> QED
  BY <1>1, Inductive, PTL

(***************************************************************************)
(* The software reports an error only when a word was wrong, and a pass    *)
(* only when every word of the payload has come back right.                *)
(***************************************************************************)
THEOREM VerdictHolds == Spec => []VerdictIsTrue
<1>1. IInv => VerdictIsTrue
  <2>1. SUFFICES ASSUME IInv PROVE VerdictIsTrue
    OBVIOUS
  <2>2. Leaving = IF gen.pipeline_enable_d1 THEN <<gen.pipeline_d1>> ELSE <<>>
    BY <2>1, Types DEF IInv
  <2>3. Quiet => InFlight = <<>>
    BY <2>2 DEF Quiet, InFlight
  <2> QED
    BY <2>1, <2>3 DEF IInv, Verdicts, VerdictIsTrue
<1> QED
  BY <1>1, Inductive, PTL

(***************************************************************************)
(* Generator and checker are at the same place of the same sequence, and   *)
(* what the checker still counts on is under way or to be sent.            *)
(***************************************************************************)
THEOREM CoresInStep == Spec => []InStep
<1>1. IInv => InStep
  <2>1. SUFFICES ASSUME IInv PROVE InStep
    OBVIOUS
  <2>2. /\ gen \in GeneratorType /\ channel \in Seq(Words)
        /\ Leaving = IF gen.pipeline_enable_d1 THEN <<gen.pipeline_d1>> ELSE <<>>
    BY <2>1, Types DEF IInv
  <2>3. InFlight \in Seq(Words) /\ Len(InFlight) = Len(channel) + AtGenerator
    BY <2>2 DEF InFlight, AtGenerator, GeneratorType
  <2>4. ASSUME sw.pc # "chk_seed"
        PROVE  LET line == InFlight \o <<NextWord(gen)>>
               IN  /\ line[1] = NextWord(chk)
                   /\ \A i \in DOMAIN InFlight : line[i + 1] = pipeline_input(line[i])
    <3>1. Chain
      BY <2>1, <2>4 DEF IInv, Chained
    <3> DEFINE n == NextWord(gen)
               line == InFlight \o <<n>>
    <3>2. n \in Words
      BY <2>2, PrbsAssumption DEF NextWord, GeneratorType
    <3>3. Len(channel) \in Nat /\ DOMAIN InFlight = 1..Len(InFlight)
      BY <2>2, <2>3
    <3>4. CASE ~gen.pipeline_enable_d1
      <4>1. InFlight = channel /\ n = Following
        BY <2>2, <3>1, <3>4 DEF InFlight, Chain
      <4> HIDE DEF n
      <4>2. /\ \A i \in 1..Len(channel) : line[i] = channel[i]
            /\ line[Len(channel) + 1] = n
        BY <2>2, <3>2, <4>1
      <4> HIDE DEF line
      <4>3. line[1] = NextWord(chk)
        BY <2>2, <3>1, <4>1, <4>2 DEF Chain, Following
      <4>4. ASSUME NEW i \in 1..Len(channel) PROVE line[i + 1] = pipeline_input(line[i])
        <5>1. CASE i < Len(channel)
          <6>1. i \in 1..(Len(channel) - 1) /\ i + 1 \in 1..Len(channel)
            BY <3>3, <5>1
          <6> QED
            BY <3>1, <4>2, <6>1 DEF Chain
        <5>2. CASE i = Len(channel)
          <6>1. channel # <<>>
            BY <5>2
          <6> QED
            BY <4>1, <4>2, <5>2, <6>1 DEF Following
        <5> QED
          BY <3>3, <5>1, <5>2
      <4> QED
        BY <3>3, <4>1, <4>3, <4>4 DEF line, n
    <3>5. CASE gen.pipeline_enable_d1
      <4> DEFINE w == gen.pipeline_d1
      <4>1. InFlight = channel \o <<w>> /\ w = Following /\ n = pipeline_input(w) /\ w \in Words
        BY <2>2, <3>1, <3>5 DEF InFlight, Chain, GeneratorType
      <4> HIDE DEF n, w
      <4>2. /\ \A i \in 1..Len(channel) : line[i] = channel[i]
            /\ line[Len(channel) + 1] = w /\ line[Len(channel) + 2] = n
            /\ Len(InFlight) = Len(channel) + 1
        BY <2>2, <3>2, <4>1
      <4> HIDE DEF line
      <4>3. line[1] = NextWord(chk)
        BY <2>2, <3>1, <4>1, <4>2 DEF Chain, Following
      <4>4. ASSUME NEW i \in 1..Len(InFlight) PROVE line[i + 1] = pipeline_input(line[i])
        <5>1. CASE i < Len(channel)
          <6>1. i \in 1..(Len(channel) - 1) /\ i + 1 \in 1..Len(channel)
            BY <3>3, <5>1
          <6> QED
            BY <3>1, <4>2, <6>1 DEF Chain
        <5>2. CASE i = Len(channel)
          <6>1. channel # <<>>
            BY <5>2
          <6> QED
            BY <4>1, <4>2, <5>2, <6>1 DEF Following
        <5>3. CASE i = Len(channel) + 1
          BY <3>3, <4>1, <4>2, <5>3
        <5> QED
          BY <3>3, <4>2, <5>1, <5>2, <5>3
      <4> QED
        BY <3>3, <4>3, <4>4 DEF line, n
    <3> QED
      BY <3>4, <3>5
  <2> QED
    BY <2>1, <2>3, <2>4 DEF IInv, Counted, InStep
<1> QED
  BY <1>1, Inductive, PTL
=============================================================================
