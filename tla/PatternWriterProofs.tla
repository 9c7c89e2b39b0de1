------------------------ MODULE PatternWriterProofs ------------------------
(***************************************************************************)
(* The write master of PatternWriter, for every burst length, FIFO depth,  *)
(* command sequence and payload: type correctness, and that no write is on *)
(* the bus without its data in the FIFO.  For commands that end in a whole *)
(* burst: no word is forgotten, bursts are held, and the writer implements *)
(* BurstMaster.                                                            *)
(***************************************************************************)
EXTENDS PatternWriter, TLAPS

-----------------------------------------------------------------------------
(* The burst arithmetic that both masters share.                           *)

(***************************************************************************)
(* The remainder of a division is smaller than the divisor.                *)
(***************************************************************************)
LEMMA RemainderBound ==
  ASSUME NEW a \in Int, NEW b \in Nat \ {0}
  PROVE  a % b \in 0..b - 1
  OBVIOUS

(***************************************************************************)
(* A number smaller than the divisor is its own remainder.                 *)
(***************************************************************************)
LEMMA SmallRemainder ==
  ASSUME NEW a \in Nat, NEW b \in Nat \ {0}, a < b
  PROVE  a % b = a
  OBVIOUS

(***************************************************************************)
(* The burst counts of a command never exceed the longest burst, and with  *)
(* bursts enabled a command that is not empty never gets an empty burst.   *)
(***************************************************************************)
LEMMA ShortCounts ==
  ASSUME NEW c, c.address \in Nat, c.length \in Nat
  PROVE  /\ short_first_burst_count(c) \in 0..MAX_BURST_COUNT
         /\ short_last_burst_count(c) \in 0..MAX_BURST_COUNT
         /\ BURST_ENABLE /\ c.length > 0 => short_first_burst_count(c) > 0
         /\ BURST_ENABLE => short_last_burst_count(c) > 0
<1>1. \A a \in Int : a % MAX_BURST_COUNT \in 0..MAX_BURST_COUNT - 1
  BY BurstAssumption, RemainderBound
<1>2. /\ address_burst_offset(c) \in 0..MAX_BURST_COUNT - 1
      /\ length_burst_offset(c) \in 0..MAX_BURST_COUNT - 1
  BY <1>1 DEF address_burst_offset, length_burst_offset
<1>3. short_first_burst_count(c) \in 0..MAX_BURST_COUNT
  BY <1>2, BurstAssumption DEF short_first_burst_count
<1>4. (c.length - short_first_burst_count(c)) % MAX_BURST_COUNT \in 0..MAX_BURST_COUNT - 1
  BY <1>1, <1>3, BurstAssumption
<1>5. short_last_burst_count(c) \in 0..MAX_BURST_COUNT
  BY <1>2, <1>4, BurstAssumption DEF short_last_burst_count
<1>6. ASSUME BURST_ENABLE, c.length > 0
      PROVE  short_first_burst_count(c) > 0
  <2>1. CASE c.length < MAX_BURST_COUNT - address_burst_offset(c)
    <3>1. length_burst_offset(c) = c.length
      BY <1>2, <2>1, SmallRemainder, BurstAssumption DEF length_burst_offset
    <3>. QED  BY <1>6, <2>1, <3>1 DEF short_first_burst_count
  <2>2. CASE ~(c.length < MAX_BURST_COUNT - address_burst_offset(c))
    BY <1>2, <1>6, <2>2, BurstAssumption DEF short_first_burst_count
  <2>. QED  BY <2>1, <2>2
<1>7. BURST_ENABLE => short_last_burst_count(c) > 0
  BY <1>2, <1>4, BurstAssumption DEF short_last_burst_count
<1>. QED  BY <1>3, <1>5, <1>6, <1>7

(***************************************************************************)
(* Division with a remainder, and that the remainder is the only one.      *)
(***************************************************************************)
LEMMA Quotient ==
  ASSUME NEW x \in Int, NEW m \in Nat \ {0}
  PROVE  \E q \in Int : x = m * q + (x % m)
<1>1. x \div m \in Int /\ x = m * (x \div m) + (x % m)
  OBVIOUS
<1>. QED  BY <1>1

LEMMA OneRemainder ==
  ASSUME NEW r \in Nat, NEW q \in Int, NEW m \in Nat \ {0}, r < m
  PROVE  (m * q + r) % m = r
  OBVIOUS

(***************************************************************************)
(* A multiple of the divisor does not change the remainder.                *)
(***************************************************************************)
LEMMA MultipleAdded ==
  ASSUME NEW x \in Int, NEW y \in Int, NEW m \in Nat \ {0}, x % m = 0
  PROVE  (x + y) % m = y % m
<1>. DEFINE r == y % m
<1>1. PICK p \in Int : x = m * p + (x % m)
  BY Quotient
<1>2. x = m * p
  BY <1>1
<1>3. PICK q \in Int : y = m * q + r
  BY Quotient
<1>4. r \in Nat /\ r < m
  BY RemainderBound
<1>. HIDE DEF r
<1>5. m * (p + q) = m * p + m * q /\ p + q \in Int
  OBVIOUS
<1>6. m * p \in Int /\ m * q \in Int
  OBVIOUS
<1>7. x + y = m * (p + q) + r
  BY <1>2, <1>3, <1>4, <1>5, <1>6
<1>8. (m * (p + q) + r) % m = r
  BY <1>4, <1>5, OneRemainder
<1>. QED  BY <1>7, <1>8 DEF r

LEMMA DivisorTaken ==
  ASSUME NEW x \in Int, NEW m \in Nat \ {0}
  PROVE  /\ (x - m) % m = x % m
         /\ (x + m) % m = x % m
         /\ m % m = 0
<1>. DEFINE back == 0 - m
<1>1. m % m = 0 /\ back % m = 0 /\ back \in Int
  OBVIOUS
<1>2. back + x = x - m /\ m + x = x + m
  OBVIOUS
<1>. HIDE DEF back
<1>3. (back + x) % m = x % m
  BY <1>1, MultipleAdded
<1>4. (m + x) % m = x % m
  BY <1>1, MultipleAdded, m \in Int
<1>. QED  BY <1>1, <1>2, <1>3, <1>4

(***************************************************************************)
(* The first count of a command ends at a burst boundary or at its end,    *)
(* and the last count leaves whole bursts before it.                       *)
(***************************************************************************)
LEMMA CountsFit ==
  ASSUME BURST_ENABLE, NEW c, c.address \in Nat, c.length \in Nat \ {0}
  PROVE  /\ short_first_burst_count(c) <= c.length
         /\ (c.address % MAX_BURST_COUNT) + short_first_burst_count(c) <= MAX_BURST_COUNT
         /\ c.length - short_first_burst_count(c) > 0
              => (c.address + short_first_burst_count(c)) % MAX_BURST_COUNT = 0
         /\ short_last_burst_count(c) % MAX_BURST_COUNT
              = (IF BURST_REALIGN_ENABLE THEN c.length - short_first_burst_count(c)
                 ELSE c.length) % MAX_BURST_COUNT
<1>. DEFINE M     == MAX_BURST_COUNT
            a     == c.address
            l     == c.length
            off   == a % M
            first == short_first_burst_count(c)
            words == IF BURST_REALIGN_ENABLE THEN l - first ELSE l
<1>0. M \in Nat \ {0} /\ a \in Nat /\ l \in Nat \ {0}
  BY BurstAssumption
<1>1. off \in 0..M - 1
  <2>. HIDE DEF M, a
  <2>. QED  BY <1>0, RemainderBound
<1>2. first \in 0..M
  BY ShortCounts
<1>3. \/ l < M - off /\ first = l
      \/ l >= M - off /\ first = M - off
  <2>1. CASE l < M - off
    <3>1. l < M
      BY <1>0, <1>1, <2>1
    <3>2. l % M = l
      <4>. HIDE DEF M, l
      <4>. QED  BY <1>0, <3>1, SmallRemainder
    <3>. QED
      BY <2>1, <3>2 DEF short_first_burst_count, address_burst_offset, length_burst_offset
  <2>2. CASE ~(l < M - off)
    BY <1>0, <1>1, <2>2 DEF short_first_burst_count, address_burst_offset
  <2>. QED  BY <2>1, <2>2
<1>4. ASSUME l - first > 0
      PROVE  (a + first) % M = 0
  <2>1. first = M - off
    BY <1>0, <1>1, <1>3, <1>4
  <2>. HIDE DEF M, a, first
  <2>2. PICK q \in Int : a = M * q + off
    BY <1>0, Quotient, a \in Int
  <2>3. M * (q + 1) = M * q + M /\ M * q \in Int /\ q + 1 \in Int
    BY <1>0
  <2>. HIDE DEF off
  <2>4. a + first = M * (q + 1) + 0
    BY <1>0, <1>1, <2>1, <2>2, <2>3
  <2>5. (M * (q + 1) + 0) % M = 0
    BY <1>0, <2>3, OneRemainder
  <2>. QED  BY <2>4, <2>5
<1>5. short_last_burst_count(c) % M = words % M
  <2>. DEFINE rest == words % M
              last == short_last_burst_count(c)
  <2>1. words \in Int
    BY <1>0, <1>2
  <2>3. last = IF rest = 0 THEN M ELSE rest
    BY DEF short_last_burst_count, length_burst_offset
  <2>. HIDE DEF M, words, last
  <2>2. rest \in 0..M - 1
    BY <1>0, <2>1, RemainderBound
  <2>. HIDE DEF rest
  <2>4. rest % M = rest
    BY <1>0, <2>2, SmallRemainder
  <2>5. M % M = 0
    BY <1>0, DivisorTaken
  <2>6. last % M = rest
    BY <2>3, <2>4, <2>5
  <2>. QED  BY <2>6 DEF rest, last, words
<1>6. first <= l /\ off + first <= M
  <2>. HIDE DEF first, off, M, l
  <2>. QED  BY <1>0, <1>1, <1>2, <1>3
<1>. QED  BY <1>4, <1>5, <1>6

-----------------------------------------------------------------------------
(***************************************************************************)
(* What makes DataBuffered inductive.  A burst counter of 0 under a write  *)
(* is the single word that set_write lets through without burst_begin: it  *)
(* has to be the last one, for the counter would wrap with the FIFO unread.*)
(* That burst_begin never loads an empty burst rests on the counts latched *)
(* with the command.                                                       *)
(***************************************************************************)
BeatsBacked ==
  /\ DataBuffered
  /\ write => master_active
  /\ write /\ burst_counter = 0 => next_length_counter = 0
  /\ load_command_d1 => next_length_counter > 0 /\ ~write
  /\ BURST_ENABLE /\ master_active =>
       short_first_burst_count_d1 > 0 /\ short_last_burst_count_d1 > 0

WriterInvariant == TypeOK /\ BeatsBacked

(***************************************************************************)
(* The count the multiplexer picks never exceeds the longest burst, and is *)
(* not 0 while a command is being executed.                                *)
(***************************************************************************)
LEMMA BurstCountBound ==
  ASSUME WriterInvariant, NEW complete \in BOOLEAN
  PROVE  /\ burst_count(complete) \in 0..MAX_BURST_COUNT
         /\ master_active => burst_count(complete) > 0
<1>1. CASE BURST_ENABLE
  <2>1. burst_count(complete) \in {short_first_burst_count_d1, short_last_burst_count_d1,
                                   MAX_BURST_COUNT}
    BY <1>1 DEF burst_count, burst_count_mux
  <2>. QED  BY <1>1, <2>1, BurstAssumption DEF WriterInvariant, TypeOK, BeatsBacked
<1>2. CASE ~BURST_ENABLE
  <2>1. burst_count(complete) = 1
    BY <1>2 DEF burst_count, burst_count_mux
  <2>. QED  BY <2>1, BurstAssumption
<1>. QED  BY <1>1, <1>2

(***************************************************************************)
(* The first state.                                                        *)
(***************************************************************************)
LEMMA InitInvariant == Init => WriterInvariant
<1>. SUFFICES ASSUME Init PROVE WriterInvariant
  OBVIOUS
<1>1. commands \in Seq(Command) /\ payload \in Nat
  BY WriterAssumption DEF Init
<1>2. /\ 0 \in 0..LENGTH_WORDS - 1
      /\ 0 \in 0..MAX_BURST_COUNT
      /\ 0 \in 0..2 * MAX_BURST_COUNT - 1
      /\ 0 \in 0..FIFO_DEPTH
      /\ 0 \in Nat
  BY WriterAssumption, BurstAssumption
<1>3. burst \in [address : Nat, count : 0..MAX_BURST_COUNT]
  BY <1>2 DEF Init
<1>4. TypeOK
  BY <1>1, <1>2, <1>3 DEF Init, TypeOK
<1>5. BeatsBacked
  BY DEF Init, BeatsBacked, DataBuffered
<1>. QED  BY <1>4, <1>5 DEF WriterInvariant

(***************************************************************************)
(* One clock edge.                                                         *)
(***************************************************************************)
LEMMA ClockInvariant ==
  ASSUME WriterInvariant,
         NEW waitrequest \in BOOLEAN, NEW snk_valid \in BOOLEAN,
         NEW snk_command_valid \in BOOLEAN,
         Clock(waitrequest, snk_valid, snk_command_valid)
  PROVE  WriterInvariant'
<1>. DEFINE load     == snk_command_valid /\ snk_command_ready
            complete == transfer_complete(waitrequest)
            fast     == burst_begin_fast(complete)
            idle     == burst_begin_from_idle(complete)
            n        == burst_count(complete)
<1>. USE DEF WriterInvariant
<1>1. /\ load \in BOOLEAN
      /\ complete \in BOOLEAN
      /\ load => ~master_active /\ commands # <<>>
      /\ complete => write
  BY DEF Clock, snk_command_ready, transfer_complete, TypeOK
<1>2. /\ Counters(load, complete)
      /\ Control(load, complete)
      /\ Buffer(complete, snk_valid)
      /\ History(load, complete)
      /\ snk_valid => payload > 0
  BY DEF Clock
<1>3. /\ n \in 0..MAX_BURST_COUNT
      /\ master_active => n > 0
  BY <1>1, BurstCountBound
<1>. HIDE DEF load, complete
<1>4. /\ fast \in BOOLEAN
      /\ idle \in BOOLEAN
      /\ fast => master_active /\ burst_counter = 1 /\ complete /\ fifo_used > n
      /\ idle => master_active /\ burst_counter = 0 /\ fifo_used >= n
      /\ burst_counter = 1 /\ complete /\ ~fast => ~write'
      /\ next_length_counter = 0 /\ complete => ~write'
      /\ write' => idle \/ write
      /\ burst_counter' = IF (fast \/ idle) /\ next_length_counter # 0 THEN n
                          ELSE IF complete THEN Down(burst_counter) ELSE burst_counter
  BY <1>1, <1>2
     DEF Control, ControlWith, burst_begin, burst_begin_fast, burst_begin_from_idle,
         burst_complete, last_transfer, TypeOK
<1>. HIDE DEF fast, idle, n
<1>5. /\ load_command_d1' = load
      /\ write' \in BOOLEAN
      /\ master_active' \in BOOLEAN
      /\ master_active' => load \/ master_active
      /\ ~load /\ master_active /\ ~master_active' => ~write'
  BY <1>1, <1>2 DEF Control, ControlWith, last_transfer, TypeOK
(* The FIFO gains at most the word offered and loses the word accepted.     *)
<1>6. /\ fifo_used' \in 0..FIFO_DEPTH
      /\ payload' \in Nat
      /\ fifo_used' >= fifo_used - (IF complete THEN 1 ELSE 0)
  BY <1>1, <1>2, WriterAssumption
     DEF Buffer, snk_ready, BeatsBacked, DataBuffered, TypeOK
<1>7. /\ snk_command_data \in Command \cup {NoCommand}
      /\ load => snk_command_data \in Command
  BY <1>1 DEF snk_command_data, TypeOK
<1>8. ASSUME load
      PROVE  /\ first_transfer' \in BOOLEAN
             /\ base_address' \in Nat
             /\ transfer_counter' \in 0..LENGTH_WORDS - 1
             /\ next_length_counter' \in 0..LENGTH_WORDS - 1
             /\ next_length_counter' > 0
             /\ short_first_burst_count_d1' \in 0..MAX_BURST_COUNT
             /\ short_last_burst_count_d1' \in 0..MAX_BURST_COUNT
             /\ BURST_ENABLE => short_first_burst_count_d1' > 0
                               /\ short_last_burst_count_d1' > 0
  <2>1. /\ snk_command_data.address \in Nat
        /\ snk_command_data.length \in 1..LENGTH_WORDS - 1
    BY <1>7, <1>8 DEF Command
  <2>2. /\ short_first_burst_count(snk_command_data) \in 0..MAX_BURST_COUNT
        /\ short_last_burst_count(snk_command_data) \in 0..MAX_BURST_COUNT
        /\ BURST_ENABLE => short_first_burst_count(snk_command_data) > 0
                          /\ short_last_burst_count(snk_command_data) > 0
    BY <2>1, ShortCounts
  <2>3. /\ LatchCommand(snk_command_data)
        /\ 0 \in 0..LENGTH_WORDS - 1
    BY <1>2, <1>8, WriterAssumption, BurstAssumption DEF Counters
  <2>. QED  BY <2>1, <2>2, <2>3, WriterAssumption DEF LatchCommand
<1>9. ASSUME ~load
      PROVE  /\ first_transfer' \in BOOLEAN
             /\ base_address' \in Nat
             /\ transfer_counter' \in 0..LENGTH_WORDS - 1
             /\ next_length_counter' \in 0..LENGTH_WORDS - 1
             /\ short_first_burst_count_d1' = short_first_burst_count_d1
             /\ short_last_burst_count_d1' = short_last_burst_count_d1
             /\ ~complete /\ ~load_command_d1 => next_length_counter' = next_length_counter
  <2>1. CASE complete \/ load_command_d1
    <3>1. CountWord(complete)
      BY <1>2, <1>9, <2>1 DEF Counters
    <3>2. (first_transfer /\ ~complete) \in BOOLEAN
      BY <1>1 DEF TypeOK
    <3>. QED  BY <2>1, <3>1, <3>2, WriterAssumption, BurstAssumption DEF CountWord, TypeOK
  <2>2. CASE ~complete /\ ~load_command_d1
    BY <1>2, <1>9, <2>2 DEF Counters, TypeOK
  <2>. QED  BY <2>1, <2>2
<1>10. TypeOK'
  <2>1. /\ transfer_address' \in Nat
        /\ burst_count_d1' \in 0..MAX_BURST_COUNT
    BY <1>1, <1>2, <1>3 DEF Counters, Control, ControlWith, TypeOK, n
  <2>2. burst_counter' \in 0..2 * MAX_BURST_COUNT - 1
    BY <1>1, <1>3, <1>4, BurstAssumption DEF Down, TypeOK
  <2>3. /\ commands' \in Seq(Command)
        /\ job' \in Command \cup {NoCommand}
    BY <1>1, <1>2 DEF History, TypeOK
  <2>4. /\ posted' \in Nat
        /\ written' \in Nat
        /\ burst' \in [address : Nat, count : 0..MAX_BURST_COUNT]
    BY <1>1, <1>2, <1>3, <2>1, BurstAssumption DEF History, TypeOK, n
  <2>5. /\ first_transfer' \in BOOLEAN
        /\ base_address' \in Nat
        /\ transfer_counter' \in 0..LENGTH_WORDS - 1
        /\ next_length_counter' \in 0..LENGTH_WORDS - 1
        /\ short_first_burst_count_d1' \in 0..MAX_BURST_COUNT
        /\ short_last_burst_count_d1' \in 0..MAX_BURST_COUNT
    BY <1>8, <1>9 DEF TypeOK
  <2>. QED
    BY <1>1, <1>5, <1>6, <2>1, <2>2, <2>3, <2>4, <2>5 DEF TypeOK
<1>11. write => master_active /\ ~load /\ ~load_command_d1
  BY <1>1 DEF BeatsBacked, TypeOK
<1>12. ASSUME write'
       PROVE  /\ fifo_used' >= 1
              /\ fifo_used' >= burst_counter'
              /\ burst_counter' = 0 => next_length_counter' = 0
  (* A burst begins with all of its words in the FIFO.                      *)
  <2>1. CASE (fast \/ idle) /\ next_length_counter # 0
    BY <1>1, <1>3, <1>4, <1>6, <2>1 DEF BeatsBacked, DataBuffered, TypeOK
  (* set_write without burst_begin: one word, the last.                     *)
  <2>2. CASE idle /\ next_length_counter = 0
    <3>1. ~complete /\ ~load /\ ~load_command_d1
      BY <1>1, <1>4, <1>12, <2>2 DEF BeatsBacked, TypeOK
    <3>. QED  BY <1>3, <1>4, <1>6, <1>9, <2>2, <3>1 DEF TypeOK
  (* A burst under way: each accepted beat takes one word.                  *)
  <2>3. CASE ~idle /\ ~(fast /\ next_length_counter # 0)
    <3>1. /\ write
          /\ complete => burst_counter # 1 /\ next_length_counter # 0
      BY <1>4, <1>12, <2>3
    <3>2. CASE complete
      BY <1>4, <1>6, <2>3, <3>1, <3>2 DEF BeatsBacked, DataBuffered, Down, TypeOK
    <3>3. CASE ~complete
      BY <1>4, <1>6, <1>9, <1>11, <2>3, <3>1, <3>3 DEF BeatsBacked, DataBuffered, TypeOK
    <3>. QED  BY <3>2, <3>3
  <2>. QED  BY <2>1, <2>2, <2>3
<1>13. BeatsBacked'
  <2>1. write' => master_active'
    BY <1>1, <1>4, <1>5, <1>11
  <2>2. load_command_d1' => next_length_counter' > 0 /\ ~write'
    BY <1>1, <1>4, <1>5, <1>8, <1>11
  <2>3. BURST_ENABLE /\ master_active' =>
          short_first_burst_count_d1' > 0 /\ short_last_burst_count_d1' > 0
    BY <1>1, <1>5, <1>8, <1>9 DEF BeatsBacked
  <2>. QED  BY <1>12, <2>1, <2>2, <2>3 DEF BeatsBacked, DataBuffered
<1>. QED  BY <1>10, <1>13

(***************************************************************************)
(* The invariant of the write master.                                      *)
(***************************************************************************)
THEOREM InvariantHolds == Spec => []WriterInvariant
<1>1. WriterInvariant /\ [Next]_vars => WriterInvariant'
  <2>. SUFFICES ASSUME WriterInvariant, [Next]_vars PROVE WriterInvariant'
    OBVIOUS
  <2>1. CASE \E waitrequest, snk_valid, snk_command_valid \in BOOLEAN :
               Clock(waitrequest, snk_valid, snk_command_valid)
    BY <2>1, ClockInvariant
  <2>2. CASE NewTest
    <3>1. commands' \in Seq(Command) /\ payload' \in Nat
      BY <2>2, WriterAssumption DEF NewTest
    <3>. QED  BY <2>2, <3>1
              DEF NewTest, WriterInvariant, TypeOK, BeatsBacked, DataBuffered,
                  counters, control, history
  <2>3. CASE UNCHANGED vars
    BY <2>3 DEF vars, counters, control, buffer, history,
                WriterInvariant, TypeOK, BeatsBacked, DataBuffered
  <2>. QED  BY <2>1, <2>2, <2>3 DEF Next
<1>. QED  BY <1>1, InitInvariant, PTL DEF Spec

(***************************************************************************)
(* Every register of the write master always stays within its width, and   *)
(* its FIFO between empty and full.                                        *)
(***************************************************************************)
THEOREM TypeCorrect == Spec => []TypeOK
<1>1. WriterInvariant => TypeOK
  BY DEF WriterInvariant
<1>. QED  BY <1>1, InvariantHolds, PTL

(***************************************************************************)
(* No write is on the bus without its data in the FIFO, for every command  *)
(* that is not empty, aligned or not.                                      *)
(***************************************************************************)
THEOREM DataIsBuffered == Spec => []DataBuffered
<1>1. WriterInvariant => DataBuffered
  BY DEF WriterInvariant, BeatsBacked
<1>. QED  BY <1>1, InvariantHolds, PTL

(***************************************************************************)
(* The tests of which the writer can promise all this, and what it then    *)
(* keeps of its plan.  The words of the bursts begun are those written and *)
(* those the present burst has left; the length counter, a word ahead of   *)
(* the bus, never stops the master early; and behind the first burst whole *)
(* bursts remain, from a burst boundary on when there is realignment.      *)
(***************************************************************************)
WholeBursts ==
  /\ MAX_BURST_COUNT > 1
  /\ \A command \in PlannedCommands : EndsInFullBurst(command)

Realigns == BURST_ENABLE /\ BURST_REALIGN_ENABLE

WordsAhead ==
  /\ transfer_counter = written + 1
  /\ written + 1 + next_length_counter = job.length
  /\ posted <= job.length
  /\ burst_counter = 0 => transfer_address = job.address + posted
  /\ posted > 0 /\ posted < job.length =>
       /\ (job.length - posted) % MAX_BURST_COUNT = 0
       /\ Realigns => (job.address + posted) % MAX_BURST_COUNT = 0

CommandLatched ==
  /\ job \in PlannedCommands
  /\ base_address = job.address
  /\ short_first_burst_count_d1 = short_first_burst_count(job)
  /\ short_last_burst_count_d1 = MAX_BURST_COUNT
  /\ written = 0 <=> first_transfer

OnPlan ==
  /\ \A i \in DOMAIN commands : commands[i] \in PlannedCommands
  /\ written + burst_counter = posted
  /\ write <=> burst_counter > 0
  /\ ~master_active => written = job.length /\ burst_counter = 0
  /\ master_active => CommandLatched
  /\ load_command_d1 =>
       /\ master_active
       /\ written = 0 /\ burst_counter = 0
       /\ transfer_counter = 0 /\ next_length_counter = job.length
  /\ master_active /\ ~load_command_d1 => WordsAhead

PlanInvariant == WriterInvariant /\ OnPlan

(***************************************************************************)
(* A burst that may begin: it is there, stays within its boundary, and     *)
(* leaves whole bursts from a boundary on.                                 *)
(***************************************************************************)
MayBegin(count) ==
  /\ count \in 1..MAX_BURST_COUNT
  /\ posted + count <= job.length
  /\ Realigns => ((job.address + posted) % MAX_BURST_COUNT) + count <= MAX_BURST_COUNT
  /\ posted + count < job.length =>
       /\ (job.length - (posted + count)) % MAX_BURST_COUNT = 0
       /\ Realigns => (job.address + (posted + count)) % MAX_BURST_COUNT = 0

LEMMA PlannedTypes ==
  ASSUME WholeBursts, NEW command \in PlannedCommands
  PROVE  /\ command \in Command
         /\ command.address \in Nat /\ command.length \in 1..LENGTH_WORDS - 1
         /\ command.length > 1
         /\ short_last_burst_count(command) = MAX_BURST_COUNT
         /\ BURST_ENABLE
<1>1. PICK test \in Tests : command \in {test.commands[i] : i \in DOMAIN test.commands}
  BY DEF PlannedCommands
<1>2. test.commands \in Seq(Command)
  BY WriterAssumption
<1>3. command \in Command
  BY <1>1, <1>2
<1>. QED  BY <1>3, BurstAssumption DEF Command, WholeBursts, EndsInFullBurst

(***************************************************************************)
(* What the first burst of a command leaves.                               *)
(***************************************************************************)
LEMMA FirstFits ==
  ASSUME WholeBursts, NEW command \in PlannedCommands,
         NEW first, first = short_first_burst_count(command),
         NEW words, words = command.length, NEW at, at = command.address
  PROVE  /\ first \in 1..MAX_BURST_COUNT
         /\ first <= words
         /\ (at % MAX_BURST_COUNT) + first <= MAX_BURST_COUNT
         /\ first < words => (at + first) % MAX_BURST_COUNT = 0
         /\ (IF BURST_REALIGN_ENABLE THEN words - first ELSE words) % MAX_BURST_COUNT = 0
<1>1. /\ at \in Nat /\ words \in Nat \ {0} /\ BURST_ENABLE
      /\ short_last_burst_count(command) = MAX_BURST_COUNT
  BY PlannedTypes, WriterAssumption
<1>2. MAX_BURST_COUNT % MAX_BURST_COUNT = 0
  BY BurstAssumption, DivisorTaken
<1>3. first \in 0..MAX_BURST_COUNT /\ first > 0
  BY <1>1, ShortCounts
<1>4. /\ first <= words
      /\ (at % MAX_BURST_COUNT) + first <= MAX_BURST_COUNT
      /\ words - first > 0 => (at + first) % MAX_BURST_COUNT = 0
      /\ short_last_burst_count(command) % MAX_BURST_COUNT
           = (IF BURST_REALIGN_ENABLE THEN words - first ELSE words) % MAX_BURST_COUNT
  BY <1>1, CountsFit
<1>5. first < words => words - first > 0
  BY <1>1, <1>3
<1>. QED  BY <1>1, <1>2, <1>3, <1>4, <1>5, BurstAssumption

(***************************************************************************)
(* A whole burst out of words that are whole bursts.                       *)
(***************************************************************************)
LEMMA WholeFits ==
  ASSUME WholeBursts, NEW words \in Nat \ {0}, words % MAX_BURST_COUNT = 0
  PROVE  /\ MAX_BURST_COUNT <= words
         /\ (words - MAX_BURST_COUNT) % MAX_BURST_COUNT = 0
<1>. DEFINE M == MAX_BURST_COUNT
<1>1. M \in Nat \ {0}
  BY BurstAssumption
<1>2. words % M = 0
  OBVIOUS
<1>. HIDE DEF M
<1>3. words < M => words % M = words
  BY <1>1, SmallRemainder
<1>4. (words - M) % M = words % M
  BY <1>1, DivisorTaken, words \in Int
<1>5. M <= words /\ (words - M) % M = 0
  BY <1>1, <1>2, <1>3, <1>4
<1>. QED  BY <1>5 DEF M

(***************************************************************************)
(* The first burst of a command may begin, and so may any later one.       *)
(***************************************************************************)
LEMMA FirstMayBegin ==
  ASSUME WholeBursts, PlanInvariant, master_active, posted = 0, first_transfer,
         NEW count, count = burst_count(FALSE)
  PROVE  MayBegin(count)
<1>1. CommandLatched
  BY DEF PlanInvariant, OnPlan
<1>. DEFINE words == job.length
            at    == job.address
            first == short_first_burst_count(job)
<1>2. /\ at \in Nat /\ words \in 1..LENGTH_WORDS - 1 /\ BURST_ENABLE
      /\ MAX_BURST_COUNT \in Nat \ {0} /\ LENGTH_WORDS \in Nat
  BY <1>1, PlannedTypes, WriterAssumption, BurstAssumption DEF CommandLatched
<1>3. /\ first \in 1..MAX_BURST_COUNT
      /\ first <= words
      /\ (at % MAX_BURST_COUNT) + first <= MAX_BURST_COUNT
      /\ first < words => (at + first) % MAX_BURST_COUNT = 0
      /\ (IF BURST_REALIGN_ENABLE THEN words - first ELSE words) % MAX_BURST_COUNT = 0
  BY <1>1, FirstFits DEF CommandLatched
<1>4. CASE BURST_REALIGN_ENABLE
  <2>1. burst_count(FALSE) = first
    BY <1>1, <1>2, <1>4 DEF burst_count, burst_count_mux, CommandLatched
  <2>2. job.address + posted = at /\ posted + first = first
    BY <1>2, <1>3
  <2>3. count = first
    BY <2>1
  <2>4. MayBegin(first)
    <3>. HIDE DEF first
    <3>. QED  BY <1>3, <1>4, <2>2 DEF MayBegin
  <2>. QED  BY <2>3, <2>4
<1>5. CASE ~BURST_REALIGN_ENABLE
  <2>1. burst_count(FALSE) = MAX_BURST_COUNT
    BY <1>1, <1>2, <1>5 DEF burst_count, burst_count_mux, CommandLatched
  <2>2. words \in Nat \ {0} /\ words % MAX_BURST_COUNT = 0
    BY <1>2, <1>3, <1>5
  <2>3. MAX_BURST_COUNT <= words /\ (words - MAX_BURST_COUNT) % MAX_BURST_COUNT = 0
    <3>. HIDE DEF words
    <3>. QED  BY <2>2, WholeFits
  <2>4. posted + MAX_BURST_COUNT = MAX_BURST_COUNT
    BY <1>2
  <2>5. MayBegin(MAX_BURST_COUNT)
    BY <1>2, <1>5, <2>3, <2>4 DEF MayBegin, Realigns
  <2>. QED  BY <2>1, <2>5
<1>. QED  BY <1>4, <1>5

LEMMA NextMayBegin ==
  ASSUME WholeBursts, PlanInvariant, master_active, WordsAhead,
         posted > 0, posted < job.length,
         NEW complete \in BOOLEAN, ~(first_transfer /\ ~complete)
  PROVE  /\ burst_count(complete) = MAX_BURST_COUNT
         /\ MayBegin(MAX_BURST_COUNT)
<1>1. CommandLatched
  BY DEF PlanInvariant, OnPlan
<1>. DEFINE left == job.length - posted
            at   == job.address + posted
            M    == MAX_BURST_COUNT
<1>2. /\ job.address \in Nat /\ job.length \in 1..LENGTH_WORDS - 1 /\ BURST_ENABLE
      /\ M \in Nat \ {0} /\ LENGTH_WORDS \in Nat /\ posted \in Nat
  BY <1>1, PlannedTypes, WriterAssumption, BurstAssumption
     DEF CommandLatched, PlanInvariant, WriterInvariant, TypeOK
<1>3. burst_count(complete) = M
  BY <1>1, <1>2 DEF burst_count, burst_count_mux, CommandLatched
<1>4. left \in Nat \ {0} /\ at \in Int /\ left % M = 0 /\ (Realigns => at % M = 0)
  BY <1>2 DEF WordsAhead
<1>5. /\ left - M = job.length - (posted + M)
      /\ at + M = job.address + (posted + M)
  BY <1>2
<1>. HIDE DEF left, at
<1>6. M <= left /\ (left - M) % M = 0
  BY <1>4, WholeFits
<1>7. posted + M <= job.length
  BY <1>2, <1>6 DEF left
<1>. HIDE DEF M
<1>8. Realigns => (at + M) % M = 0 /\ (at % M) + M <= M
  <2>. SUFFICES ASSUME Realigns PROVE (at + M) % M = 0 /\ (at % M) + M <= M
    OBVIOUS
  <2>1. at % M = 0
    BY <1>4
  <2>2. (at + M) % M = at % M
    BY <1>2, <1>4, DivisorTaken
  <2>. QED  BY <1>2, <2>1, <2>2
<1>. QED  BY <1>2, <1>3, <1>5, <1>6, <1>7, <1>8 DEF MayBegin, M, at

(***************************************************************************)
(* One clock edge, by what happens at it: the writer keeps its plan, makes *)
(* a step of BurstMaster or none it can see, and holds a burst under way.  *)
(***************************************************************************)
BurstStays ==
  write /\ (written' = written \/ burst_counter > 1)
    => write' /\ UNCHANGED <<transfer_address, burst_count_d1>>

StaysOnPlan == OnPlan' /\ [BM!Next]_BM!vars /\ BurstStays

(* What every case starts from. *)
LEMMA WriterTypes ==
  ASSUME WholeBursts, PlanInvariant
  PROVE  /\ written \in Nat /\ posted \in Nat /\ burst_counter \in Nat
         /\ transfer_counter \in 0..LENGTH_WORDS - 1
         /\ next_length_counter \in 0..LENGTH_WORDS - 1
         /\ written + burst_counter = posted
         /\ write <=> burst_counter > 0
         /\ write => master_active /\ ~load_command_d1
         /\ load_command_d1 => master_active
         /\ LENGTH_WORDS \in Nat
         /\ MAX_BURST_COUNT \in Nat /\ MAX_BURST_COUNT > 1
         /\ master_active => /\ job.address \in Nat /\ job.length \in 1..LENGTH_WORDS - 1
                            /\ job.length > 1
         /\ job' = job => UNCHANGED short_first_burst_count(job)
<1>1. master_active => /\ job.address \in Nat /\ job.length \in 1..LENGTH_WORDS - 1
                      /\ job.length > 1
  BY PlannedTypes DEF PlanInvariant, OnPlan, CommandLatched
<1>2. job' = job => UNCHANGED short_first_burst_count(job)
  BY DEF short_first_burst_count, address_burst_offset, length_burst_offset
<1>3. burst_counter \in 0..2 * MAX_BURST_COUNT - 1
  BY DEF PlanInvariant, WriterInvariant, TypeOK
<1>4. burst_counter \in Nat
  BY <1>3, BurstAssumption
<1>. QED
  BY <1>1, <1>2, <1>4, WriterAssumption, BurstAssumption
     DEF PlanInvariant, OnPlan, WriterInvariant, TypeOK, BeatsBacked, WholeBursts

(* The next command is taken. *)
LEMMA LoadOnPlan ==
  ASSUME WholeBursts, PlanInvariant, ~master_active, commands # <<>>,
         Counters(TRUE, FALSE), Control(TRUE, FALSE), History(TRUE, FALSE)
  PROVE  StaysOnPlan
<1>1. ~write /\ ~load_command_d1 /\ burst_counter = 0
  BY WriterTypes DEF PlanInvariant, OnPlan
<1>2. /\ ~burst_begin(FALSE) /\ ~burst_begin_from_idle(FALSE)
  BY DEF burst_begin, burst_begin_fast, burst_begin_from_idle
<1>3. /\ commands' = Tail(commands)
      /\ job' = Head(commands)
      /\ written' = 0 /\ posted' = 0
      /\ burst' = burst
  BY <1>2 DEF History
<1>4. /\ load_command_d1' = TRUE
      /\ master_active' = TRUE
      /\ write' = FALSE
      /\ burst_counter' = 0
  BY <1>1, <1>2 DEF Control, ControlWith, last_transfer
<1>5. LatchCommand(Head(commands))
  BY DEF Counters, snk_command_data
<1>6. /\ Head(commands) \in PlannedCommands
      /\ \A i \in DOMAIN commands' : commands'[i] \in PlannedCommands
  <2>1. commands \in Seq(Command)
    BY DEF PlanInvariant, WriterInvariant, TypeOK
  <2>2. /\ 1 \in DOMAIN commands /\ Head(commands) = commands[1]
        /\ \A i \in DOMAIN Tail(commands) :
             i + 1 \in DOMAIN commands /\ Tail(commands)[i] = commands[i + 1]
    BY <2>1
  <2>. QED  BY <1>3, <2>2 DEF PlanInvariant, OnPlan
<1>7. CommandLatched'
  BY <1>3, <1>5, <1>6, PlannedTypes DEF CommandLatched, LatchCommand
<1>8. OnPlan'
  BY <1>3, <1>4, <1>5, <1>6, <1>7 DEF OnPlan, LatchCommand
<1>9. BM!Accept
  <2>1. posted = job.length
    BY WriterTypes DEF PlanInvariant, OnPlan
  <2>. QED  BY <1>3, <1>6, <2>1 DEF BM!Accept
<1>. QED  BY <1>1, <1>8, <1>9 DEF StaysOnPlan, BurstStays, BM!Next

(* What stays when no command is taken. *)
LEMMA CommandsStay ==
  ASSUME WholeBursts, PlanInvariant, NEW complete \in BOOLEAN, master_active,
         Counters(FALSE, complete), History(FALSE, complete),
         complete => write
  PROVE  /\ \A i \in DOMAIN commands' : commands'[i] \in PlannedCommands
         /\ job' = job
         /\ written' = IF complete THEN written + 1 ELSE written
         /\ CommandLatched /\ CommandLatched'
<1>1. /\ UNCHANGED <<commands, job>>
      /\ written' = IF complete THEN written + 1 ELSE written
  BY DEF History
<1>2. /\ CommandLatched
      /\ first_transfer \in BOOLEAN
      /\ \A i \in DOMAIN commands : commands[i] \in PlannedCommands
  BY DEF PlanInvariant, OnPlan, WriterInvariant, TypeOK
<1>3. /\ UNCHANGED <<base_address, short_first_burst_count_d1, short_last_burst_count_d1>>
      /\ first_transfer' <=> first_transfer /\ ~complete
  <2>1. CASE complete \/ load_command_d1
    BY <2>1 DEF Counters, CountWord
  <2>2. CASE ~complete /\ ~load_command_d1
    BY <1>2, <2>2 DEF Counters
  <2>. QED  BY <2>1, <2>2
<1>4. written' = 0 <=> first_transfer'
  BY <1>1, <1>2, <1>3, WriterTypes DEF CommandLatched
<1>5. short_first_burst_count(job)' = short_first_burst_count(job)
  BY <1>1, WriterTypes
<1>. QED  BY <1>1, <1>2, <1>3, <1>4, <1>5 DEF CommandLatched

(* A burst begins. *)
LEMMA BeginOnPlan ==
  ASSUME WholeBursts, PlanInvariant, NEW complete \in BOOLEAN, master_active,
         NEW count, MayBegin(count),
         job' = job, master_active', ~load_command_d1', write',
         burst_counter' = count, written' = posted, posted' = posted + count,
         burst' = [address |-> transfer_address', count |-> count],
         transfer_address' = job.address + posted,
         transfer_counter' = posted + 1, posted + 1 + next_length_counter' = job.length,
         CommandLatched',
         \A i \in DOMAIN commands' : commands'[i] \in PlannedCommands
  PROVE  OnPlan' /\ BM!Post
<1>1. /\ count \in 1..MAX_BURST_COUNT /\ count > 0
      /\ posted + count <= job.length
  BY WriterTypes DEF MayBegin
<1>2. BM!Post
  BY <1>1 DEF BM!Post, MayBegin, Realigns
<1>3. WordsAhead'
  <2>1. posted' > 0 /\ posted' < job'.length =>
          /\ (job'.length - posted') % MAX_BURST_COUNT = 0
          /\ Realigns => (job'.address + posted') % MAX_BURST_COUNT = 0
    BY DEF MayBegin
  <2>2. written' + 1 + next_length_counter' = job'.length
    OBVIOUS
  <2>. QED  BY <1>1, <2>1, <2>2 DEF WordsAhead, Realigns
<1>. QED  BY <1>1, <1>2, <1>3, WriterTypes DEF OnPlan

(* The counters in the cycle behind the latch, or left alone. *)
LEMMA CountersWait ==
  ASSUME WholeBursts, PlanInvariant, master_active, Counters(FALSE, FALSE)
  PROVE  /\ transfer_counter' = written + 1
         /\ written + 1 + next_length_counter' = job.length
         /\ load_command_d1 => transfer_address' = job.address /\ posted = 0
         /\ ~load_command_d1 => transfer_address' = transfer_address /\ WordsAhead
         /\ next_length_counter' \in Nat
<1>0. ~burst_complete(FALSE)
  BY DEF burst_complete
<1>1. CASE load_command_d1
  <2>1. /\ written = 0 /\ burst_counter = 0 /\ transfer_counter = 0
        /\ next_length_counter = job.length /\ base_address = job.address
    BY <1>1 DEF PlanInvariant, OnPlan, CommandLatched
  <2>2. CountWord(FALSE) /\ transfer_address' = base_address + transfer_counter
    BY <1>1 DEF Counters
  <2>3. LENGTH_WORDS > 1
    BY WriterTypes, WriterAssumption
  <2>4. transfer_counter' = 1 /\ next_length_counter' = job.length - 1
    BY <2>1, <2>2, <2>3, WriterTypes DEF CountWord
  <2>. QED  BY <1>1, <2>1, <2>2, <2>4, WriterTypes
<1>2. CASE ~load_command_d1
  <2>1. WordsAhead
    BY <1>2 DEF PlanInvariant, OnPlan
  <2>2. UNCHANGED <<transfer_counter, next_length_counter, transfer_address>>
    BY <1>0, <1>2 DEF Counters
  <2>. QED  BY <1>2, <2>1, <2>2, WriterTypes DEF WordsAhead
<1>. QED  BY <1>1, <1>2

(* A burst begins from idle. *)
LEMMA IdleBeginOnPlan ==
  ASSUME WholeBursts, PlanInvariant, burst_begin_from_idle(FALSE),
         Counters(FALSE, FALSE), Control(FALSE, FALSE), History(FALSE, FALSE)
  PROVE  StaysOnPlan
<1>. DEFINE count == burst_count(FALSE)
<1>1. /\ master_active /\ burst_counter = 0 /\ ~write /\ written = posted
  BY WriterTypes DEF burst_begin_from_idle
<1>2. /\ \A i \in DOMAIN commands' : commands'[i] \in PlannedCommands
      /\ job' = job /\ written' = written
      /\ CommandLatched /\ CommandLatched'
  BY <1>1, CommandsStay
<1>3. /\ transfer_counter' = posted + 1
      /\ posted + 1 + next_length_counter' = job.length
      /\ load_command_d1 => transfer_address' = job.address /\ posted = 0
      /\ ~load_command_d1 => transfer_address' = transfer_address /\ WordsAhead
      /\ next_length_counter' \in Nat
  BY <1>1, CountersWait
<1>4. transfer_address' = job.address + posted
  BY <1>1, <1>3, WriterTypes DEF WordsAhead
<1>5. posted < job.length
  BY <1>1, <1>3, WriterTypes
<1>6. MayBegin(count)
  <2>1. CASE posted = 0
    BY <1>1, <1>2, <2>1, FirstMayBegin DEF CommandLatched
  <2>2. CASE posted # 0
    <3>1. posted > 0 /\ WordsAhead /\ ~first_transfer
      BY <1>1, <1>2, <1>3, <2>2, WriterTypes DEF CommandLatched
    <3>2. count = MAX_BURST_COUNT /\ MayBegin(MAX_BURST_COUNT)
      BY <1>1, <1>5, <3>1, NextMayBegin
    <3>. QED  BY <3>2
  <2>. QED  BY <2>1, <2>2
<1>7. next_length_counter # 0
  <2>1. CASE load_command_d1
    BY <1>1, <2>1, WriterTypes DEF PlanInvariant, OnPlan
  <2>2. CASE ~load_command_d1
    <3>1. posted + 1 + next_length_counter = job.length
      BY <1>1, <1>3, <2>2 DEF WordsAhead
    <3>2. CASE posted = 0
      BY <1>1, <3>1, <3>2, WriterTypes
    <3>3. CASE posted # 0
      <4>1. posted > 0 /\ WordsAhead /\ ~first_transfer
        BY <1>1, <1>2, <1>3, <2>2, <3>3, WriterTypes DEF CommandLatched
      <4>2. posted + MAX_BURST_COUNT <= job.length
        BY <1>1, <1>5, <4>1, NextMayBegin DEF MayBegin
      <4>. QED  BY <1>1, <3>1, <4>2, WriterTypes
    <3>. QED  BY <3>2, <3>3
  <2>. QED  BY <2>1, <2>2
<1>8. burst_begin(FALSE) /\ ~burst_complete(FALSE) /\ ~last_transfer(FALSE)
  BY <1>7 DEF burst_begin, burst_complete, last_transfer
<1>9. /\ load_command_d1' = FALSE
      /\ master_active' = TRUE
      /\ write' = TRUE
      /\ burst_counter' = count
  BY <1>1, <1>8 DEF Control, ControlWith
<1>10. /\ posted' = posted + count
       /\ burst' = [address |-> transfer_address', count |-> count]
  BY <1>8 DEF History
<1>. HIDE DEF count
<1>11. OnPlan' /\ BM!Post
  BY <1>1, <1>2, <1>3, <1>4, <1>6, <1>9, <1>10, BeginOnPlan
<1>. QED  BY <1>1, <1>11 DEF StaysOnPlan, BurstStays, BM!Next

(* Nothing begins and no word is accepted. *)
LEMMA WaitOnPlan ==
  ASSUME WholeBursts, PlanInvariant, master_active, ~burst_begin_from_idle(FALSE),
         Counters(FALSE, FALSE), Control(FALSE, FALSE), History(FALSE, FALSE)
  PROVE  StaysOnPlan
<1>1. ~burst_begin(FALSE) /\ ~burst_complete(FALSE) /\ ~last_transfer(FALSE)
  BY DEF burst_begin, burst_begin_fast, burst_complete, last_transfer
<1>2. /\ load_command_d1' = FALSE
      /\ master_active' = TRUE
      /\ burst_counter' = burst_counter
      /\ write' <=> write
      /\ ~load_command_d1 => burst_count_d1' = burst_count_d1
  BY <1>1 DEF Control, ControlWith, PlanInvariant, WriterInvariant, TypeOK
<1>3. /\ \A i \in DOMAIN commands' : commands'[i] \in PlannedCommands
      /\ job' = job /\ written' = written
      /\ CommandLatched'
  BY CommandsStay
<1>4. posted' = posted /\ burst' = burst
  BY <1>1 DEF History
<1>5. /\ transfer_counter' = written + 1
      /\ written + 1 + next_length_counter' = job.length
      /\ load_command_d1 => transfer_address' = job.address /\ posted = 0
      /\ ~load_command_d1 => transfer_address' = transfer_address /\ WordsAhead
      /\ next_length_counter' \in Nat
  BY CountersWait
<1>6. WordsAhead'
  <2>1. CASE load_command_d1
    <3>1. job.address + 0 = job.address /\ 0 <= job.length
      BY WriterTypes
    <3>2. posted' = 0 /\ job' = job /\ transfer_address' = job.address
      BY <1>3, <1>4, <1>5, <2>1
    <3>. QED  BY <1>3, <1>5, <3>1, <3>2 DEF WordsAhead
  <2>2. CASE ~load_command_d1
    BY <1>2, <1>3, <1>4, <1>5, <2>2 DEF WordsAhead, Realigns
  <2>. QED  BY <2>1, <2>2
<1>7. OnPlan'
  BY <1>2, <1>3, <1>4, <1>6, WriterTypes DEF OnPlan
<1>8. BurstStays
  BY <1>2, <1>5, WriterTypes DEF BurstStays
<1>. QED  BY <1>3, <1>4, <1>7, <1>8 DEF StaysOnPlan, BM!vars

(* A word is accepted. *)
LEMMA WordOnPlan ==
  ASSUME WholeBursts, PlanInvariant, write,
         Counters(FALSE, TRUE), Control(FALSE, TRUE), History(FALSE, TRUE)
  PROVE  StaysOnPlan
<1>1. /\ master_active /\ ~load_command_d1 /\ burst_counter > 0
      /\ WordsAhead /\ ~burst_begin_from_idle(TRUE)
  <2>1. master_active /\ ~load_command_d1 /\ burst_counter > 0 /\ burst_counter \in Nat
    BY WriterTypes
  <2>2. burst_counter # 0
    BY <2>1
  <2>. QED  BY <2>1, <2>2 DEF PlanInvariant, OnPlan, burst_begin_from_idle
<1>2. /\ \A i \in DOMAIN commands' : commands'[i] \in PlannedCommands
      /\ job' = job /\ written' = written + 1
      /\ CommandLatched /\ CommandLatched'
  BY <1>1, CommandsStay
<1>3. /\ transfer_address' = IF burst_counter = 1 THEN job.address + (written + 1)
                             ELSE transfer_address
      /\ CountWord(TRUE)
  BY <1>1, <1>2, WriterTypes DEF Counters, burst_complete, CommandLatched, WordsAhead
<1>4. /\ burst_complete(TRUE) <=> burst_counter = 1
      /\ last_transfer(TRUE) <=> next_length_counter = 0
      /\ burst_begin(TRUE) <=> burst_begin_fast(TRUE) /\ next_length_counter # 0
      /\ burst_begin_fast(TRUE) => burst_counter = 1
  BY <1>1 DEF burst_complete, last_transfer, burst_begin, burst_begin_fast
<1>5. /\ load_command_d1' = FALSE
      /\ master_active' <=> next_length_counter # 0
      /\ write' <=> next_length_counter # 0 /\ (burst_counter = 1 => burst_begin_fast(TRUE))
      /\ burst_counter' = IF burst_begin(TRUE) THEN burst_count(TRUE) ELSE burst_counter - 1
      /\ ~burst_begin(TRUE) => burst_count_d1' = burst_count_d1
  <2>1. /\ load_command_d1' = FALSE
        /\ master_active' <=> ~last_transfer(TRUE)
        /\ write' <=> ~(\/ last_transfer(TRUE)
                        \/ burst_complete(TRUE) /\ ~burst_begin_fast(TRUE))
    BY <1>1 DEF Control, ControlWith
  <2>2. /\ burst_counter' = IF burst_begin(TRUE) THEN burst_count(TRUE) ELSE Down(burst_counter)
        /\ ~burst_begin(TRUE) => burst_count_d1' = burst_count_d1
    BY <1>1 DEF Control, ControlWith
  <2>3. Down(burst_counter) = burst_counter - 1
    BY <1>1, WriterTypes DEF Down
  <2>. QED  BY <1>4, <2>1, <2>2, <2>3
<1>6. /\ posted' = IF burst_begin(TRUE) THEN posted + burst_count(TRUE) ELSE posted
      /\ burst' = IF burst_begin(TRUE)
                  THEN [address |-> transfer_address', count |-> burst_count(TRUE)] ELSE burst
  BY DEF History
(* The length counter is 0 at the last word of the last burst, not before.  *)
<1>7. /\ written + burst_counter = posted
      /\ written + 1 + next_length_counter = job.length
      /\ posted <= job.length
      /\ next_length_counter = 0 => burst_counter = 1 /\ written + 1 = job.length
  BY <1>1, WriterTypes DEF WordsAhead
<1>8. next_length_counter # 0 =>
        /\ transfer_counter' = written + 2
        /\ written + 2 + next_length_counter' = job.length
  <2>. SUFFICES ASSUME next_length_counter # 0
                PROVE  /\ transfer_counter' = written + 2
                       /\ written + 2 + next_length_counter' = job.length
    OBVIOUS
  <2>1. transfer_counter = written + 1 /\ transfer_counter # LENGTH_WORDS - 1
    BY <1>1, <1>7, WriterTypes DEF WordsAhead
  <2>2. transfer_counter' = transfer_counter + 1 /\ next_length_counter' = next_length_counter - 1
    BY <1>3, <2>1 DEF CountWord
  <2>. QED  BY <1>7, <2>1, <2>2, WriterTypes
<1>9. CASE next_length_counter = 0
  <2>1. ~burst_begin(TRUE) /\ ~master_active' /\ ~write' /\ burst_counter' = 0
        /\ posted' = posted /\ burst' = burst
    <3>1. ~burst_begin(TRUE) /\ burst_counter = 1
      BY <1>4, <1>7, <1>9
    <3>2. /\ burst_counter' = burst_counter - 1
          /\ ~master_active' /\ ~write' /\ posted' = posted /\ burst' = burst
      BY <1>5, <1>6, <1>9, <3>1
    <3>3. burst_counter - 1 = 0
      BY <3>1
    <3>. QED  BY <3>1, <3>2, <3>3
  <2>2. OnPlan'
    BY <1>2, <1>5, <1>7, <1>9, <2>1, WriterTypes DEF OnPlan
  <2>3. BurstStays
    BY <1>2, <1>7, <1>9, WriterTypes DEF BurstStays
  <2>. QED  BY <1>2, <2>1, <2>2, <2>3 DEF StaysOnPlan, BM!vars
<1>10. CASE next_length_counter # 0 /\ burst_begin_fast(TRUE)
  <2>. DEFINE count == burst_count(TRUE)
  <2>1. /\ burst_begin(TRUE) /\ burst_counter = 1 /\ written' = posted
        /\ posted > 0 /\ posted < job.length
    <3>1. burst_begin(TRUE) /\ burst_counter = 1
      BY <1>4, <1>10
    <3>2. written + 1 = posted /\ next_length_counter > 0
      BY <1>7, <1>10, <3>1, WriterTypes
    <3>3. written' = posted
      BY <1>2, <3>2
    <3>4. posted > 0 /\ posted < job.length
      <4>1. posted + next_length_counter = job.length
        BY <1>7, <3>2
      <4>. QED  BY <1>7, <3>1, <3>2, <4>1, WriterTypes
    <3>. QED  BY <3>1, <3>3, <3>4
  <2>2. MayBegin(count)
    BY <1>1, <2>1, NextMayBegin
  <2>3. /\ master_active' /\ ~load_command_d1' /\ write'
        /\ burst_counter' = count /\ posted' = posted + count
        /\ burst' = [address |-> transfer_address', count |-> count]
    BY <1>5, <1>6, <1>10, <2>1
  <2>4. /\ transfer_address' = job.address + posted
        /\ transfer_counter' = posted + 1
        /\ posted + 1 + next_length_counter' = job.length
    <3>1. posted = written + 1 /\ written + 2 = posted + 1
      BY <1>7, <2>1, WriterTypes
    <3>. QED  BY <1>3, <1>8, <1>10, <2>1, <3>1
  <2>. HIDE DEF count
  <2>5. OnPlan' /\ BM!Post
    BY <1>1, <1>2, <2>1, <2>2, <2>3, <2>4, BeginOnPlan
  <2>6. BurstStays
    BY <1>2, <2>1, WriterTypes DEF BurstStays
  <2>. QED  BY <2>5, <2>6 DEF StaysOnPlan, BM!Next
<1>11. CASE next_length_counter # 0 /\ ~burst_begin_fast(TRUE)
  <2>1. /\ ~burst_begin(TRUE) /\ master_active' /\ ~load_command_d1'
        /\ write' <=> burst_counter # 1
        /\ burst_counter' = burst_counter - 1
        /\ burst_count_d1' = burst_count_d1
        /\ posted' = posted /\ burst' = burst
    BY <1>4, <1>5, <1>6, <1>11
  <2>2. WordsAhead'
    <3>1. burst_counter' = 0 => transfer_address' = job'.address + posted'
      <4>. SUFFICES ASSUME burst_counter' = 0
                    PROVE  transfer_address' = job'.address + posted'
        OBVIOUS
      <4>1. burst_counter = 1 /\ posted' = written + 1
        BY <1>7, <2>1, WriterTypes
      <4>. QED  BY <1>2, <1>3, <4>1
    <3>2. /\ transfer_counter' = written' + 1
          /\ written' + 1 + next_length_counter' = job'.length
      <4>1. written' + 1 = written + 2
        BY <1>2, WriterTypes
      <4>. QED  BY <1>2, <1>8, <1>11, <4>1
    <3>3. /\ posted' <= job'.length
          /\ posted' > 0 /\ posted' < job'.length =>
               /\ (job'.length - posted') % MAX_BURST_COUNT = 0
               /\ Realigns => (job'.address + posted') % MAX_BURST_COUNT = 0
      BY <1>1, <1>2, <2>1 DEF WordsAhead
    <3>. QED  BY <3>1, <3>2, <3>3 DEF WordsAhead, Realigns
  <2>3. /\ written' + burst_counter' = posted'
        /\ write' <=> burst_counter' > 0
    BY <1>1, <1>2, <1>7, <2>1, WriterTypes
  <2>4. OnPlan'
    BY <1>2, <2>1, <2>2, <2>3 DEF OnPlan
  <2>5. BurstStays
    BY <1>2, <1>3, <2>1, WriterTypes DEF BurstStays
  <2>. QED  BY <1>2, <2>1, <2>4, <2>5 DEF StaysOnPlan, BM!vars
<1>. QED  BY <1>9, <1>10, <1>11

LEMMA ClockOnPlan ==
  ASSUME WholeBursts, PlanInvariant,
         NEW waitrequest \in BOOLEAN, NEW snk_valid \in BOOLEAN,
         NEW snk_command_valid \in BOOLEAN,
         Clock(waitrequest, snk_valid, snk_command_valid)
  PROVE  StaysOnPlan
<1>. DEFINE load     == snk_command_valid /\ snk_command_ready
            complete == transfer_complete(waitrequest)
<1>1. /\ load \in BOOLEAN
      /\ complete \in BOOLEAN
      /\ complete => write
      /\ load => ~master_active /\ commands # <<>>
  BY DEF Clock, snk_command_ready, transfer_complete, PlanInvariant, WriterInvariant, TypeOK
<1>2. /\ Counters(load, complete)
      /\ Control(load, complete)
      /\ History(load, complete)
  BY DEF Clock
<1>. HIDE DEF load, complete
<1>3. write => master_active
  BY WriterTypes
<1>4. CASE load
  <2>1. load = TRUE /\ complete = FALSE
    BY <1>1, <1>3, <1>4
  <2>. QED  BY <1>1, <1>2, <1>4, <2>1, LoadOnPlan
<1>5. CASE ~load /\ complete
  <2>1. load = FALSE /\ complete = TRUE
    BY <1>1, <1>5
  <2>. QED  BY <1>1, <1>2, <1>5, <2>1, WordOnPlan
<1>6. CASE ~load /\ ~complete /\ master_active
  <2>1. load = FALSE /\ complete = FALSE
    BY <1>1, <1>6
  <2>. QED  BY <1>2, <1>6, <2>1, IdleBeginOnPlan, WaitOnPlan
<1>7. CASE ~load /\ ~complete /\ ~master_active
  <2>1. load = FALSE /\ complete = FALSE
    BY <1>1, <1>7
  <2>2. ~write /\ ~load_command_d1 /\ burst_counter = 0 /\ written = job.length
    BY <1>7, WriterTypes DEF PlanInvariant, OnPlan
  <2>3. /\ ~burst_begin(FALSE) /\ ~burst_begin_from_idle(FALSE) /\ ~last_transfer(FALSE)
        /\ ~burst_complete(FALSE)
    BY <1>7 DEF burst_begin, burst_begin_fast, burst_begin_from_idle, last_transfer, burst_complete
  <2>4. /\ UNCHANGED <<commands, job, written, posted, burst>>
    BY <1>2, <2>1, <2>3 DEF History
  <2>5. ~load_command_d1' /\ ~master_active' /\ ~write' /\ burst_counter' = 0
    BY <1>2, <1>7, <2>1, <2>2, <2>3 DEF Control, ControlWith
  <2>6. OnPlan'
    BY <2>2, <2>4, <2>5 DEF PlanInvariant, OnPlan
  <2>. QED  BY <2>2, <2>4, <2>6 DEF StaysOnPlan, BurstStays, BM!vars
<1>. QED  BY <1>4, <1>5, <1>6, <1>7

(***************************************************************************)
(* The invariant with the plan, and what every step is, for tests whose    *)
(* commands end in a whole burst.                                          *)
(***************************************************************************)
LEMMA PlanKept ==
  ASSUME WholeBursts
  PROVE  /\ Init => OnPlan /\ BM!Init
         /\ WriterInvariant /\ OnPlan /\ [Next]_vars
              => OnPlan' /\ [BM!Next]_BM!vars /\ [BurstStays]_vars
<1>1. ASSUME NEW test \in Tests
      PROVE  \A i \in DOMAIN test.commands : test.commands[i] \in PlannedCommands
  BY DEF PlannedCommands
<1>2. Init => OnPlan /\ BM!Init
  BY <1>1 DEF Init, OnPlan, BM!Init, BM!NoCommand, NoCommand
<1>3. ASSUME PlanInvariant, [Next]_vars
      PROVE  OnPlan' /\ [BM!Next]_BM!vars /\ [BurstStays]_vars
  <2>1. CASE \E waitrequest, snk_valid, snk_command_valid \in BOOLEAN :
               Clock(waitrequest, snk_valid, snk_command_valid)
    BY <1>3, <2>1, ClockOnPlan DEF StaysOnPlan
  <2>2. CASE NewTest
    <3>1. /\ \A i \in DOMAIN commands' : commands'[i] \in PlannedCommands
          /\ ~master_active
          /\ UNCHANGED <<counters, control, history>>
      BY <1>1, <2>2 DEF NewTest, snk_command_ready
    <3>2. OnPlan' /\ ~write
      BY <1>3, <3>1, WriterTypes DEF PlanInvariant, OnPlan, counters, control, history
    <3>. QED  BY <3>1, <3>2 DEF BurstStays, BM!vars, history
  <2>3. CASE UNCHANGED vars
    <3>1. UNCHANGED <<counters, control, commands, history>>
      BY <2>3 DEF vars
    <3>2. OnPlan'
      BY <1>3, <3>1
         DEF PlanInvariant, OnPlan, CommandLatched, WordsAhead, Realigns, counters, control, history,
             short_first_burst_count, address_burst_offset, length_burst_offset
    <3>. QED  BY <2>3, <3>1, <3>2 DEF BM!vars, history
  <2>. QED  BY <1>3, <2>1, <2>2, <2>3 DEF Next
<1>. QED  BY <1>2, <1>3 DEF PlanInvariant

(***************************************************************************)
(* Every word of a burst is written before the next begins, and the master *)
(* is ready for a command only after the last word of the one before.      *)
(***************************************************************************)
THEOREM WordsAllWritten ==
  ASSUME WholeBursts
  PROVE  Spec => []EveryWordWritten
<1>1. OnPlan => EveryWordWritten
  BY DEF OnPlan, EveryWordWritten, snk_command_ready
<1>2. /\ Init => OnPlan
      /\ WriterInvariant /\ OnPlan /\ [Next]_vars => OnPlan'
  BY PlanKept
<1>. QED  BY <1>1, <1>2, InvariantHolds, PTL DEF Spec

(***************************************************************************)
(* Avalon-MM: the request, the address and the burst count stay from the   *)
(* first beat of a burst to its last.                                      *)
(***************************************************************************)
THEOREM BurstsAreHeld ==
  ASSUME WholeBursts
  PROVE  Spec => BurstHeld
<1>1. /\ Init => OnPlan
      /\ WriterInvariant /\ OnPlan /\ [Next]_vars => OnPlan' /\ [BurstStays]_vars
  BY PlanKept
<1>2. WriterInvariant /\ OnPlan /\ [Next]_vars
        => [write /\ (written' = written \/ burst_counter > 1)
              => write' /\ UNCHANGED <<transfer_address, burst_count_d1>>]_vars
  BY <1>1 DEF BurstStays
<1>. QED  BY <1>1, <1>2, InvariantHolds, PTL DEF Spec, BurstHeld

(***************************************************************************)
(* The write master writes exactly the words of its commands, in order, in *)
(* bursts that never run past the end of a command nor, with realignment,  *)
(* across a burst boundary: every step is one of BurstMaster.              *)
(***************************************************************************)
THEOREM WritesAsPromised ==
  ASSUME WholeBursts
  PROVE  Spec => BM!Init /\ [][BM!Next]_BM!vars
<1>1. /\ Init => OnPlan /\ BM!Init
      /\ WriterInvariant /\ OnPlan /\ [Next]_vars => OnPlan' /\ [BM!Next]_BM!vars
  BY PlanKept
<1>. QED  BY <1>1, InvariantHolds, PTL DEF Spec
=============================================================================
