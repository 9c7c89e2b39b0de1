------------------------ MODULE PatternReaderProofs ------------------------
(***************************************************************************)
(* The read master of PatternReader, for every burst length, FIFO depth and*)
(* command sequence: type correctness and the flow control that keeps its  *)
(* unchecked FIFO from overflowing; requests held under waitrequest for    *)
(* commands that are not empty; and that it implements BurstMaster for     *)
(* compatible tests.                                                       *)
(***************************************************************************)
EXTENDS PatternReader, TLAPS

-----------------------------------------------------------------------------
(* The burst arithmetic that both masters share.                           *)

(***************************************************************************)
(* The remainder of a division is smaller than the divisor.                *)
(***************************************************************************)
LEMMA RemainderBound ==
  ASSUME NEW a \in Int, NEW b \in Nat \ {0}
  PROVE  a % b \in 0..b - 1
  OBVIOUS

(***************************************************************************)
(* A number smaller than the divisor is its own remainder.                 *)
(***************************************************************************)
LEMMA SmallRemainder ==
  ASSUME NEW a \in Nat, NEW b \in Nat \ {0}, a < b
  PROVE  a % b = a
  OBVIOUS

(***************************************************************************)
(* The burst counts of a command never exceed the longest burst, and with  *)
(* bursts enabled a command that is not empty never gets an empty burst.   *)
(***************************************************************************)
LEMMA ShortCounts ==
  ASSUME NEW c, c.address \in Nat, c.length \in Nat
  PROVE  /\ short_first_burst_count(c) \in 0..MAX_BURST_COUNT
         /\ short_last_burst_count(c) \in 0..MAX_BURST_COUNT
         /\ BURST_ENABLE /\ c.length > 0 => short_first_burst_count(c) > 0
         /\ BURST_ENABLE => short_last_burst_count(c) > 0
<1>1. \A a \in Int : a % MAX_BURST_COUNT \in 0..MAX_BURST_COUNT - 1
  BY BurstAssumption, RemainderBound
<1>2. /\ address_burst_offset(c) \in 0..MAX_BURST_COUNT - 1
      /\ length_burst_offset(c) \in 0..MAX_BURST_COUNT - 1
  BY <1>1 DEF address_burst_offset, length_burst_offset
<1>3. short_first_burst_count(c) \in 0..MAX_BURST_COUNT
  BY <1>2, BurstAssumption DEF short_first_burst_count
<1>4. (c.length - short_first_burst_count(c)) % MAX_BURST_COUNT \in 0..MAX_BURST_COUNT - 1
  BY <1>1, <1>3, BurstAssumption
<1>5. short_last_burst_count(c) \in 0..MAX_BURST_COUNT
  BY <1>2, <1>4, BurstAssumption DEF short_last_burst_count
<1>6. ASSUME BURST_ENABLE, c.length > 0
      PROVE  short_first_burst_count(c) > 0
  <2>1. CASE c.length < MAX_BURST_COUNT - address_burst_offset(c)
    <3>1. length_burst_offset(c) = c.length
      BY <1>2, <2>1, SmallRemainder, BurstAssumption DEF length_burst_offset
    <3>. QED  BY <1>6, <2>1, <3>1 DEF short_first_burst_count
  <2>2. CASE ~(c.length < MAX_BURST_COUNT - address_burst_offset(c))
    BY <1>2, <1>6, <2>2, BurstAssumption DEF short_first_burst_count
  <2>. QED  BY <2>1, <2>2
<1>7. BURST_ENABLE => short_last_burst_count(c) > 0
  BY <1>2, <1>4, BurstAssumption DEF short_last_burst_count
<1>. QED  BY <1>3, <1>5, <1>6, <1>7

(***************************************************************************)
(* Division with a remainder, and that the remainder is the only one.      *)
(***************************************************************************)
LEMMA Quotient ==
  ASSUME NEW x \in Int, NEW m \in Nat \ {0}
  PROVE  \E q \in Int : x = m * q + (x % m)
<1>1. x \div m \in Int /\ x = m * (x \div m) + (x % m)
  OBVIOUS
<1>. QED  BY <1>1

LEMMA OneRemainder ==
  ASSUME NEW r \in Nat, NEW q \in Int, NEW m \in Nat \ {0}, r < m
  PROVE  (m * q + r) % m = r
  OBVIOUS

(***************************************************************************)
(* A multiple of the divisor does not change the remainder.                *)
(***************************************************************************)
LEMMA MultipleAdded ==
  ASSUME NEW x \in Int, NEW y \in Int, NEW m \in Nat \ {0}, x % m = 0
  PROVE  (x + y) % m = y % m
<1>. DEFINE r == y % m
<1>1. PICK p \in Int : x = m * p + (x % m)
  BY Quotient
<1>2. x = m * p
  BY <1>1
<1>3. PICK q \in Int : y = m * q + r
  BY Quotient
<1>4. r \in Nat /\ r < m
  BY RemainderBound
<1>. HIDE DEF r
<1>5. m * (p + q) = m * p + m * q /\ p + q \in Int
  OBVIOUS
<1>6. m * p \in Int /\ m * q \in Int
  OBVIOUS
<1>7. x + y = m * (p + q) + r
  BY <1>2, <1>3, <1>4, <1>5, <1>6
<1>8. (m * (p + q) + r) % m = r
  BY <1>4, <1>5, OneRemainder
<1>. QED  BY <1>7, <1>8 DEF r

LEMMA DivisorTaken ==
  ASSUME NEW x \in Int, NEW m \in Nat \ {0}
  PROVE  /\ (x - m) % m = x % m
         /\ (x + m) % m = x % m
         /\ m % m = 0
<1>. DEFINE back == 0 - m
<1>1. m % m = 0 /\ back % m = 0 /\ back \in Int
  OBVIOUS
<1>2. back + x = x - m /\ m + x = x + m
  OBVIOUS
<1>. HIDE DEF back
<1>3. (back + x) % m = x % m
  BY <1>1, MultipleAdded
<1>4. (m + x) % m = x % m
  BY <1>1, MultipleAdded, m \in Int
<1>. QED  BY <1>1, <1>2, <1>3, <1>4

(***************************************************************************)
(* The first count of a command ends at a burst boundary or at its end,    *)
(* and the last count leaves whole bursts before it.                       *)
(***************************************************************************)
LEMMA CountsFit ==
  ASSUME BURST_ENABLE, NEW c, c.address \in Nat, c.length \in Nat \ {0}
  PROVE  /\ short_first_burst_count(c) <= c.length
         /\ (c.address % MAX_BURST_COUNT) + short_first_burst_count(c) <= MAX_BURST_COUNT
         /\ c.length - short_first_burst_count(c) > 0
              => (c.address + short_first_burst_count(c)) % MAX_BURST_COUNT = 0
         /\ short_last_burst_count(c) % MAX_BURST_COUNT
              = (IF BURST_REALIGN_ENABLE THEN c.length - short_first_burst_count(c)
                 ELSE c.length) % MAX_BURST_COUNT
<1>. DEFINE M     == MAX_BURST_COUNT
            a     == c.address
            l     == c.length
            off   == a % M
            first == short_first_burst_count(c)
            words == IF BURST_REALIGN_ENABLE THEN l - first ELSE l
<1>0. M \in Nat \ {0} /\ a \in Nat /\ l \in Nat \ {0}
  BY BurstAssumption
<1>1. off \in 0..M - 1
  <2>. HIDE DEF M, a
  <2>. QED  BY <1>0, RemainderBound
<1>2. first \in 0..M
  BY ShortCounts
<1>3. \/ l < M - off /\ first = l
      \/ l >= M - off /\ first = M - off
  <2>1. CASE l < M - off
    <3>1. l < M
      BY <1>0, <1>1, <2>1
    <3>2. l % M = l
      <4>. HIDE DEF M, l
      <4>. QED  BY <1>0, <3>1, SmallRemainder
    <3>. QED
      BY <2>1, <3>2 DEF short_first_burst_count, address_burst_offset, length_burst_offset
  <2>2. CASE ~(l < M - off)
    BY <1>0, <1>1, <2>2 DEF short_first_burst_count, address_burst_offset
  <2>. QED  BY <2>1, <2>2
<1>4. ASSUME l - first > 0
      PROVE  (a + first) % M = 0
  <2>1. first = M - off
    BY <1>0, <1>1, <1>3, <1>4
  <2>. HIDE DEF M, a, first
  <2>2. PICK q \in Int : a = M * q + off
    BY <1>0, Quotient, a \in Int
  <2>3. M * (q + 1) = M * q + M /\ M * q \in Int /\ q + 1 \in Int
    BY <1>0
  <2>. HIDE DEF off
  <2>4. a + first = M * (q + 1) + 0
    BY <1>0, <1>1, <2>1, <2>2, <2>3
  <2>5. (M * (q + 1) + 0) % M = 0
    BY <1>0, <2>3, OneRemainder
  <2>. QED  BY <2>4, <2>5
<1>5. short_last_burst_count(c) % M = words % M
  <2>. DEFINE rest == words % M
              last == short_last_burst_count(c)
  <2>1. words \in Int
    BY <1>0, <1>2
  <2>3. last = IF rest = 0 THEN M ELSE rest
    BY DEF short_last_burst_count, length_burst_offset
  <2>. HIDE DEF M, words, last
  <2>2. rest \in 0..M - 1
    BY <1>0, <2>1, RemainderBound
  <2>. HIDE DEF rest
  <2>4. rest % M = rest
    BY <1>0, <2>2, SmallRemainder
  <2>5. M % M = 0
    BY <1>0, DivisorTaken
  <2>6. last % M = rest
    BY <2>3, <2>4, <2>5
  <2>. QED  BY <2>6 DEF rest, last, words
<1>6. first <= l /\ off + first <= M
  <2>. HIDE DEF first, off, M, l
  <2>. QED  BY <1>0, <1>1, <1>2, <1>3
<1>. QED  BY <1>4, <1>5, <1>6

(***************************************************************************)
(* When the words left are whole bursts and a last one, the count picked by*)
(* comparing them with the last count, or with another one where the last  *)
(* is a whole burst, takes a burst that is there and leaves as much again. *)
(***************************************************************************)
LEMMA CountPicked ==
  ASSUME NEW words \in Nat \ {0}, NEW last \in 1..MAX_BURST_COUNT, NEW shown \in Int,
         words % MAX_BURST_COUNT = last % MAX_BURST_COUNT,
         last = MAX_BURST_COUNT \/ last = shown,
         NEW count, count = IF words = shown THEN last ELSE MAX_BURST_COUNT
  PROVE  /\ count \in 1..MAX_BURST_COUNT
         /\ count <= words
         /\ words - count > 0 =>
              /\ count = MAX_BURST_COUNT
              /\ (words - count) % MAX_BURST_COUNT = last % MAX_BURST_COUNT
<1>. DEFINE M == MAX_BURST_COUNT
<1>1. M \in Nat \ {0}
  BY BurstAssumption
<1>. HIDE DEF M
<1>2. CASE words < M
  <2>1. words % M = words
    BY <1>1, <1>2, SmallRemainder
  <2>2. M % M = 0
    BY <1>1, DivisorTaken
  <2>3. last # M
    BY <2>1, <2>2 DEF M
  <2>4. last \in Nat /\ last < M
    BY <1>1, <2>3 DEF M
  <2>5. last % M = last
    BY <1>1, <2>4, SmallRemainder
  <2>6. count = last /\ last = words
    BY <2>1, <2>3, <2>5 DEF M
  <2>. QED  BY <1>1, <2>6
<1>3. CASE words >= M
  <2>1. count \in 1..M /\ count <= words
    BY <1>1, <1>3 DEF M
  <2>2. words - count > 0 => count = M
    BY <1>1, <1>3 DEF M
  <2>3. (words - M) % M = words % M
    BY <1>1, DivisorTaken, words \in Int
  <2>. QED  BY <2>1, <2>2, <2>3 DEF M
<1>. QED  BY <1>1, <1>2, <1>3

-----------------------------------------------------------------------------
(***************************************************************************)
(* The count the multiplexer picks never exceeds the longest burst.        *)
(***************************************************************************)
LEMMA BurstCountBound ==
  ASSUME TypeOK, NEW complete \in BOOLEAN
  PROVE  burst_count(complete) \in 0..MAX_BURST_COUNT
  BY BurstAssumption DEF TypeOK, burst_count, burst_count_mux

(***************************************************************************)
(* A counter of the length's width stays in range when it moves by at most *)
(* one burst.                                                              *)
(***************************************************************************)
LEMMA WrapInRange ==
  ASSUME NEW x \in 0..LENGTH_WORDS - 1, NEW n \in 0..MAX_BURST_COUNT
  PROVE  /\ Wrap(x + n) \in 0..LENGTH_WORDS - 1
         /\ Wrap(x - n) \in 0..LENGTH_WORDS - 1
  BY BurstAssumption, ReaderAssumption DEF Wrap

(***************************************************************************)
(* One clock edge keeps every register within its width.                   *)
(***************************************************************************)
LEMMA ClockType ==
  ASSUME TypeOK,
         NEW waitrequest \in BOOLEAN, NEW readdatavalid \in BOOLEAN,
         NEW fifo_read \in BOOLEAN, NEW snk_command_valid \in BOOLEAN,
         Clock(waitrequest, readdatavalid, fifo_read, snk_command_valid)
  PROVE  TypeOK'
<1>. DEFINE load     == snk_command_valid /\ snk_command_ready
            complete == transfer_complete(waitrequest)
<1>1. /\ load \in BOOLEAN
      /\ complete \in BOOLEAN
  BY DEF snk_command_ready, transfer_complete, TypeOK
<1>2. /\ Datapath(load, complete)
      /\ Control(load, complete)
      /\ Credit(complete, readdatavalid, fifo_read)
      /\ History(load, complete)
      /\ readdatavalid => pending_reads_counter > 0
      /\ fifo_read => fifo_used > 0
      /\ snk_command_valid => commands # <<>>
  BY DEF Clock
<1>. HIDE DEF load, complete
<1>3. load => commands # <<>>
  BY <1>2 DEF load
<1>4. snk_command_data \in Command
  BY DEF snk_command_data, TypeOK
<1>5. burst_count(complete) \in 0..MAX_BURST_COUNT
  BY <1>1, BurstCountBound
<1>6. /\ load_command_d1' \in BOOLEAN
      /\ master_active' \in BOOLEAN
      /\ read' \in BOOLEAN
  BY <1>1, <1>2 DEF Control, ControlWith, TypeOK
<1>7. /\ first_transfer' \in BOOLEAN
      /\ early_done_enable' \in BOOLEAN
      /\ base_address' \in Nat
      /\ transfer_address' \in Nat
      /\ transfer_counter' \in 0..LENGTH_WORDS - 1
      /\ next_length_counter' \in 0..LENGTH_WORDS - 1
      /\ short_first_burst_count_d1' \in 0..MAX_BURST_COUNT
      /\ short_last_burst_count_d1' \in 0..MAX_BURST_COUNT
      /\ burst_count_d1' \in 0..MAX_BURST_COUNT
  <2>1. CASE load
    <3>1. /\ snk_command_data.address \in Nat
          /\ snk_command_data.length \in 0..LENGTH_WORDS - 1
          /\ snk_command_data.early_done \in BOOLEAN
      BY <1>4 DEF Command
    <3>2. /\ short_first_burst_count(snk_command_data) \in 0..MAX_BURST_COUNT
          /\ short_last_burst_count(snk_command_data) \in 0..MAX_BURST_COUNT
      BY <3>1, ShortCounts
    <3>3. /\ LatchCommand(snk_command_data)
          /\ 0 \in 0..LENGTH_WORDS - 1
      BY <1>2, <2>1, ReaderAssumption, BurstAssumption DEF Datapath
    <3>. QED  BY <3>1, <3>2, <3>3 DEF LatchCommand, TypeOK
  <2>2. CASE ~load /\ (complete \/ load_command_d1)
    <3>1. /\ Wrap(transfer_counter + burst_count(complete)) \in 0..LENGTH_WORDS - 1
          /\ Wrap(next_length_counter - burst_count(complete)) \in 0..LENGTH_WORDS - 1
      BY <1>5, WrapInRange DEF TypeOK
    <3>2. /\ Advance(complete)
          /\ UNCHANGED <<early_done_enable, base_address, short_first_burst_count_d1,
                         short_last_burst_count_d1>>
      BY <1>2, <2>2 DEF Datapath
    <3>3. (first_transfer /\ ~complete) \in BOOLEAN
      BY <1>1 DEF TypeOK
    <3>. QED  BY <1>5, <3>1, <3>2, <3>3 DEF Advance, TypeOK
  <2>3. CASE ~load /\ ~complete /\ ~load_command_d1
    BY <1>2, <2>3 DEF Datapath, TypeOK
  <2>. QED  BY <2>1, <2>2, <2>3
<1>8. /\ pending_reads_counter' \in Nat
      /\ fifo_used' \in Nat
  BY <1>1, <1>2, BurstAssumption DEF Credit, TypeOK
<1>9. /\ commands' \in Seq(Command)
      /\ job' \in Command
      /\ posted' \in Nat
      /\ burst' \in [address : Nat, count : 0..MAX_BURST_COUNT]
  BY <1>2, <1>3, BurstAssumption DEF History, TypeOK
<1>. QED  BY <1>6, <1>7, <1>8, <1>9 DEF TypeOK

(***************************************************************************)
(* Every register of the read master always stays within its width.        *)
(***************************************************************************)
THEOREM TypeCorrect == Spec => []TypeOK
<1>1. Init => TypeOK
  <2>. SUFFICES ASSUME Init PROVE TypeOK
    OBVIOUS
  <2>1. commands \in Seq(Command)
    BY ReaderAssumption DEF Init
  <2>2. NoCommand \in Command
    BY ReaderAssumption, BurstAssumption DEF NoCommand, Command
  <2>3. /\ 0 \in 0..LENGTH_WORDS - 1
        /\ 0 \in 0..MAX_BURST_COUNT
        /\ 0 \in Nat
    BY ReaderAssumption, BurstAssumption
  <2>4. burst \in [address : Nat, count : 0..MAX_BURST_COUNT]
    BY <2>3 DEF Init
  <2>. QED  BY <2>1, <2>2, <2>3, <2>4 DEF Init, TypeOK
<1>2. TypeOK /\ [Next]_vars => TypeOK'
  <2>. SUFFICES ASSUME TypeOK, [Next]_vars PROVE TypeOK'
    OBVIOUS
  <2>1. CASE \E waitrequest, readdatavalid, fifo_read, snk_command_valid \in BOOLEAN :
               Clock(waitrequest, readdatavalid, fifo_read, snk_command_valid)
    BY <2>1, ClockType
  <2>2. CASE NewTest
    BY <2>2, ReaderAssumption DEF NewTest, TypeOK, registers, history
  <2>3. CASE UNCHANGED vars
    BY <2>3 DEF vars, registers, history, TypeOK
  <2>. QED  BY <2>1, <2>2, <2>3 DEF Next
<1>. QED  BY <1>1, <1>2, PTL DEF Spec

(***************************************************************************)
(* A read on the bus always has room for a whole burst in the FIFO, and the*)
(* FIFO together with the words on their way to it never exceeds its depth.*)
(***************************************************************************)
THEOREM CreditIsSafe == Spec => []RoomForPostedRead
<1>. USE ReaderAssumption, BurstAssumption
<1>1. Init => RoomForPostedRead
  BY DEF Init, RoomForPostedRead
<1>2. TypeOK /\ RoomForPostedRead /\ [Next]_vars => RoomForPostedRead'
  <2>. SUFFICES ASSUME TypeOK, RoomForPostedRead, [Next]_vars PROVE RoomForPostedRead'
    OBVIOUS
  <2>1. ASSUME NEW waitrequest \in BOOLEAN, NEW readdatavalid \in BOOLEAN,
               NEW fifo_read \in BOOLEAN, NEW snk_command_valid \in BOOLEAN,
               Clock(waitrequest, readdatavalid, fifo_read, snk_command_valid)
        PROVE  RoomForPostedRead'
    <3>. DEFINE load     == snk_command_valid /\ snk_command_ready
                complete == transfer_complete(waitrequest)
                credit   == fifo_used + pending_reads_counter
    <3>1. /\ complete \in BOOLEAN
          /\ load \in BOOLEAN
          /\ complete => read
          /\ load => ~master_active
      BY DEF snk_command_ready, transfer_complete, TypeOK
    <3>2. /\ Control(load, complete)
          /\ Credit(complete, readdatavalid, fifo_read)
      BY <2>1 DEF Clock
    <3>. HIDE DEF load, complete
    (* The words held and due grow by the burst that is accepted and only   *)
    (* shrink otherwise: a returned word moves from one side to the other.  *)
    <3>3. /\ credit' <= credit + (IF complete THEN burst_count_d1 ELSE 0)
          /\ credit \in Nat
          /\ credit' \in Int
      BY <3>1, <3>2 DEF Credit, TypeOK
    <3>4. credit' <= FIFO_DEPTH
      BY <3>1, <3>3 DEF RoomForPostedRead, TypeOK
    <3>5. ASSUME read'
          PROVE  credit' <= FIFO_DEPTH - MAX_BURST_COUNT
      (* A read that goes on was accepted with two bursts of room, or waits. *)
      <4>1. CASE read /\ complete
        <5>1. ~too_many_pending_reads
          BY <3>2, <3>5, <4>1 DEF Control, ControlWith
        <5>. QED  BY <3>3, <4>1, <5>1 DEF too_many_pending_reads, TypeOK
      <4>2. CASE read /\ ~complete
        BY <3>3, <4>2 DEF RoomForPostedRead, TypeOK
      <4>3. CASE ~read
        <5>1. ~too_many_pending_reads /\ ~complete
          BY <3>1, <3>2, <3>5, <4>3 DEF Control, ControlWith
        <5>. QED  BY <3>3, <5>1 DEF too_many_pending_reads, TypeOK
      <4>. QED  BY <4>1, <4>2, <4>3 DEF TypeOK
    <3>6. read' => master_active'
      BY <3>1, <3>2 DEF Control, ControlWith, RoomForPostedRead, TypeOK
    <3>. QED  BY <3>4, <3>5, <3>6 DEF RoomForPostedRead
  <2>2. CASE NewTest
    BY <2>2 DEF NewTest, registers, RoomForPostedRead
  <2>3. CASE UNCHANGED vars
    BY <2>3 DEF vars, registers, RoomForPostedRead
  <2>. QED  BY <2>1, <2>2, <2>3 DEF Next
<1>. QED  BY <1>1, <1>2, TypeCorrect, PTL DEF Spec

(***************************************************************************)
(* The internal FIFO of the read master, whose overflow checking is off,   *)
(* never overflows.                                                        *)
(***************************************************************************)
THEOREM FifoIsSafe == Spec => []FifoNeverOverflows
<1>1. RoomForPostedRead => FifoNeverOverflows
  BY DEF RoomForPostedRead, FifoNeverOverflows
<1>. QED  BY <1>1, CreditIsSafe, PTL

(***************************************************************************)
(* While a command is executed both short counts latched with it, and from *)
(* the cycle behind the latch the count of the burst, are not 0.  Only a   *)
(* command without a word could latch 0.                                   *)
(***************************************************************************)
NonEmpty == \A plan \in Plans : \A i \in DOMAIN plan : plan[i].length > 0

BurstsNotEmpty ==
  /\ \A i \in DOMAIN commands : commands[i].length > 0
  /\ load_command_d1 => ~read
  /\ BURST_ENABLE /\ master_active =>
       short_first_burst_count_d1 > 0 /\ short_last_burst_count_d1 > 0
  /\ master_active /\ ~load_command_d1 => burst_count_d1 > 0

(***************************************************************************)
(* A clock edge never empties a burst, and it leaves a burst that waits for*)
(* the slave as it is: its command cannot be replaced, for the reader is   *)
(* active, and its counts do not move before it is accepted.               *)
(***************************************************************************)
LEMMA ClockHolds ==
  ASSUME TypeOK, RoomForPostedRead, BurstsNotEmpty,
         NEW waitrequest \in BOOLEAN, NEW readdatavalid \in BOOLEAN,
         NEW fifo_read \in BOOLEAN, NEW snk_command_valid \in BOOLEAN,
         Clock(waitrequest, readdatavalid, fifo_read, snk_command_valid)
  PROVE  /\ BurstsNotEmpty'
         /\ read /\ posted' = posted
              => read' /\ UNCHANGED <<transfer_address, burst_count_d1>>
<1>. DEFINE load     == snk_command_valid /\ snk_command_ready
            complete == transfer_complete(waitrequest)
<1>1. /\ load \in BOOLEAN
      /\ complete \in BOOLEAN
      /\ complete => read
      /\ load => ~master_active /\ commands # <<>>
      /\ read /\ waitrequest => ~complete
      /\ read /\ ~waitrequest => complete
  BY DEF Clock, snk_command_ready, transfer_complete, TypeOK
<1>2. /\ Datapath(load, complete)
      /\ Control(load, complete)
      /\ History(load, complete)
  BY DEF Clock
<1>. HIDE DEF load, complete
<1>3. /\ read => master_active /\ ~load /\ ~load_command_d1
      /\ read => burst_count_d1 > 0
  BY <1>1 DEF RoomForPostedRead, BurstsNotEmpty
<1>4. /\ load_command_d1' = load
      /\ master_active' => load \/ master_active
      /\ read' => read \/ master_active
  BY <1>1, <1>2 DEF Control, ControlWith, TypeOK
<1>5. /\ \A i \in DOMAIN commands' : commands'[i].length > 0
      /\ load => snk_command_data \in Command /\ snk_command_data.length > 0
  <2>1. CASE load
    <3>1. /\ commands # <<>>
          /\ commands \in Seq(Command)
          /\ commands' = Tail(commands)
          /\ snk_command_data = Head(commands)
      BY <1>1, <1>2, <2>1 DEF History, TypeOK, snk_command_data
    <3>. QED  BY <3>1 DEF BurstsNotEmpty
  <2>2. CASE ~load
    BY <1>2, <2>2 DEF History, BurstsNotEmpty
  <2>. QED  BY <2>1, <2>2
<1>6. BURST_ENABLE /\ master_active' =>
        short_first_burst_count_d1' > 0 /\ short_last_burst_count_d1' > 0
  <2>1. CASE load
    <3>1. /\ snk_command_data.address \in Nat
          /\ snk_command_data.length \in Nat
          /\ snk_command_data.length > 0
      BY <1>5, <2>1, ReaderAssumption DEF Command
    <3>. QED  BY <1>2, <2>1, <3>1, ShortCounts DEF Datapath, LatchCommand
  <2>2. CASE ~load
    BY <1>2, <1>4, <2>2 DEF Datapath, Advance, BurstsNotEmpty
  <2>. QED  BY <2>1, <2>2
<1>7. master_active' /\ ~load_command_d1' => burst_count_d1' > 0
  <2>. SUFFICES ASSUME master_active', ~load PROVE burst_count_d1' > 0
    BY <1>4
  <2>1. master_active
    BY <1>4
  <2>2. CASE complete \/ load_command_d1
    <3>1. burst_count_d1' = burst_count(complete)
      BY <1>2, <2>2 DEF Datapath, Advance
    <3>2. burst_count(complete) > 0
      BY <2>1, BurstAssumption
         DEF burst_count, burst_count_mux, BurstsNotEmpty, TypeOK
    <3>. QED  BY <3>1, <3>2
  <2>3. CASE ~complete /\ ~load_command_d1
    BY <1>2, <2>1, <2>3 DEF Datapath, BurstsNotEmpty
  <2>. QED  BY <2>2, <2>3
<1>8. load_command_d1' => ~read'
  BY <1>1, <1>3, <1>4 DEF TypeOK
<1>9. ASSUME read, posted' = posted
      PROVE  read' /\ UNCHANGED <<transfer_address, burst_count_d1>>
  <2>1. ~complete
    BY <1>2, <1>3, <1>9, BurstAssumption DEF History, TypeOK
  <2>. QED
    BY <1>1, <1>2, <1>3, <1>9, <2>1
       DEF Datapath, Control, ControlWith, reset_master_active
<1>. QED  BY <1>5, <1>6, <1>7, <1>8, <1>9 DEF BurstsNotEmpty

(***************************************************************************)
(* Avalon-MM: when no command is empty, the read master holds its request, *)
(* its address and its burst count for as long as the slave makes it wait. *)
(***************************************************************************)
THEOREM RequestsHeld ==
  ASSUME NonEmpty
  PROVE  Spec => HoldWhileWaiting
<1>1. Init => BurstsNotEmpty
  BY NonEmpty DEF Init, BurstsNotEmpty, NonEmpty
<1>2. TypeOK /\ RoomForPostedRead /\ BurstsNotEmpty /\ [Next]_vars
        => /\ BurstsNotEmpty'
           /\ [read /\ posted' = posted
                  => read' /\ UNCHANGED <<transfer_address, burst_count_d1>>]_vars
  <2>. SUFFICES ASSUME TypeOK, RoomForPostedRead, BurstsNotEmpty, [Next]_vars
                PROVE  /\ BurstsNotEmpty'
                       /\ [read /\ posted' = posted
                              => read' /\ UNCHANGED <<transfer_address, burst_count_d1>>]_vars
    OBVIOUS
  <2>1. CASE \E waitrequest, readdatavalid, fifo_read, snk_command_valid \in BOOLEAN :
               Clock(waitrequest, readdatavalid, fifo_read, snk_command_valid)
    BY <2>1, ClockHolds
  <2>2. CASE NewTest
    BY <2>2, NonEmpty DEF NewTest, registers, history, BurstsNotEmpty, NonEmpty
  <2>3. CASE UNCHANGED vars
    BY <2>3 DEF vars, registers, history, BurstsNotEmpty
  <2>. QED  BY <2>1, <2>2, <2>3 DEF Next
<1>. QED  BY <1>1, <1>2, TypeCorrect, CreditIsSafe, PTL DEF Spec, HoldWhileWaiting

(***************************************************************************)
(* The burst ahead: from the cycle behind the latch on, the registers hold *)
(* the burst to be posted next.  It continues where the one before ended,  *)
(* it fits into what is left of the command and, with realignment, into its*)
(* burst boundaries; behind it the words left are whole bursts and the last*)
(* one.                                                                    *)
(***************************************************************************)
Realigns == BURST_ENABLE /\ BURST_REALIGN_ENABLE

BurstAhead ==
  /\ transfer_address = job.address + posted
  /\ transfer_counter = posted + burst_count_d1
  /\ posted + burst_count_d1 + next_length_counter = job.length

WholeBurstsBehind ==
  BURST_ENABLE /\ next_length_counter > 0 =>
    next_length_counter % MAX_BURST_COUNT = short_last_burst_count(job) % MAX_BURST_COUNT

WithinBoundary ==
  Realigns =>
    /\ ((job.address + posted) % MAX_BURST_COUNT) + burst_count_d1 <= MAX_BURST_COUNT
    /\ next_length_counter > 0 =>
         (job.address + posted + burst_count_d1) % MAX_BURST_COUNT = 0

(***************************************************************************)
(* The commands that wait are commands of the plans and each of them, like *)
(* the one being executed, ends as the next one lets it end.               *)
(***************************************************************************)
CommandsInLine ==
  /\ \A i \in DOMAIN commands : Span(commands[i]) \in PlannedSpans
  /\ Compatible(commands)
  /\ master_active /\ commands # <<>> => SameEnding(job, Head(commands))

(***************************************************************************)
(* The command being executed is the one that was latched, and the reader  *)
(* is idle only when every word of it has been posted.                     *)
(***************************************************************************)
CommandLatched ==
  /\ master_active =>
       /\ base_address = job.address
       /\ short_first_burst_count_d1 = short_first_burst_count(job)
       /\ short_last_burst_count_d1 = short_last_burst_count(job)
       /\ job.length > 0
  /\ load_command_d1 =>
       /\ master_active /\ first_transfer
       /\ posted = 0 /\ transfer_counter = 0 /\ next_length_counter = job.length
  /\ ~master_active => posted = job.length

OnPlan ==
  /\ CommandsInLine
  /\ CommandLatched
  /\ master_active /\ ~load_command_d1 => BurstAhead /\ WholeBurstsBehind /\ WithinBoundary

ReaderInvariant == TypeOK /\ RoomForPostedRead /\ BurstsNotEmpty /\ OnPlan

(***************************************************************************)
(* What the comparison with the command on the port picks while words are  *)
(* left: a burst that is there, leaving whole bursts and the last one.     *)
(***************************************************************************)
Picks(words, count) ==
  /\ count \in 1..MAX_BURST_COUNT
  /\ count <= words
  /\ BURST_ENABLE /\ words - count > 0 =>
       /\ count = MAX_BURST_COUNT
       /\ (words - count) % MAX_BURST_COUNT = short_last_burst_count(job) % MAX_BURST_COUNT

Compared(count) ==
  count = burst_count_mux(enable_short_last_burst, FALSE,
                          short_last_burst_count_d1, short_first_burst_count_d1)

FirstCount(count) == count = burst_count(FALSE)

LEMMA JobTypes ==
  ASSUME ReaderInvariant
  PROVE  /\ job.address \in Nat /\ job.length \in 0..LENGTH_WORDS - 1
         /\ snk_command_data.address \in Nat
         /\ snk_command_data.length \in 0..LENGTH_WORDS - 1
         /\ BURST_ENABLE => /\ short_last_burst_count(job) \in 1..MAX_BURST_COUNT
                            /\ short_last_burst_count(snk_command_data) \in Nat
<1>1. job \in Command /\ snk_command_data \in Command
  BY DEF ReaderInvariant, TypeOK, snk_command_data
<1>2. /\ job.address \in Nat /\ job.length \in 0..LENGTH_WORDS - 1
      /\ snk_command_data.address \in Nat
      /\ snk_command_data.length \in 0..LENGTH_WORDS - 1
  BY <1>1 DEF Command
<1>3. /\ short_last_burst_count(job) \in 0..MAX_BURST_COUNT
      /\ BURST_ENABLE => short_last_burst_count(job) > 0
  BY <1>2, ShortCounts, ReaderAssumption
<1>4. short_last_burst_count(snk_command_data) \in 0..MAX_BURST_COUNT
  BY <1>2, ShortCounts, ReaderAssumption
<1>. QED  BY <1>2, <1>3, <1>4, BurstAssumption

LEMMA ComparisonPicks ==
  ASSUME ReaderInvariant, master_active, next_length_counter > 0,
         WholeBurstsBehind, NEW count, Compared(count)
  PROVE  Picks(next_length_counter, count)
<1>1. CASE ~BURST_ENABLE
  <2>1. count = 1
    BY <1>1 DEF Compared, burst_count_mux
  <2>2. next_length_counter \in 0..LENGTH_WORDS - 1 /\ LENGTH_WORDS \in Nat
    BY ReaderAssumption DEF ReaderInvariant, TypeOK
  <2>. QED  BY <1>1, <2>1, <2>2, BurstAssumption DEF Picks
<1>2. CASE BURST_ENABLE
  <2>. DEFINE words == next_length_counter
              last  == short_last_burst_count(job)
              shown == short_last_burst_count(snk_command_data)
  <2>1. words \in Nat \ {0}
    BY ReaderAssumption DEF ReaderInvariant, TypeOK
  <2>2. last \in 1..MAX_BURST_COUNT /\ shown \in Int
    BY <1>2, JobTypes
  <2>3. words % MAX_BURST_COUNT = last % MAX_BURST_COUNT
    BY <1>2 DEF WholeBurstsBehind
  <2>4. last = MAX_BURST_COUNT \/ last = shown
    <3>1. CASE commands = <<>>
      BY <3>1 DEF snk_command_data
    <3>2. CASE commands # <<>>
      BY <3>2 DEF snk_command_data, ReaderInvariant, OnPlan, CommandsInLine, SameEnding
    <3>. QED  BY <3>1, <3>2
  <2>5. count = IF words = shown THEN last ELSE MAX_BURST_COUNT
    BY <1>2 DEF Compared, burst_count_mux, enable_short_last_burst, ReaderInvariant, OnPlan, CommandLatched
  <2>. HIDE DEF words, last, shown
  <2>6. /\ count \in 1..MAX_BURST_COUNT
        /\ count <= words
        /\ words - count > 0 =>
             /\ count = MAX_BURST_COUNT
             /\ (words - count) % MAX_BURST_COUNT = last % MAX_BURST_COUNT
    BY <2>1, <2>2, <2>3, <2>4, <2>5, CountPicked
  <2>. QED  BY <2>6 DEF Picks, words, last
<1>. QED  BY <1>1, <1>2

(***************************************************************************)
(* The burst behind one that was accepted.                                 *)
(***************************************************************************)
LEMMA NextBurst ==
  ASSUME ReaderInvariant, master_active, ~load_command_d1, next_length_counter > 0
  PROVE  Picks(next_length_counter, burst_count(TRUE))
<1>1. WholeBurstsBehind
  BY DEF ReaderInvariant, OnPlan
<1>2. Compared(burst_count(TRUE))
  BY DEF Compared, burst_count
<1>. QED  BY <1>1, <1>2, ComparisonPicks

(***************************************************************************)
(* The first burst of a command.                                           *)
(***************************************************************************)
LEMMA FirstBurst ==
  ASSUME ReaderInvariant, load_command_d1,
         NEW count, FirstCount(count),
         NEW left, left = job.length - count
  PROVE  /\ count \in 1..MAX_BURST_COUNT
         /\ left >= 0
         /\ BURST_ENABLE /\ left > 0 =>
              left % MAX_BURST_COUNT = short_last_burst_count(job) % MAX_BURST_COUNT
         /\ Realigns =>
              /\ (job.address % MAX_BURST_COUNT) + count <= MAX_BURST_COUNT
              /\ left > 0 => (job.address + count) % MAX_BURST_COUNT = 0
<1>1. /\ master_active /\ first_transfer /\ next_length_counter = job.length
      /\ short_first_burst_count_d1 = short_first_burst_count(job)
      /\ job.length > 0
  BY DEF ReaderInvariant, OnPlan, CommandLatched
<1>2. job.address \in Nat /\ job.length \in Nat \ {0}
  BY <1>1, JobTypes, ReaderAssumption
<1>3. CASE Realigns
  <2>1. count = short_first_burst_count(job)
    BY <1>1, <1>3 DEF FirstCount, burst_count, burst_count_mux, Realigns
  <2>2. count \in 1..MAX_BURST_COUNT
    <3>1. job.length \in Nat /\ job.length > 0 /\ BURST_ENABLE
      BY <1>2, <1>3 DEF Realigns
    <3>2. short_first_burst_count(job) \in 0..MAX_BURST_COUNT /\ short_first_burst_count(job) > 0
      BY <1>2, <3>1, ShortCounts
    <3>. QED  BY <2>1, <3>2, BurstAssumption
  <2>3. /\ count <= job.length
        /\ (job.address % MAX_BURST_COUNT) + count <= MAX_BURST_COUNT
        /\ job.length - count > 0 => (job.address + count) % MAX_BURST_COUNT = 0
        /\ short_last_burst_count(job) % MAX_BURST_COUNT = (job.length - count) % MAX_BURST_COUNT
    BY <1>2, <1>3, <2>1, CountsFit DEF Realigns
  <2>4. left >= 0
    BY <1>2, <2>2, <2>3, BurstAssumption
  <2>. QED  BY <2>2, <2>3, <2>4
<1>4. CASE ~Realigns
  <2>1. WholeBurstsBehind
    <3>1. BURST_ENABLE => short_last_burst_count(job) % MAX_BURST_COUNT
                            = job.length % MAX_BURST_COUNT
      BY <1>2, <1>4, CountsFit DEF Realigns
    <3>. QED  BY <1>1, <3>1 DEF WholeBurstsBehind
  <2>2. Compared(count)
    BY <1>4 DEF Compared, FirstCount, burst_count, burst_count_mux, Realigns
  <2>3. Picks(next_length_counter, count)
    BY <1>1, <2>1, <2>2, ComparisonPicks
  <2>4. count \in 1..MAX_BURST_COUNT /\ count <= job.length /\ left >= 0
    BY <1>1, <1>2, <2>3, BurstAssumption DEF Picks
  <2>. QED  BY <1>1, <1>4, <2>3, <2>4 DEF Picks
<1>. QED  BY <1>3, <1>4

(***************************************************************************)
(* One clock edge: the reader accepts a command, posts the burst ahead, or *)
(* leaves what BurstMaster sees alone; and it stays on its plan.           *)
(***************************************************************************)
StaysOnPlan == OnPlan' /\ [BM!Next]_BM!vars

LEMMA LoadOnPlan ==
  ASSUME ReaderInvariant, TypeOK', ~master_active, commands # <<>>,
         Datapath(TRUE, FALSE), Control(TRUE, FALSE), History(TRUE, FALSE),
         commands[1].length > 0
  PROVE  StaysOnPlan
<1>1. /\ commands \in Seq(Command)
      /\ snk_command_data = commands[1]
      /\ commands' = Tail(commands)
      /\ job' = commands[1]
      /\ posted' = 0
      /\ burst' = burst
  BY DEF ReaderInvariant, TypeOK, snk_command_data, History
<1>2. /\ load_command_d1' = TRUE
      /\ master_active' = TRUE
  BY DEF Control, ControlWith, reset_master_active
<1>3. LatchCommand(commands[1])
  BY <1>1 DEF Datapath
<1>4. CommandsInLine'
  <2>1. /\ Len(commands) \in Nat /\ Len(commands') = Len(commands) - 1
        /\ \A i \in 1..Len(commands) - 1 : commands'[i] = commands[i + 1]
        /\ DOMAIN commands = 1..Len(commands) /\ DOMAIN commands' = 1..Len(commands')
    BY <1>1
  <2>2. \A i \in DOMAIN commands' : Span(commands'[i]) \in PlannedSpans
    BY <2>1 DEF ReaderInvariant, OnPlan, CommandsInLine
  <2>3. \A i \in 1..Len(commands') - 1 : SameEnding(commands'[i], commands'[i + 1])
    BY <2>1 DEF ReaderInvariant, OnPlan, CommandsInLine, Compatible
  <2>4. commands' # <<>> => SameEnding(commands[1], commands'[1])
    BY <1>1, <2>1 DEF ReaderInvariant, OnPlan, CommandsInLine, Compatible
  <2>5. commands' # <<>> => Head(commands') = commands'[1]
    BY <1>1
  <2>6. Compatible(commands')
    BY <2>3 DEF Compatible
  <2>7. commands' # <<>> => SameEnding(job', Head(commands'))
    BY <1>1, <2>4, <2>5
  <2>. QED  BY <2>2, <2>6, <2>7 DEF CommandsInLine, Compatible, SameEnding
<1>5. CommandLatched'
  BY <1>1, <1>2, <1>3 DEF CommandLatched, LatchCommand
<1>6. BM!Accept
  <2>1. 1 \in DOMAIN commands
    BY <1>1
  <2>2. Span(job') \in PlannedSpans
    BY <1>1, <2>1 DEF ReaderInvariant, OnPlan, CommandsInLine
  <2>3. posted = Span(job).length
    BY DEF ReaderInvariant, OnPlan, CommandLatched, Span
  <2>. QED  BY <1>1, <2>2, <2>3 DEF BM!Accept, Span
<1>. QED  BY <1>2, <1>4, <1>5, <1>6 DEF StaysOnPlan, OnPlan, BM!Next

LEMMA AheadOnPlan ==
  ASSUME ReaderInvariant, TypeOK', load_command_d1,
         Datapath(FALSE, FALSE), Control(FALSE, FALSE), History(FALSE, FALSE)
  PROVE  StaysOnPlan
<1>. DEFINE count == burst_count(FALSE)
            left  == job.length - count
<1>1. /\ UNCHANGED <<commands, job, posted, burst>>
      /\ master_active /\ posted = 0 /\ transfer_counter = 0
      /\ next_length_counter = job.length /\ base_address = job.address
  BY DEF History, ReaderInvariant, OnPlan, CommandLatched
<1>2. load_command_d1' = FALSE /\ master_active' = TRUE
  BY <1>1 DEF Control, ControlWith, reset_master_active
<1>3. /\ Advance(FALSE)
      /\ UNCHANGED <<base_address, short_first_burst_count_d1, short_last_burst_count_d1>>
  BY DEF Datapath
<1>4. FirstCount(count)
  BY DEF FirstCount
<1>5. job.address \in Nat /\ job.length \in 0..LENGTH_WORDS - 1
  BY JobTypes
<1>6. /\ transfer_counter' = Wrap(transfer_counter + count)
      /\ transfer_address' = base_address + transfer_counter
      /\ next_length_counter' = Wrap(next_length_counter - count)
      /\ burst_count_d1' = count
  BY <1>3 DEF Advance
<1>. HIDE DEF count
<1>7. /\ count \in 1..MAX_BURST_COUNT
      /\ left >= 0
      /\ BURST_ENABLE /\ left > 0 =>
           left % MAX_BURST_COUNT = short_last_burst_count(job) % MAX_BURST_COUNT
      /\ Realigns =>
           /\ (job.address % MAX_BURST_COUNT) + count <= MAX_BURST_COUNT
           /\ left > 0 => (job.address + count) % MAX_BURST_COUNT = 0
  BY <1>4, FirstBurst
<1>8. /\ transfer_counter' = count
      /\ transfer_address' = job.address
      /\ next_length_counter' = left
  BY <1>1, <1>5, <1>6, <1>7, ReaderAssumption, BurstAssumption DEF Wrap
<1>9. BurstAhead'
  BY <1>1, <1>5, <1>6, <1>7, <1>8, BurstAssumption DEF BurstAhead
<1>10. WholeBurstsBehind'
  <2>1. short_last_burst_count(job)' = short_last_burst_count(job)
    BY <1>1 DEF short_last_burst_count, short_first_burst_count, length_burst_offset,
                address_burst_offset
  <2>. QED  BY <1>7, <1>8, <2>1 DEF WholeBurstsBehind
<1>11. WithinBoundary'
  <2>1. job'.address + posted' = job.address /\ job' = job /\ posted' = 0
    BY <1>1, <1>5
  <2>2. job'.address + posted' + burst_count_d1' = job.address + count
    BY <1>6, <2>1
  <2>. QED  BY <1>6, <1>7, <1>8, <2>1, <2>2 DEF WithinBoundary, Realigns
<1>12. CommandLatched'
  BY <1>1, <1>2, <1>3
     DEF CommandLatched, ReaderInvariant, OnPlan, short_last_burst_count,
         short_first_burst_count, length_burst_offset, address_burst_offset
<1>13. CommandsInLine'
  BY <1>1, <1>2
     DEF CommandsInLine, ReaderInvariant, OnPlan, SameEnding, Compatible, short_last_burst_count,
         short_first_burst_count, length_burst_offset, address_burst_offset
<1>. QED
  BY <1>1, <1>9, <1>10, <1>11, <1>12, <1>13 DEF StaysOnPlan, OnPlan, BM!vars, Span

LEMMA PostOnPlan ==
  ASSUME ReaderInvariant, TypeOK', read,
         Datapath(FALSE, TRUE), Control(FALSE, TRUE), History(FALSE, TRUE)
  PROVE  StaysOnPlan
<1>. DEFINE count == burst_count(TRUE)
<1>1. master_active /\ ~load_command_d1
  BY DEF ReaderInvariant, RoomForPostedRead, BurstsNotEmpty
<1>2. /\ UNCHANGED <<commands, job>>
      /\ posted' = posted + burst_count_d1
      /\ burst' = [address |-> transfer_address, count |-> burst_count_d1]
  BY DEF History
<1>3. /\ load_command_d1' = FALSE
      /\ master_active' => next_length_counter # 0
      /\ ~master_active' => next_length_counter = 0
  BY <1>1 DEF Control, ControlWith, reset_master_active
<1>4. /\ Advance(TRUE)
      /\ UNCHANGED <<base_address, short_first_burst_count_d1, short_last_burst_count_d1>>
  BY DEF Datapath
<1>5. /\ job.address \in Nat /\ job.length \in 0..LENGTH_WORDS - 1
      /\ posted \in Nat /\ next_length_counter \in 0..LENGTH_WORDS - 1
      /\ burst_count_d1 \in 1..MAX_BURST_COUNT
  BY <1>1, JobTypes, BurstAssumption DEF ReaderInvariant, TypeOK, BurstsNotEmpty
<1>6. /\ transfer_counter' = Wrap(transfer_counter + count)
      /\ transfer_address' = base_address + transfer_counter
      /\ next_length_counter' = Wrap(next_length_counter - count)
      /\ burst_count_d1' = count
  BY <1>4 DEF Advance
<1>7. next_length_counter > 0 => Picks(next_length_counter, count)
  BY <1>1, NextBurst
<1>. HIDE DEF count
<1>8. BurstAhead /\ WithinBoundary /\ base_address = job.address
  BY <1>1 DEF ReaderInvariant, OnPlan, CommandLatched
<1>9. UNCHANGED <<short_first_burst_count(job), short_last_burst_count(job)>>
  BY <1>2 DEF short_last_burst_count, short_first_burst_count, length_burst_offset,
              address_burst_offset
(* The burst ahead is one the reader has promised.                          *)
<1>10. BM!Post
  <2>1. /\ Span(job).address = job.address
        /\ Span(job).length = job.length
    BY DEF Span
  <2>2. posted + burst_count_d1 <= job.length
    BY <1>5, <1>8, ReaderAssumption DEF BurstAhead
  <2>3. burst' = [address |-> job.address + posted, count |-> burst_count_d1]
    BY <1>2, <1>8 DEF BurstAhead
  <2>4. Realigns =>
          ((job.address + posted) % MAX_BURST_COUNT) + burst_count_d1 <= MAX_BURST_COUNT
    BY <1>8 DEF WithinBoundary
  <2>. QED  BY <1>2, <1>5, <2>1, <2>2, <2>3, <2>4 DEF BM!Post, Span, Realigns
<1>n. master_active' => next_length_counter > 0
  BY <1>3, <1>5
<1>11. master_active' =>
         /\ count \in 1..MAX_BURST_COUNT
         /\ count <= next_length_counter
         /\ BURST_ENABLE /\ next_length_counter - count > 0 =>
              /\ count = MAX_BURST_COUNT
              /\ (next_length_counter - count) % MAX_BURST_COUNT
                   = short_last_burst_count(job) % MAX_BURST_COUNT
  BY <1>7, <1>n DEF Picks
<1>12. master_active' =>
         /\ transfer_counter' = posted' + count
         /\ transfer_address' = job.address + posted'
         /\ next_length_counter' = next_length_counter - count
         /\ posted' + next_length_counter = job.length
         /\ posted' \in Nat
  <2>. SUFFICES ASSUME master_active'
                PROVE  /\ transfer_counter' = posted' + count
                       /\ transfer_address' = job.address + posted'
                       /\ next_length_counter' = next_length_counter - count
                       /\ posted' + next_length_counter = job.length
                       /\ posted' \in Nat
    OBVIOUS
  <2>1. /\ transfer_counter = posted'
        /\ transfer_address' = job.address + posted'
        /\ posted' + next_length_counter = job.length
        /\ posted' \in Nat
    BY <1>2, <1>5, <1>6, <1>8, BurstAssumption DEF BurstAhead
  <2>2. count \in 1..MAX_BURST_COUNT /\ count <= next_length_counter
    BY <1>11
  <2>3. Wrap(transfer_counter + count) = posted' + count
    <3>. DEFINE p == posted'
    <3>1. p + next_length_counter \in 0..LENGTH_WORDS - 1 /\ p \in Nat /\ transfer_counter = p
      BY <1>5, <2>1
    <3>. HIDE DEF p
    <3>2. p + count \in 0..LENGTH_WORDS - 1
      BY <1>5, <2>2, <3>1, ReaderAssumption, BurstAssumption
    <3>3. Wrap(transfer_counter + count) = p + count
      BY <3>1, <3>2, ReaderAssumption DEF Wrap
    <3>. QED  BY <3>3 DEF p
  <2>4. Wrap(next_length_counter - count) = next_length_counter - count
    BY <1>5, <2>2, ReaderAssumption, BurstAssumption DEF Wrap
  <2>. QED  BY <1>6, <2>1, <2>3, <2>4
<1>13. master_active' => BurstAhead'
  BY <1>2, <1>5, <1>6, <1>11, <1>12, BurstAssumption DEF BurstAhead
<1>14. master_active' => WholeBurstsBehind'
  BY <1>9, <1>11, <1>12 DEF WholeBurstsBehind
<1>15. master_active' => WithinBoundary'
  <2>. SUFFICES ASSUME master_active', Realigns PROVE WithinBoundary'
    BY DEF WithinBoundary, Realigns
  <2>. DEFINE at == job.address + posted'
  <2>1. at = job.address + posted + burst_count_d1 /\ at \in Int
    BY <1>2, <1>5
  <2>2. next_length_counter > 0
    BY <1>n
  <2>3. at % MAX_BURST_COUNT = 0
    BY <1>8, <2>1, <2>2 DEF WithinBoundary
  <2>. HIDE DEF at
  <2>4. MAX_BURST_COUNT \in Nat \ {0}
    BY BurstAssumption
  <2>5. (at + MAX_BURST_COUNT) % MAX_BURST_COUNT = 0
    BY <2>1, <2>3, <2>4, DivisorTaken
  <2>6. (at % MAX_BURST_COUNT) + count <= MAX_BURST_COUNT
    BY <1>11, <2>3, <2>4
  <2>7. next_length_counter' > 0 => (at + count) % MAX_BURST_COUNT = 0
    BY <1>11, <1>12, <2>5 DEF Realigns
  <2>. QED  BY <1>2, <1>6, <2>6, <2>7 DEF WithinBoundary, at
<1>16. CommandLatched'
  <2>1. ~master_active' => posted' = job.length
    BY <1>2, <1>3, <1>5, <1>8 DEF BurstAhead
  <2>. QED
    BY <1>1, <1>2, <1>3, <1>4, <1>9, <2>1 DEF CommandLatched, ReaderInvariant, OnPlan
<1>17. CommandsInLine'
  BY <1>1, <1>2
     DEF CommandsInLine, ReaderInvariant, OnPlan, SameEnding, Compatible, short_last_burst_count,
         short_first_burst_count, length_burst_offset, address_burst_offset
<1>. QED
  BY <1>10, <1>13, <1>14, <1>15, <1>16, <1>17 DEF StaysOnPlan, OnPlan, BM!Next

LEMMA WaitOnPlan ==
  ASSUME ReaderInvariant, ~load_command_d1,
         Datapath(FALSE, FALSE), Control(FALSE, FALSE), History(FALSE, FALSE)
  PROVE  StaysOnPlan
<1>1. UNCHANGED <<commands, job, posted, burst, first_transfer, base_address, transfer_counter,
                  transfer_address, next_length_counter, short_first_burst_count_d1,
                  short_last_burst_count_d1, burst_count_d1>>
  BY DEF History, Datapath
<1>2. load_command_d1' = FALSE /\ master_active' = master_active
  BY DEF Control, ControlWith, reset_master_active, ReaderInvariant, TypeOK
<1>. QED
  BY <1>1, <1>2
     DEF StaysOnPlan, ReaderInvariant, OnPlan, CommandsInLine, CommandLatched, BurstAhead,
         WholeBurstsBehind, WithinBoundary, SameEnding, Compatible, BM!vars, Span,
         short_last_burst_count, short_first_burst_count, length_burst_offset, address_burst_offset

LEMMA ClockOnPlan ==
  ASSUME ReaderInvariant, TypeOK',
         NEW waitrequest \in BOOLEAN, NEW readdatavalid \in BOOLEAN,
         NEW fifo_read \in BOOLEAN, NEW snk_command_valid \in BOOLEAN,
         Clock(waitrequest, readdatavalid, fifo_read, snk_command_valid)
  PROVE  StaysOnPlan
<1>. DEFINE load     == snk_command_valid /\ snk_command_ready
            complete == transfer_complete(waitrequest)
<1>1. /\ load \in BOOLEAN
      /\ complete \in BOOLEAN
      /\ complete => read
      /\ load => ~master_active /\ commands # <<>>
  BY DEF Clock, snk_command_ready, transfer_complete, ReaderInvariant, TypeOK
<1>2. /\ Datapath(load, complete)
      /\ Control(load, complete)
      /\ History(load, complete)
  BY DEF Clock
<1>. HIDE DEF load, complete
<1>3. read => master_active /\ ~load_command_d1
  BY DEF ReaderInvariant, RoomForPostedRead, BurstsNotEmpty
<1>4. load_command_d1 => master_active
  BY DEF ReaderInvariant, OnPlan, CommandLatched
<1>5. CASE load
  <2>1. load = TRUE /\ complete = FALSE
    BY <1>1, <1>3, <1>5
  <2>2. commands[1].length > 0
    <3>1. commands \in Seq(Command) /\ commands # <<>>
      BY <1>1, <1>5 DEF ReaderInvariant, TypeOK
    <3>2. 1 \in DOMAIN commands
      BY <3>1
    <3>. QED  BY <3>2 DEF ReaderInvariant, BurstsNotEmpty
  <2>. QED  BY <1>1, <1>2, <1>5, <2>1, <2>2, LoadOnPlan
<1>6. CASE ~load /\ complete
  <2>1. load = FALSE /\ complete = TRUE
    BY <1>1, <1>6
  <2>. QED  BY <1>1, <1>2, <1>6, <2>1, PostOnPlan
<1>7. CASE ~load /\ ~complete
  <2>1. load = FALSE /\ complete = FALSE
    BY <1>1, <1>7
  <2>. QED  BY <1>2, <2>1, AheadOnPlan, WaitOnPlan
<1>. QED  BY <1>5, <1>6, <1>7

(***************************************************************************)
(* The read master requests exactly the words of its commands, in order, in*)
(* bursts that never run past the end of a command nor, with realignment,  *)
(* across a burst boundary, and takes the next command only when every word*)
(* of the present one is requested: for all tests whose commands are not   *)
(* empty and are compatible, every step is one of BurstMaster.             *)
(***************************************************************************)
THEOREM RequestsAsPromised ==
  ASSUME NonEmpty, \A plan \in Plans : Compatible(plan)
  PROVE  Spec => BM!Init /\ [][BM!Next]_BM!vars
<1>. DEFINE Stays == BurstsNotEmpty /\ OnPlan
<1>1. ASSUME NEW plan \in Plans
      PROVE  /\ \A i \in DOMAIN plan : plan[i].length > 0 /\ Span(plan[i]) \in PlannedSpans
             /\ Compatible(plan)
  BY NonEmpty DEF NonEmpty, PlannedSpans
<1>2. Init => Stays /\ BM!Init
  <2>. SUFFICES ASSUME Init PROVE Stays /\ BM!Init
    OBVIOUS
  <2>1. BurstsNotEmpty /\ CommandsInLine /\ CommandLatched
    BY <1>1 DEF Init, BurstsNotEmpty, CommandsInLine, CommandLatched, NoCommand
  <2>. QED  BY <2>1 DEF Init, OnPlan, BM!Init, BM!NoCommand, NoCommand, Span
<1>3. TypeOK /\ TypeOK' /\ RoomForPostedRead /\ Stays /\ [Next]_vars
        => Stays' /\ [BM!Next]_BM!vars
  <2>. SUFFICES ASSUME ReaderInvariant, TypeOK', [Next]_vars
                PROVE  Stays' /\ [BM!Next]_BM!vars
    BY DEF ReaderInvariant
  <2>1. CASE \E waitrequest, readdatavalid, fifo_read, snk_command_valid \in BOOLEAN :
               Clock(waitrequest, readdatavalid, fifo_read, snk_command_valid)
    BY <2>1, ClockOnPlan, ClockHolds DEF StaysOnPlan, ReaderInvariant
  <2>2. CASE NewTest
    <3>1. /\ commands' \in Plans
          /\ ~master_active
          /\ UNCHANGED <<registers, history>>
      BY <2>2 DEF NewTest, snk_command_ready
    <3>2. CommandsInLine'
      BY <1>1, <3>1 DEF CommandsInLine, registers, Compatible, SameEnding
    <3>3. CommandLatched' /\ BurstsNotEmpty'
      BY <1>1, <3>1 DEF ReaderInvariant, OnPlan, CommandLatched, BurstsNotEmpty, registers, history
    <3>. QED  BY <3>1, <3>2, <3>3 DEF OnPlan, BM!vars, Span, registers, history
  <2>3. CASE UNCHANGED vars
    <3>1. UNCHANGED <<registers, commands, job, posted, burst>>
      BY <2>3 DEF vars, history
    <3>2. OnPlan'
      BY <3>1
         DEF ReaderInvariant, OnPlan, CommandsInLine, CommandLatched, BurstAhead, registers,
             WholeBurstsBehind, WithinBoundary, SameEnding, Compatible, short_last_burst_count,
             short_first_burst_count, length_burst_offset, address_burst_offset
    <3>. QED  BY <3>1, <3>2 DEF ReaderInvariant, BurstsNotEmpty, registers, BM!vars, Span
  <2>. QED  BY <2>1, <2>2, <2>3 DEF Next
<1>. HIDE DEF Stays
<1>. QED  BY <1>2, <1>3, TypeCorrect, CreditIsSafe, PTL DEF Spec
=============================================================================
