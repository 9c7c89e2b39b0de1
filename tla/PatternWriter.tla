--------------------------- MODULE PatternWriter ---------------------------
(***************************************************************************)
(* The write master of the memory tester, mtm_pattern_writer.v.  It takes a*)
(* command (address, length), buffers the words of the pattern generator in*)
(* an internal FIFO, and posts a write burst once the FIFO holds all of it.*)
(*                                                                         *)
(* One Clock step is one rising edge: every register is computed from the  *)
(* registers before the edge and from the inputs sampled at it.  Addresses *)
(* and lengths count words and the FIFO is its fill level: the core looks  *)
(* at no data but to reverse its byte lanes.                               *)
(***************************************************************************)
EXTENDS BurstCounts, Sequences

CONSTANTS
  FIFO_DEPTH,    \* words the internal FIFO holds
  LENGTH_WORDS,  \* the LENGTH_WIDTH bit counters wrap at this many words
  Tests          \* a test: its write commands and the words of its payload

Command == [address : Nat, length : 1..LENGTH_WORDS - 1]

ASSUME WriterAssumption ==
  /\ FIFO_DEPTH \in Nat
  /\ FIFO_DEPTH >= 2 * MAX_BURST_COUNT
  /\ LENGTH_WORDS \in Nat
  /\ LENGTH_WORDS > MAX_BURST_COUNT
  /\ Tests \subseteq [commands : Seq(Command), payload : Nat]

VARIABLES
  load_command_d1, master_active, write, first_transfer,
  base_address, transfer_counter, transfer_address, next_length_counter,
  short_first_burst_count_d1, short_last_burst_count_d1, burst_count_d1,
  burst_counter,  \* beats of the present burst that are still to be written
  fifo_used,      \* fill level of master_to_st_fifo
  commands,       \* commands waiting in the controller's write command FIFO
  payload,        \* words the generator has still to deliver
  job,            \* the command accepted last
  posted,         \* history: words of it in the bursts begun so far
  written,        \* history: words of it the slave has accepted
  burst           \* history: the burst begun last

counters ==
  <<first_transfer, base_address, transfer_counter, transfer_address,
    next_length_counter, short_first_burst_count_d1, short_last_burst_count_d1>>
control == <<load_command_d1, master_active, write, burst_counter, burst_count_d1>>
buffer  == <<fifo_used, payload>>
history == <<job, posted, written, burst>>
vars == <<counters, control, buffer, commands, history>>

NoCommand == [address |-> 0, length |-> 0]

Init ==
  /\ load_command_d1 = FALSE /\ master_active = FALSE /\ write = FALSE
  /\ first_transfer = FALSE
  /\ base_address = 0 /\ transfer_counter = 0 /\ transfer_address = 0
  /\ next_length_counter = 0 /\ burst_count_d1 = 0 /\ burst_counter = 0
  /\ short_first_burst_count_d1 = 0 /\ short_last_burst_count_d1 = 0
  /\ fifo_used = 0
  /\ \E test \in Tests : commands = test.commands /\ payload = test.payload
  /\ job = NoCommand /\ posted = 0 /\ written = 0
  /\ burst = [address |-> 0, count |-> 0]

-----------------------------------------------------------------------------
(* Combinational signals.                                                  *)

(***************************************************************************)
(* The controller's command FIFO shows the next command as soon as one was *)
(* popped, and keeps showing the last one when nothing is left.            *)
(***************************************************************************)
snk_command_data  == IF commands # <<>> THEN Head(commands) ELSE job
snk_command_ready == ~master_active

(* Mutant: the sink takes words that the FIFO has no room for.              *)
SinkAlwaysReady == TRUE

snk_ready == fifo_used < FIFO_DEPTH

transfer_complete(waitrequest) == write /\ ~waitrequest
burst_complete(complete)       == burst_counter = 1 /\ complete

(***************************************************************************)
(* As in the read master the comparison uses the count of the command on   *)
(* the command port, not the registered one.                               *)
(***************************************************************************)
enable_short_last_burst ==
  next_length_counter = short_last_burst_count(snk_command_data)

burst_count(complete) ==
  burst_count_mux(enable_short_last_burst,
                  BURST_REALIGN_ENABLE /\ first_transfer /\ ~complete,
                  short_last_burst_count_d1, short_first_burst_count_d1)

(* Mutant: the word that leaves with the present beat counts as buffered.   *)
FastWithLeavingWord(complete) ==
  master_active /\ burst_complete(complete) /\ fifo_used >= burst_count(complete)

(***************************************************************************)
(* A burst begins behind the last beat of the one before it when the FIFO  *)
(* holds it and the word of that beat, else when no burst is under way and *)
(* the FIFO holds it.                                                      *)
(***************************************************************************)
burst_begin_fast(complete) ==
  master_active /\ burst_complete(complete) /\ fifo_used > burst_count(complete)

(* Mutant: an idle master waits for a word more than the burst needs.       *)
IdleWithSpareWord(complete) ==
  master_active /\ burst_counter = 0 /\ fifo_used > burst_count(complete)

burst_begin_from_idle(complete) ==
  master_active /\ burst_counter = 0 /\ fifo_used >= burst_count(complete)

burst_begin(complete) ==
  /\ burst_begin_fast(complete) \/ burst_begin_from_idle(complete)
  /\ next_length_counter # 0

(* Mutant: the length counter taken for the words still to be written.      *)
LastTransferEarly(complete) == next_length_counter = 1 /\ complete

last_transfer(complete) == next_length_counter = 0 /\ complete

-----------------------------------------------------------------------------
(* The registers.                                                          *)

(***************************************************************************)
(* load_command: latch the command on the command port.                    *)
(***************************************************************************)
LatchCommand(command) ==
  /\ base_address' = command.address
  /\ transfer_counter' = 0
  /\ next_length_counter' = command.length
  /\ short_first_burst_count_d1' = short_first_burst_count(command)
  /\ short_last_burst_count_d1' = short_last_burst_count(command)
  /\ first_transfer' = TRUE

(***************************************************************************)
(* The counters move one word ahead of the bus: at every word the slave    *)
(* accepts, and once more in the cycle after the command was latched.      *)
(***************************************************************************)
CountWord(complete) ==
  /\ transfer_counter' =
       IF transfer_counter = LENGTH_WORDS - 1 THEN 0 ELSE transfer_counter + 1
  /\ next_length_counter' =
       IF next_length_counter = 0 THEN LENGTH_WORDS - 1 ELSE next_length_counter - 1
  /\ first_transfer' = (first_transfer /\ ~complete)
  /\ UNCHANGED <<base_address, short_first_burst_count_d1, short_last_burst_count_d1>>

(* Mutant: no extra step of the counters after the command was latched.     *)
CountersLate(load, complete) ==
  /\ transfer_address' = IF burst_complete(complete) \/ load_command_d1
                         THEN base_address + transfer_counter ELSE transfer_address
  /\ \/ load /\ LatchCommand(snk_command_data)
     \/ ~load /\ complete /\ CountWord(complete)
     \/ /\ ~load /\ ~complete
        /\ UNCHANGED <<first_transfer, base_address, transfer_counter, next_length_counter,
                       short_first_burst_count_d1, short_last_burst_count_d1>>

Counters(load, complete) ==
  /\ transfer_address' = IF burst_complete(complete) \/ load_command_d1
                         THEN base_address + transfer_counter ELSE transfer_address
  /\ \/ load /\ LatchCommand(snk_command_data)
     \/ ~load /\ (complete \/ load_command_d1) /\ CountWord(complete)
     \/ /\ ~load /\ ~complete /\ ~load_command_d1
        /\ UNCHANGED <<first_transfer, base_address, transfer_counter, next_length_counter,
                       short_first_burst_count_d1, short_last_burst_count_d1>>

(***************************************************************************)
(* burst_counter is one bit wider than a burst offset.                     *)
(***************************************************************************)
Down(beats) == IF beats = 0 THEN 2 * MAX_BURST_COUNT - 1 ELSE beats - 1

(***************************************************************************)
(* The control flip-flops; a reset wins over a set.                        *)
(***************************************************************************)
ControlWith(load, complete, reset_write) ==
  /\ load_command_d1' = load
  /\ master_active' = IF ~load /\ last_transfer(complete) THEN FALSE
                      ELSE load \/ master_active
  /\ write' = (~reset_write /\ (burst_begin_from_idle(complete) \/ write))
  /\ burst_counter' = IF burst_begin(complete) THEN burst_count(complete)
                      ELSE IF complete THEN Down(burst_counter) ELSE burst_counter
  /\ burst_count_d1' = IF burst_begin(complete) \/ load_command_d1
                       THEN burst_count(complete) ELSE burst_count_d1

(* Mutant: write is taken back after any beat but the last of its burst.    *)
ControlDropsWrite(load, complete) ==
  ControlWith(load, complete,
              \/ last_transfer(complete)
              \/ complete /\ ~burst_begin_fast(complete))

Control(load, complete) ==
  ControlWith(load, complete,
              \/ last_transfer(complete)
              \/ burst_complete(complete) /\ ~burst_begin_fast(complete))

(***************************************************************************)
(* A word of the generator enters the FIFO while it is not full; a word    *)
(* leaves it with every beat the slave accepts.                            *)
(***************************************************************************)
Buffer(complete, snk_valid) ==
  LET fifo_write == IF snk_valid /\ snk_ready THEN 1 ELSE 0
  IN  /\ fifo_used' = fifo_used + fifo_write - (IF complete THEN 1 ELSE 0)
      /\ payload' = payload - fifo_write

History(load, complete) ==
  /\ commands' = IF load THEN Tail(commands) ELSE commands
  /\ job' = IF load THEN Head(commands) ELSE job
  /\ written' = IF load THEN 0 ELSE IF complete THEN written + 1 ELSE written
  /\ posted' = IF load THEN 0
               ELSE IF burst_begin(complete) THEN posted + burst_count(complete) ELSE posted
  /\ burst' = IF burst_begin(complete)
              THEN [address |-> transfer_address', count |-> burst_count(complete)] ELSE burst

-----------------------------------------------------------------------------
(***************************************************************************)
(* One clock edge.  The generator offers a word only while it has some, the*)
(* controller offers a command only when its FIFO holds one.               *)
(***************************************************************************)
Clock(waitrequest, snk_valid, snk_command_valid) ==
  LET load     == snk_command_valid /\ snk_command_ready
      complete == transfer_complete(waitrequest)
  IN  /\ snk_valid => payload > 0
      /\ snk_command_valid => commands # <<>>
      /\ Counters(load, complete)
      /\ Control(load, complete)
      /\ Buffer(complete, snk_valid)
      /\ History(load, complete)

(***************************************************************************)
(* The next test: the generator may deliver before the first command comes.*)
(***************************************************************************)
NewTest ==
  /\ commands = <<>>
  /\ snk_command_ready
  /\ payload = 0
  /\ \E test \in Tests : commands' = test.commands /\ payload' = test.payload
  /\ UNCHANGED <<counters, control, fifo_used, history>>

Next ==
  \/ \E waitrequest, snk_valid, snk_command_valid \in BOOLEAN :
       Clock(waitrequest, snk_valid, snk_command_valid)
  \/ NewTest

(***************************************************************************)
(* The clock runs; a slave that asserts waitrequest drops it in the end;   *)
(* the generator keeps a word valid until it is taken, and so does the     *)
(* controller with a command.                                              *)
(***************************************************************************)
Ticks(S) == \E t \in S : Clock(t[1], t[2], t[3])
Inputs == BOOLEAN \X BOOLEAN \X BOOLEAN

Fairness ==
  /\ WF_vars(Ticks({t \in Inputs : ~t[1]}))
  /\ WF_vars(payload > 0 /\ Ticks({t \in Inputs : t[2]}))
  /\ WF_vars(commands # <<>> /\ Ticks({t \in Inputs : t[3]}))

Spec == Init /\ [][Next]_vars
FairSpec == Spec /\ Fairness

-----------------------------------------------------------------------------
(* Properties.                                                             *)

(***************************************************************************)
(* Type correctness: every register stays within its width.                *)
(***************************************************************************)
TypeOK ==
  /\ load_command_d1 \in BOOLEAN /\ master_active \in BOOLEAN /\ write \in BOOLEAN
  /\ first_transfer \in BOOLEAN
  /\ base_address \in Nat /\ transfer_address \in Nat
  /\ transfer_counter \in 0..LENGTH_WORDS - 1
  /\ next_length_counter \in 0..LENGTH_WORDS - 1
  /\ short_first_burst_count_d1 \in 0..MAX_BURST_COUNT
  /\ short_last_burst_count_d1 \in 0..MAX_BURST_COUNT
  /\ burst_count_d1 \in 0..MAX_BURST_COUNT
  /\ burst_counter \in 0..2 * MAX_BURST_COUNT - 1
  /\ fifo_used \in 0..FIFO_DEPTH
  /\ payload \in Nat
  /\ commands \in Seq(Command)
  /\ job \in Command \cup {NoCommand}
  /\ posted \in Nat /\ written \in Nat
  /\ burst \in [address : Nat, count : 0..MAX_BURST_COUNT]

(***************************************************************************)
(* "Burst transactions do not occur until enough data has been buffered":  *)
(* a write is on the bus only when the FIFO, whose underflow checking is   *)
(* off, holds the word of this beat and of every beat its burst has left.  *)
(***************************************************************************)
DataBuffered == write => fifo_used >= 1 /\ fifo_used >= burst_counter

(***************************************************************************)
(* Every word of a burst is written before the next begins, and the master *)
(* asks for the next command only after the last word of this one: nothing *)
(* is written twice or forgotten when the counters, which run a word ahead *)
(* of the bus, meet a FIFO that runs dry between two bursts.               *)
(***************************************************************************)
EveryWordWritten ==
  /\ written + burst_counter = posted
  /\ snk_command_ready => written = job.length /\ burst_counter = 0

(***************************************************************************)
(* Avalon-MM: from the first beat of a burst to its last the write request *)
(* stays, with the same address and burst count, and in particular while   *)
(* the slave asserts waitrequest.                                          *)
(***************************************************************************)
BurstHeld ==
  [][write /\ (written' = written \/ burst_counter > 1)
       => write' /\ UNCHANGED <<transfer_address, burst_count_d1>>]_vars

(***************************************************************************)
(* The writer implements BurstMaster: it writes exactly the words of its   *)
(* commands, in order, in realigned bursts.                                *)
(***************************************************************************)
PlannedCommands ==
  UNION {{test.commands[i] : i \in DOMAIN test.commands} : test \in Tests}

BM == INSTANCE BurstMaster
        WITH MaxBurst  <- MAX_BURST_COUNT,
             Realigned <- BURST_ENABLE /\ BURST_REALIGN_ENABLE,
             Commands  <- PlannedCommands,
             moved     <- posted

ImplementsBurstMaster == BM!Spec

(***************************************************************************)
(* When the FIFO runs dry between two bursts the writer begins the next one*)
(* from idle, with the length counter a word short of the words left, and  *)
(* takes a short last burst for a whole one.  It can promise the above only*)
(* of commands that end in a whole burst, or are one burst of more than one*)
(* word.                                                                   *)
(***************************************************************************)
EndsInFullBurst(command) ==
  command.length > 1 /\ short_last_burst_count(command) = MAX_BURST_COUNT

(***************************************************************************)
(* Every command of a test is taken in the end, and after the last one the *)
(* writer becomes ready again, which is what lets the controller go on.    *)
(***************************************************************************)
TestCompletes == commands # <<>> ~> (commands = <<>> /\ snk_command_ready)
=============================================================================
