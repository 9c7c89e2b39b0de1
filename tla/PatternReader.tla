--------------------------- MODULE PatternReader ---------------------------
(***************************************************************************)
(* The read master of the memory tester, mtm_pattern_reader.v.  It takes a *)
(* command (address, length, early done), posts pipelined read bursts and  *)
(* collects the returned words in an internal FIFO for the checker.        *)
(*                                                                         *)
(* One Clock step is one rising edge: every register is computed from the  *)
(* registers before the edge and from the inputs sampled at it.  Addresses *)
(* and lengths count words and the FIFO is its fill level: the core looks  *)
(* at no data.                                                             *)
(***************************************************************************)
EXTENDS BurstCounts, Sequences

CONSTANTS
  FIFO_DEPTH,    \* words the internal FIFO holds
  LENGTH_WORDS,  \* the LENGTH_WIDTH bit counters wrap at this many words
  Plans          \* the command sequences the controller may offer, one per test

Command == [address : Nat, length : 0..LENGTH_WORDS - 1, early_done : BOOLEAN]

ASSUME ReaderAssumption ==
  /\ FIFO_DEPTH \in Nat
  /\ FIFO_DEPTH >= 2 * MAX_BURST_COUNT
  /\ LENGTH_WORDS \in Nat
  /\ LENGTH_WORDS > MAX_BURST_COUNT
  /\ Plans \subseteq Seq(Command)

VARIABLES
  load_command_d1, master_active, read, first_transfer, early_done_enable,
  base_address, transfer_counter, transfer_address, next_length_counter,
  short_first_burst_count_d1, short_last_burst_count_d1, burst_count_d1,
  pending_reads_counter,
  fifo_used,  \* fill level of master_to_st_fifo
  commands,   \* commands waiting in the controller's read command FIFO
  job,        \* the command accepted last
  posted,     \* history: words of it requested so far
  burst       \* history: the burst posted last

registers ==
  <<load_command_d1, master_active, read, first_transfer, early_done_enable,
    base_address, transfer_counter, transfer_address, next_length_counter,
    short_first_burst_count_d1, short_last_burst_count_d1, burst_count_d1,
    pending_reads_counter, fifo_used>>
history == <<job, posted, burst>>
vars == <<registers, commands, history>>

NoCommand == [address |-> 0, length |-> 0, early_done |-> FALSE]

Init ==
  /\ load_command_d1 = FALSE /\ master_active = FALSE /\ read = FALSE
  /\ first_transfer = FALSE /\ early_done_enable = FALSE
  /\ base_address = 0 /\ transfer_counter = 0 /\ transfer_address = 0
  /\ next_length_counter = 0 /\ burst_count_d1 = 0
  /\ short_first_burst_count_d1 = 0 /\ short_last_burst_count_d1 = 0
  /\ pending_reads_counter = 0 /\ fifo_used = 0
  /\ commands \in Plans
  /\ job = NoCommand /\ posted = 0
  /\ burst = [address |-> 0, count |-> 0]

-----------------------------------------------------------------------------
(* Combinational signals.                                                  *)

(***************************************************************************)
(* The controller's command FIFO is a show-ahead FIFO: as soon as a command*)
(* is popped its output is the next one.  When nothing is left the output  *)
(* register keeps the command popped last.                                 *)
(***************************************************************************)
snk_command_data == IF commands # <<>> THEN Head(commands) ELSE job

snk_command_ready ==
  ~master_active /\ (early_done_enable \/ pending_reads_counter = 0)

(* Mutant: room for one burst only, the burst already on the bus forgotten. *)
RoomForOneBurst == fifo_used + pending_reads_counter > FIFO_DEPTH - MAX_BURST_COUNT

too_many_pending_reads ==
  fifo_used + pending_reads_counter > FIFO_DEPTH - 2 * MAX_BURST_COUNT

transfer_complete(waitrequest) == read /\ ~waitrequest

(***************************************************************************)
(* The comparison uses the count of the command on the command port, not   *)
(* the registered count of the command being executed.                     *)
(***************************************************************************)
enable_short_last_burst ==
  next_length_counter = short_last_burst_count(snk_command_data)

(* Mutant: the first burst is not yet over in the cycle it is accepted.     *)
FirstCountAgain(complete) ==
  burst_count_mux(enable_short_last_burst, BURST_REALIGN_ENABLE /\ first_transfer,
                  short_last_burst_count_d1, short_first_burst_count_d1)

burst_count(complete) ==
  burst_count_mux(enable_short_last_burst,
                  BURST_REALIGN_ENABLE /\ first_transfer /\ ~complete,
                  short_last_burst_count_d1, short_first_burst_count_d1)

(***************************************************************************)
(* Arithmetic of the LENGTH_WIDTH bit counters, which move by at most one  *)
(* burst at a time.                                                        *)
(***************************************************************************)
Wrap(words) ==
  IF words < 0 THEN words + LENGTH_WORDS
  ELSE IF words >= LENGTH_WORDS THEN words - LENGTH_WORDS ELSE words

-----------------------------------------------------------------------------
(* The registers.                                                          *)

(***************************************************************************)
(* load_command: latch the command on the command port.                    *)
(***************************************************************************)
LatchCommand(command) ==
  /\ early_done_enable' = command.early_done
  /\ base_address' = command.address
  /\ transfer_counter' = 0
  /\ next_length_counter' = command.length
  /\ short_first_burst_count_d1' = short_first_burst_count(command)
  /\ short_last_burst_count_d1' = short_last_burst_count(command)
  /\ first_transfer' = TRUE
  /\ UNCHANGED <<transfer_address, burst_count_d1>>

(***************************************************************************)
(* The cycle after a command was latched, and whenever a burst is accepted:*)
(* move the address, the counters and the burst count to the next burst.   *)
(***************************************************************************)
Advance(complete) ==
  /\ transfer_counter' = Wrap(transfer_counter + burst_count(complete))
  /\ transfer_address' = base_address + transfer_counter
  /\ next_length_counter' = Wrap(next_length_counter - burst_count(complete))
  /\ burst_count_d1' = burst_count(complete)
  /\ first_transfer' = (first_transfer /\ ~complete)

Datapath(load, complete) ==
  \/ /\ load
     /\ LatchCommand(snk_command_data)
  \/ /\ ~load /\ (complete \/ load_command_d1)
     /\ Advance(complete)
     /\ UNCHANGED <<early_done_enable, base_address, short_first_burst_count_d1,
                    short_last_burst_count_d1>>
  \/ /\ ~load /\ ~complete /\ ~load_command_d1
     /\ UNCHANGED <<first_transfer, early_done_enable, base_address, transfer_counter,
                    transfer_address, next_length_counter, short_first_burst_count_d1,
                    short_last_burst_count_d1, burst_count_d1>>

reset_master_active(load, complete) == ~load /\ next_length_counter = 0 /\ complete

(***************************************************************************)
(* The control flip-flops; a reset wins over a set.                        *)
(***************************************************************************)
ControlWith(load, complete, set_read, reset_read) ==
  /\ load_command_d1' = load
  /\ master_active' =
       (~reset_master_active(load, complete) /\ (load \/ master_active))
  /\ read' = (~reset_read /\ (set_read \/ read))

(* Mutants of Control: read is taken back before the slave accepted it;     *)
(* read is raised only for the first burst of a command.                    *)
ControlDropsRead(load, complete) ==
  ControlWith(load, complete, master_active /\ ~too_many_pending_reads /\ ~read,
              reset_master_active(load, complete) \/ too_many_pending_reads)

ControlReadsOnce(load, complete) ==
  ControlWith(load, complete, load_command_d1 /\ ~too_many_pending_reads /\ ~read,
              \/ reset_master_active(load, complete)
              \/ complete /\ too_many_pending_reads)

Control(load, complete) ==
  ControlWith(load, complete,
              master_active /\ ~too_many_pending_reads /\ ~read,
              \/ reset_master_active(load, complete)
              \/ complete /\ too_many_pending_reads)

(* Mutant: a returned word gives back a whole burst.                        *)
CreditPerBurst(complete, readdatavalid, fifo_read) ==
  /\ pending_reads_counter' =
       pending_reads_counter + (IF complete THEN burst_count_d1 ELSE 0)
                             - (IF readdatavalid THEN burst_count_d1 ELSE 0)
  /\ fifo_used' = fifo_used + (IF readdatavalid THEN 1 ELSE 0)
                            - (IF fifo_read THEN 1 ELSE 0)

(***************************************************************************)
(* The credit counter and the FIFO: a posted burst adds its words to the   *)
(* pending reads, a returned word moves from there to the FIFO, and the    *)
(* checker takes words out of the FIFO.                                    *)
(***************************************************************************)
Credit(complete, readdatavalid, fifo_read) ==
  /\ pending_reads_counter' =
       pending_reads_counter + (IF complete THEN burst_count_d1 ELSE 0)
                             - (IF readdatavalid THEN 1 ELSE 0)
  /\ fifo_used' = fifo_used + (IF readdatavalid THEN 1 ELSE 0)
                            - (IF fifo_read THEN 1 ELSE 0)

History(load, complete) ==
  /\ commands' = IF load THEN Tail(commands) ELSE commands
  /\ job' = IF load THEN Head(commands) ELSE job
  /\ posted' = IF load THEN 0 ELSE IF complete THEN posted + burst_count_d1 ELSE posted
  /\ burst' = IF complete
              THEN [address |-> transfer_address, count |-> burst_count_d1] ELSE burst

-----------------------------------------------------------------------------
(***************************************************************************)
(* One clock edge.  The fabric returns a word only when one is pending, the*)
(* checker takes a word only when the FIFO shows one, and the controller   *)
(* offers a command only when its FIFO holds one.                          *)
(***************************************************************************)
Clock(waitrequest, readdatavalid, fifo_read, snk_command_valid) ==
  LET load     == snk_command_valid /\ snk_command_ready
      complete == transfer_complete(waitrequest)
  IN  /\ readdatavalid => pending_reads_counter > 0
      /\ fifo_read => fifo_used > 0
      /\ snk_command_valid => commands # <<>>
      /\ Datapath(load, complete)
      /\ Control(load, complete)
      /\ Credit(complete, readdatavalid, fifo_read)
      /\ History(load, complete)

(***************************************************************************)
(* The controller ends a test when the reader is ready again after the last*)
(* command; a new test then fills the command FIFO anew.                   *)
(***************************************************************************)
NewTest ==
  /\ commands = <<>>
  /\ snk_command_ready
  /\ commands' \in Plans
  /\ UNCHANGED <<registers, history>>

Next ==
  \/ \E waitrequest, readdatavalid, fifo_read, snk_command_valid \in BOOLEAN :
       Clock(waitrequest, readdatavalid, fifo_read, snk_command_valid)
  \/ NewTest

(***************************************************************************)
(* The clock runs; a slave that asserts waitrequest drops it in the end and*)
(* returns every word it accepted; the checker keeps taking words while    *)
(* there are any; the controller keeps a command valid until it is taken.  *)
(***************************************************************************)
Ticks(S) == \E t \in S : Clock(t[1], t[2], t[3], t[4])
Inputs == BOOLEAN \X BOOLEAN \X BOOLEAN \X BOOLEAN

Fairness ==
  /\ WF_vars(Ticks({t \in Inputs : ~t[1]}))
  /\ WF_vars(pending_reads_counter > 0 /\ Ticks({t \in Inputs : t[2]}))
  /\ WF_vars(fifo_used > 0 /\ Ticks({t \in Inputs : t[3]}))
  /\ WF_vars(commands # <<>> /\ Ticks({t \in Inputs : t[4]}))

Spec == Init /\ [][Next]_vars
FairSpec == Spec /\ Fairness

-----------------------------------------------------------------------------
(* Properties.                                                             *)

(***************************************************************************)
(* Type correctness: every register stays within its width.                *)
(***************************************************************************)
TypeOK ==
  /\ load_command_d1 \in BOOLEAN /\ master_active \in BOOLEAN /\ read \in BOOLEAN
  /\ first_transfer \in BOOLEAN /\ early_done_enable \in BOOLEAN
  /\ base_address \in Nat /\ transfer_address \in Nat
  /\ transfer_counter \in 0..LENGTH_WORDS - 1
  /\ next_length_counter \in 0..LENGTH_WORDS - 1
  /\ short_first_burst_count_d1 \in 0..MAX_BURST_COUNT
  /\ short_last_burst_count_d1 \in 0..MAX_BURST_COUNT
  /\ burst_count_d1 \in 0..MAX_BURST_COUNT
  /\ pending_reads_counter \in Nat
  /\ fifo_used \in Nat
  /\ commands \in Seq(Command)
  /\ job \in Command
  /\ posted \in Nat
  /\ burst \in [address : Nat, count : 0..MAX_BURST_COUNT]

(***************************************************************************)
(* The flow control of the read master: the words in its FIFO together with*)
(* the words still to come back never exceed the depth of the FIFO, whose  *)
(* overflow checking is off.  The header's revision 1.1 is about this; it  *)
(* asks for a FIFO of four bursts, and two are enough.                     *)
(***************************************************************************)
FifoNeverOverflows == fifo_used + pending_reads_counter <= FIFO_DEPTH

(***************************************************************************)
(* A read that is on the bus was started with a whole burst of room left,  *)
(* so the burst it stands for fits whenever the slave accepts it.  Together*)
(* with TypeOK this is inductive and implies FifoNeverOverflows.           *)
(***************************************************************************)
RoomForPostedRead ==
  /\ fifo_used + pending_reads_counter <= FIFO_DEPTH
  /\ read => fifo_used + pending_reads_counter <= FIFO_DEPTH - MAX_BURST_COUNT
  /\ read => master_active

(***************************************************************************)
(* Avalon-MM: while the slave asserts waitrequest the read master holds its*)
(* request, its address and its burst count.                               *)
(***************************************************************************)
HoldWhileWaiting ==
  [][read /\ posted' = posted => read' /\ UNCHANGED <<transfer_address, burst_count_d1>>]_vars

(***************************************************************************)
(* The reader implements BurstMaster: it requests exactly the words of its *)
(* commands, in order, in realigned bursts.  The command FIFO can hold the *)
(* next command while the present one runs, and a burst length that is     *)
(* computed from the wrong one of the two would break this.                *)
(***************************************************************************)
Span(command) == [address |-> command.address, length |-> command.length]
PlannedSpans  == UNION {{Span(plan[i]) : i \in DOMAIN plan} : plan \in Plans}

BM == INSTANCE BurstMaster
        WITH MaxBurst  <- MAX_BURST_COUNT,
             Realigned <- BURST_ENABLE /\ BURST_REALIGN_ENABLE,
             Commands  <- PlannedSpans,
             job       <- Span(job),
             moved     <- posted

ImplementsBurstMaster == BM!Spec

(***************************************************************************)
(* Because of that comparison the reader can promise this only of the tests*)
(* in which a block that does not end in a whole burst is followed by one  *)
(* that ends in a burst of the same length.                                *)
(***************************************************************************)
SameEnding(command, next) ==
  \/ short_last_burst_count(command) = MAX_BURST_COUNT
  \/ short_last_burst_count(command) = short_last_burst_count(next)

Compatible(plan) == \A i \in 1..Len(plan) - 1 : SameEnding(plan[i], plan[i + 1])

(***************************************************************************)
(* The header's contract for any word aligned address and length: no burst *)
(* reads past the end of its command.  It is part of ImplementsBurstMaster,*)
(* stated alone for the block sizes that break it: two consecutive blocks  *)
(* that end in bursts of different lengths.                                *)
(***************************************************************************)
RequestsWithinCommand == posted <= job.length

(***************************************************************************)
(* Every command of a test is taken in the end, and after the last one the *)
(* reader becomes ready again, which is what ends the test: the credit that*)
(* holds back reads is always given back.                                  *)
(***************************************************************************)
TestCompletes == commands # <<>> ~> (commands = <<>> /\ snk_command_ready)
=============================================================================
