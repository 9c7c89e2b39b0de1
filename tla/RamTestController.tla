------------------------- MODULE RamTestController -------------------------
(***************************************************************************)
(* The test controller of the memory tester, mtm_ram_test_controller.v: its*)
(* control registers, two choppers that cut the transfer into block        *)
(* commands, a command FIFO per master, and the ring that decides which    *)
(* master gets its next command.                                           *)
(*                                                                         *)
(* One Clock step is one rising edge.  The two masters are the environment,*)
(* as their command ports show them (PatternReader and PatternWriter model *)
(* them in full): a master that takes a command is busy from the next cycle*)
(* on, and the read master returns the data of its blocks in order.        *)
(* Lengths count words.  The timer registers (16-bit divider and counter)  *)
(* do not influence any of this and are left out.                          *)
(***************************************************************************)
EXTENDS BlockPlan

CONSTANTS
  FIFO_DEPTH,              \* commands a command FIFO holds (EAB_FIFO_DEPTH)
  DEFAULT_BLOCK_SIZE,      \* block_size out of reset
  DEFAULT_TRAIL_DISTANCE,  \* block_trail out of reset
  CsrWrites                \* [reg, value] writes the software may make to the control port

VARIABLES
  base_address, length, block_size, block_trail, concurrent_access_enable, start,
  block_trail_distance, last_write_complete, last_read_complete,
  state, compare_d1,
  issue_write_command_d1, issue_read_command_d1,
  issue_write_command_d2, issue_read_command_d2,
  write_fsm, read_fsm,              \* registers of the two choppers
  write_fifo, read_fifo,            \* the command FIFOs
  write_settling, read_settling,    \* the word pushed last is not yet at the output
  write_busy,                       \* write master: a command is being executed
  read_busy, read_early_done, due,  \* read master: active, early done, blocks due
  setup, writes_issued, reads_issued  \* history of the test since start was set

csr == <<base_address, length, block_size, block_trail, concurrent_access_enable>>
ring == <<state, compare_d1, issue_write_command_d1, issue_read_command_d1,
          issue_write_command_d2, issue_read_command_d2>>
progress == <<block_trail_distance, last_write_complete, last_read_complete>>
fifos == <<write_fifo, read_fifo, write_settling, read_settling>>
masters == <<write_busy, read_busy, read_early_done, due>>
history == <<setup, writes_issued, reads_issued>>
vars == <<csr, start, ring, progress, write_fsm, read_fsm, fifos, masters, history>>

Chopper == INSTANCE ChopperFsm

(***************************************************************************)
(* Out of reset: the block registers hold their defaults.                  *)
(***************************************************************************)
ASSUME ControllerAssumption ==
  /\ FIFO_DEPTH \in Nat \ {0}
  /\ DEFAULT_BLOCK_SIZE \in Nat \ {0}
  /\ DEFAULT_TRAIL_DISTANCE \in 1..255

(***************************************************************************)
(* What the driver writes: never less than 32 bytes for a block (blocks fit*)
(* into their 24 bits), and 1 for a trail of 0, which has 8 bits.          *)
(***************************************************************************)
CsrWrite ==
       [reg : {"base_address", "length"}, value : Nat]
  \cup [reg : {"block_size"}, value : Nat \ {0}]
  \cup [reg : {"block_trail"}, value : 1..255]
  \cup [reg : {"concurrent", "start"}, value : BOOLEAN]

ASSUME DriverAssumption == CsrWrites \subseteq CsrWrite

Init ==
  /\ base_address = 0 /\ length = 0
  /\ block_size = DEFAULT_BLOCK_SIZE
  /\ block_trail = DEFAULT_TRAIL_DISTANCE
  /\ concurrent_access_enable = FALSE /\ start = FALSE
  /\ block_trail_distance = 0
  /\ last_write_complete = FALSE /\ last_read_complete = FALSE
  /\ state = "idle" /\ compare_d1 = FALSE
  /\ issue_write_command_d1 = FALSE /\ issue_read_command_d1 = FALSE
  /\ issue_write_command_d2 = FALSE /\ issue_read_command_d2 = FALSE
  /\ write_fsm = Chopper!Reset /\ read_fsm = Chopper!Reset
  /\ write_fifo = <<>> /\ read_fifo = <<>>
  /\ write_settling = FALSE /\ read_settling = FALSE
  /\ write_busy = FALSE
  /\ read_busy = FALSE /\ read_early_done = FALSE /\ due = 0
  /\ setup = [blocks |-> 0, trail |-> 0, concurrent |-> FALSE]
  /\ writes_issued = 0 /\ reads_issued = 0

-----------------------------------------------------------------------------
(* Combinational signals.                                                  *)

(***************************************************************************)
(* The command FIFOs show their oldest word two cycles after it was pushed *)
(* into an empty FIFO.                                                     *)
(***************************************************************************)
Shown(fifo, settling) == Len(fifo) > (IF settling THEN 1 ELSE 0)
write_fifo_full  == Len(write_fifo) = FIFO_DEPTH
read_fifo_full   == Len(read_fifo) = FIFO_DEPTH
write_fifo_push  == Chopper!fifo_write(write_fsm, start, write_fifo_full)
read_fifo_push   == Chopper!fifo_write(read_fsm, start, read_fifo_full)

(***************************************************************************)
(* Ready as the masters report it: the read master is ready once its       *)
(* requests are posted when the command asked for early done, and once all *)
(* data has returned when it did not.                                      *)
(***************************************************************************)
src_write_command_ready == ~write_busy
src_read_command_ready  == ~read_busy /\ (read_early_done \/ due = 0)

(* Mutant: the command counts as taken although the write master is busy.   *)
PopWithoutReady == issue_write_command_d2

write_fifo_pop == issue_write_command_d2 /\ src_write_command_ready
read_fifo_pop  == issue_read_command_d2 /\ src_read_command_ready

(* Mutant: the start bit clears while the last read is under way.           *)
ClearEarly == last_read_complete

clear_start == last_read_complete /\ src_read_command_ready

(* A trail of n keeps the write master at most n blocks ahead, one block    *)
(* less than the header of the core says (v:48-50).                         *)
compare == block_trail_distance < block_trail

issue_write_command ==
  /\ Shown(write_fifo, write_settling)
  /\ state = "issue"
  /\ compare_d1
  /\ concurrent_access_enable \/ src_read_command_ready

(* Mutant: a read does not wait for the write master to finish.             *)
ReadDuringWrite ==
  /\ Shown(read_fifo, read_settling)
  /\ state = "issue"
  /\ ~compare_d1 \/ last_write_complete

(* Mutant: a read is issued although no read command is left.               *)
ReadFromEmptyFifo ==
  /\ state = "issue"
  /\ ~compare_d1 \/ last_write_complete
  /\ concurrent_access_enable \/ src_write_command_ready

issue_read_command ==
  /\ Shown(read_fifo, read_settling)
  /\ state = "issue"
  /\ ~compare_d1 \/ last_write_complete
  /\ concurrent_access_enable \/ src_write_command_ready

(***************************************************************************)
(* Writes to the control port wait while the start bit is set.             *)
(***************************************************************************)
csr_waitrequest == start
Loads(write, reg) == write.reg = reg /\ ~csr_waitrequest

-----------------------------------------------------------------------------
(* The registers.                                                          *)

ControlRegisters(write) ==
  /\ base_address' = IF Loads(write, "base_address") THEN write.value ELSE base_address
  /\ length' = IF Loads(write, "length") THEN write.value ELSE length
  /\ block_size' = IF Loads(write, "block_size") THEN write.value ELSE block_size
  /\ block_trail' = IF Loads(write, "block_trail") THEN write.value ELSE block_trail
  /\ concurrent_access_enable' =
       IF Loads(write, "concurrent") THEN write.value ELSE concurrent_access_enable

StartBit(write) ==
  start' = IF clear_start THEN FALSE
           ELSE IF Loads(write, "start") THEN write.value ELSE start

(***************************************************************************)
(* Bookkeeping of the commands the masters have taken.  The distance is an *)
(* 8-bit register.                                                         *)
(***************************************************************************)
Progress ==
  /\ block_trail_distance' =
       (block_trail_distance + (IF write_fifo_pop THEN 1 ELSE 0)
                             - (IF read_fifo_pop THEN 1 ELSE 0)) % 256
  /\ last_write_complete' =
       (~clear_start /\ (last_write_complete \/ (write_fifo_pop /\ Head(write_fifo).last)))
  /\ last_read_complete' =
       (~clear_start /\ (last_read_complete \/ (read_fifo_pop /\ Head(read_fifo).last)))

(***************************************************************************)
(* The one-hot ring: "compare" is state[0], "issue" is state[1], "set" is  *)
(* state[2].  A popped command, and any write of the start byte, restart   *)
(* it; the end of the test stops it.                                       *)
(***************************************************************************)
Ring(write) ==
  LET initialize == Loads(write, "start") \/ write_fifo_pop \/ read_fifo_pop
      may_set    == state = "set" /\ start /\ ~initialize
      Rotate     == [idle |-> "idle", compare |-> "issue", issue |-> "set", set |-> "compare"]
  IN  /\ state' = IF clear_start THEN "idle"
                  ELSE IF initialize THEN "compare" ELSE Rotate[state]
      /\ compare_d1' = IF state = "compare" THEN compare ELSE compare_d1
      /\ issue_write_command_d1' = issue_write_command
      /\ issue_read_command_d1' = issue_read_command
      /\ issue_write_command_d2' =
           (~write_fifo_pop /\ (issue_write_command_d2 \/ (may_set /\ issue_write_command_d1)))
      /\ issue_read_command_d2' =
           (~read_fifo_pop /\ (issue_read_command_d2 \/ (may_set /\ issue_read_command_d1)))

After(fifo, pop, push, command) ==
  LET rest == IF pop THEN Tail(fifo) ELSE fifo
  IN  IF push THEN Append(rest, command) ELSE rest

Choppers ==
  /\ write_fsm' = Chopper!Clock(write_fsm, start, length, block_size, base_address, write_fifo_full)
  /\ read_fsm' = Chopper!Clock(read_fsm, start, length, block_size, base_address, read_fifo_full)
  /\ write_fifo' = After(write_fifo, write_fifo_pop, write_fifo_push, Chopper!command(write_fsm))
  /\ read_fifo' = After(read_fifo, read_fifo_pop, read_fifo_push, Chopper!command(read_fsm))
  /\ write_settling' = write_fifo_push
  /\ read_settling' = read_fifo_push

(***************************************************************************)
(* The masters.  The read command of the last block does not ask for early *)
(* done.  A block's data is complete only after its requests are posted.   *)
(***************************************************************************)
Masters(writer_finishes, reader_finishes, block_returned) ==
  /\ writer_finishes => write_busy
  /\ reader_finishes => read_busy
  /\ block_returned => due > (IF read_busy THEN 1 ELSE 0)
  /\ write_busy' = (write_fifo_pop \/ (write_busy /\ ~writer_finishes))
  /\ read_busy' = (read_fifo_pop \/ (read_busy /\ ~reader_finishes))
  /\ read_early_done' = IF read_fifo_pop THEN ~Head(read_fifo).last ELSE read_early_done
  /\ due' = due + (IF read_fifo_pop THEN 1 ELSE 0) - (IF block_returned THEN 1 ELSE 0)

History(write) ==
  LET starts == Loads(write, "start") /\ write.value IN
  /\ setup' = IF starts
              THEN [blocks     |-> NumberOfBlocks(length, block_size),
                    trail      |-> block_trail,
                    concurrent |-> concurrent_access_enable]
              ELSE setup
  /\ writes_issued' =
       IF starts THEN 0 ELSE writes_issued + (IF write_fifo_pop THEN 1 ELSE 0)
  /\ reads_issued' =
       IF starts THEN 0 ELSE reads_issued + (IF read_fifo_pop THEN 1 ELSE 0)

-----------------------------------------------------------------------------
(***************************************************************************)
(* One clock edge, with the write on the control port, if any.             *)
(***************************************************************************)
NoWrite == [reg |-> "none", value |-> 0]

Clock(write, writer_finishes, reader_finishes, block_returned) ==
  /\ ControlRegisters(write)
  /\ StartBit(write)
  /\ Progress
  /\ Ring(write)
  /\ Choppers
  /\ Masters(writer_finishes, reader_finishes, block_returned)
  /\ History(write)

(***************************************************************************)
(* The driver never leaves a transfer length of 0 behind (it writes at     *)
(* least 32 bytes), and start_test writes the length before it sets start. *)
(***************************************************************************)
SoftwareMayWrite(write) == write.reg = "start" /\ write.value => length > 0

Next ==
  \E write \in CsrWrites \cup {NoWrite}, w, r, d \in BOOLEAN :
    /\ SoftwareMayWrite(write)
    /\ Clock(write, w, r, d)

(***************************************************************************)
(* The clock runs, and the masters finish what they take: the fabric serves*)
(* every request in the end (PatternReader's TestCompletes).               *)
(***************************************************************************)
Fairness ==
  /\ WF_vars(Next)
  /\ WF_vars(\E r, d \in BOOLEAN : write_busy /\ Clock(NoWrite, TRUE, r, d))
  /\ WF_vars(\E w, d \in BOOLEAN : read_busy /\ Clock(NoWrite, w, TRUE, d))
  /\ WF_vars(\E w, r \in BOOLEAN : due > 0 /\ Clock(NoWrite, w, r, TRUE))

Spec == Init /\ [][Next]_vars
FairSpec == Spec /\ Fairness

-----------------------------------------------------------------------------
(* Properties.                                                             *)

(***************************************************************************)
(* Type correctness.                                                       *)
(***************************************************************************)
FifoWord == [address : Nat, length : Nat, last : BOOLEAN]

TypeOK ==
  /\ base_address \in Nat /\ length \in Nat /\ block_size \in Nat \ {0}
  /\ block_trail \in 1..255 /\ block_trail_distance \in 0..255
  /\ concurrent_access_enable \in BOOLEAN /\ start \in BOOLEAN
  /\ last_write_complete \in BOOLEAN /\ last_read_complete \in BOOLEAN
  /\ state \in {"idle", "compare", "issue", "set"} /\ compare_d1 \in BOOLEAN
  /\ issue_write_command_d1 \in BOOLEAN /\ issue_read_command_d1 \in BOOLEAN
  /\ issue_write_command_d2 \in BOOLEAN /\ issue_read_command_d2 \in BOOLEAN
  /\ write_fsm \in Chopper!Registers /\ read_fsm \in Chopper!Registers
  /\ write_fifo \in Seq(FifoWord) /\ read_fifo \in Seq(FifoWord)
  /\ write_settling \in BOOLEAN /\ read_settling \in BOOLEAN
  /\ write_busy \in BOOLEAN /\ read_busy \in BOOLEAN /\ read_early_done \in BOOLEAN
  /\ due \in Nat /\ writes_issued \in Nat /\ reads_issued \in Nat
  /\ setup \in [blocks : Nat, trail : 0..255, concurrent : BOOLEAN]

(***************************************************************************)
(* The choppers cut the transfer into exactly its blocks: what waits in a  *)
(* command FIFO are the next blocks of the test, in order, each word of the*)
(* transfer once, and only the last one is marked last.  When the start bit*)
(* clears nothing is left behind for the next test.                        *)
(***************************************************************************)
BlockCommand(i) ==
  LET block == Block(i, base_address, length, block_size)
  IN  [address |-> block.address, length |-> block.length, last |-> ~block.early_done]

Follows(fifo, issued) ==
  /\ issued + Len(fifo) <= setup.blocks
  /\ \A i \in DOMAIN fifo : fifo[i] = BlockCommand(issued + i)

CommandsFollowPlan ==
  /\ start => Follows(write_fifo, writes_issued) /\ Follows(read_fifo, reads_issued)
  /\ ~start => write_fifo = <<>> /\ read_fifo = <<>>

(***************************************************************************)
(* The command FIFOs check neither overflow nor underflow.  A chopper stops*)
(* in whatever state it meets a full FIFO, the ring looks at empty two     *)
(* cycles before it presents a command: no word is pushed into a full FIFO *)
(* and no command is presented that is not there.                          *)
(***************************************************************************)
CommandFifosSafe ==
  /\ Len(write_fifo) <= FIFO_DEPTH /\ Len(read_fifo) <= FIFO_DEPTH
  /\ issue_write_command_d2 => Shown(write_fifo, write_settling)
  /\ issue_read_command_d2 => Shown(read_fifo, read_settling)

(***************************************************************************)
(* Avalon-ST: a command that is valid stays valid, unchanged, until its    *)
(* master takes it, whatever the ring and the other master do meanwhile.   *)
(***************************************************************************)
CommandsHeld ==
  [][/\ issue_write_command_d2 /\ write_busy =>
          issue_write_command_d2' /\ Head(write_fifo)' = Head(write_fifo)
     /\ issue_read_command_d2 /\ ~src_read_command_ready =>
          issue_read_command_d2' /\ Head(read_fifo)' = Head(read_fifo)]_vars

(***************************************************************************)
(* No block is read back while it is still being written.                  *)
(***************************************************************************)
NoReadOfUnfinishedBlock ==
  due > 0 => reads_issued <= writes_issued - (IF write_busy THEN 1 ELSE 0)

(***************************************************************************)
(* Without concurrent accesses that holds in every test: the issue of a    *)
(* read looks at the write master three cycles before the read is taken.   *)
(***************************************************************************)
TurnTakingIsSafe == ~setup.concurrent => NoReadOfUnfinishedBlock

(***************************************************************************)
(* The controller implements TrailingTest: it alternates and trails by     *)
(* block_trail blocks although its decisions are pipelined over several    *)
(* cycles, and every test it starts ends, with all blocks written and read *)
(* back.  (The core's header counts the trail one block longer, for every  *)
(* trail; the code does what settings.h says.)                             *)
(***************************************************************************)
TT == INSTANCE TrailingTest
        WITH Setups  <- [blocks : Nat, trail : 0..255, concurrent : BOOLEAN],
             running <- start,
             written <- writes_issued,
             reading <- reads_issued,
             writing <- write_busy

ImplementsTrailingTest == TT!LiveSpec
=============================================================================
