----------------------- MODULE RamTestControllerProofs -----------------------
(***************************************************************************)
(* The test controller, for transfers, blocks, trails and FIFOs of any     *)
(* size and any sequence of tests: the invariants its run checks, that it  *)
(* holds the commands it presents, and that it implements the safety part  *)
(* of TrailingTest.                                                        *)
(***************************************************************************)
EXTENDS RamTestController, TLAPS

-----------------------------------------------------------------------------
(* The invariant.                                                          *)

(***************************************************************************)
(* A chopper that has pushed n commands of the present test: which of its  *)
(* registers hold what in each phase.                                      *)
(***************************************************************************)
Pushed(fsm, n) ==
  /\ ~fsm.enable_d1 => n = 0 /\ fsm.state = "idle"
  /\ fsm.enable_d1 /\ fsm.state = "idle" => n = setup.blocks
  /\ fsm.state # "idle" => n < setup.blocks
  /\ fsm.state = "count" =>
       /\ n > 0
       /\ fsm.length_counter = (n - 1) * block_size
       /\ fsm.length_downcounter = length - (n - 1) * block_size
  /\ fsm.state \in {"address", "length", "write"} =>
       /\ fsm.length_counter = n * block_size
       /\ fsm.length_downcounter = length - n * block_size
  /\ fsm.state = "length" =>
       /\ fsm.command_address = base_address + n * block_size
       /\ fsm.compare_d1 = (length - n * block_size <= block_size)
  /\ fsm.state = "write" => Chopper!command(fsm) = BlockCommand(n + 1)

ChoppersOnPlan ==
  /\ start => Pushed(write_fsm, writes_issued + Len(write_fifo))
  /\ start => Pushed(read_fsm, reads_issued + Len(read_fifo))
  /\ ~start => write_fsm.state = "idle" /\ read_fsm.state = "idle"

(***************************************************************************)
(* While a test runs the registers hold what it was started with.          *)
(***************************************************************************)
SetupHeld ==
  start =>
    /\ length > 0
    /\ setup = [blocks     |-> NumberOfBlocks(length, block_size),
                trail      |-> block_trail,
                concurrent |-> concurrent_access_enable]

(***************************************************************************)
(* The distance register, and the bits that remember the last commands,    *)
(* tell how far the masters are.                                           *)
(***************************************************************************)
ProgressKept ==
  /\ start =>
       /\ reads_issued <= writes_issued
       /\ writes_issued - reads_issued <= block_trail
       /\ block_trail_distance = writes_issued - reads_issued
       /\ last_write_complete => writes_issued = setup.blocks
       /\ last_read_complete => reads_issued = setup.blocks /\ ~read_early_done
  /\ ~start =>
       /\ block_trail_distance = 0
       /\ ~last_write_complete /\ ~last_read_complete
       /\ ~read_busy /\ due = 0

(***************************************************************************)
(* The ring has decided for a command and its master has not taken it yet. *)
(* What the decision was made on is still true.                            *)
(***************************************************************************)
WritePending == issue_write_command_d2 \/ (state = "set" /\ issue_write_command_d1)
ReadPending  == issue_read_command_d2 \/ (state = "set" /\ issue_read_command_d1)

DecisionsStand ==
  /\ start /\ state \in {"issue", "set"} => (compare_d1 <=> compare)
  /\ WritePending =>
       /\ Shown(write_fifo, write_settling)
       /\ compare
       /\ concurrent_access_enable \/ src_read_command_ready
  /\ ReadPending =>
       /\ Shown(read_fifo, read_settling)
       /\ ~compare \/ last_write_complete
       /\ concurrent_access_enable \/ src_write_command_ready

FifosBounded == Len(write_fifo) <= FIFO_DEPTH /\ Len(read_fifo) <= FIFO_DEPTH

ControllerInvariant ==
  /\ TypeOK
  /\ SetupHeld
  /\ CommandsFollowPlan
  /\ ChoppersOnPlan
  /\ ProgressKept
  /\ DecisionsStand
  /\ FifosBounded
  /\ TurnTakingIsSafe

-----------------------------------------------------------------------------
(* Arithmetic of blocks.                                                   *)

(***************************************************************************)
(* Block n + 1 exists exactly when the transfer reaches beyond block n.    *)
(***************************************************************************)
LEMMA BlockEdge ==
  ASSUME NEW len \in Nat, NEW block \in Nat \ {0}, NEW n \in Nat, len > 0
  PROVE  /\ NumberOfBlocks(len, block) \in Nat
         /\ NumberOfBlocks(len, block) > 0
         /\ n < NumberOfBlocks(len, block) <=> n * block < len
<1>. DEFINE q == (len + block - 1) \div block
<1>1. /\ q \in Int
      /\ q * block <= len + block - 1
      /\ len + block - 1 < (q + 1) * block
  OBVIOUS
<1>2. (q + 1) * block = q * block + block /\ q * block \in Int
  BY <1>1
<1>. HIDE DEF q
<1>3. q > 0
  <2>1. SUFFICES ASSUME q <= 0 PROVE FALSE
    BY <1>1
  <2>2. q * block <= 0
    BY <1>1, <2>1
  <2>. QED  BY <1>1, <1>2, <2>2
<1>4. ASSUME n < q PROVE n * block < len
  <2>1. (n + 1) * block <= q * block
    BY <1>1, <1>4
  <2>2. (n + 1) * block = n * block + block /\ n * block \in Int
    OBVIOUS
  <2>. QED  BY <1>1, <2>1, <2>2
<1>5. ASSUME ~(n < q) PROVE ~(n * block < len)
  <2>1. q * block <= n * block
    BY <1>1, <1>5
  <2>2. n * block \in Int
    OBVIOUS
  <2>. QED  BY <1>1, <1>2, <2>1, <2>2
<1>. QED  BY <1>1, <1>3, <1>4, <1>5 DEF NumberOfBlocks, q

(***************************************************************************)
(* One more block.                                                         *)
(***************************************************************************)
LEMMA NextBlock ==
  ASSUME NEW n \in Nat, NEW block \in Nat
  PROVE  /\ n * block \in Nat
         /\ (n + 1) * block = n * block + block
  OBVIOUS

-----------------------------------------------------------------------------
(* A chopper.                                                              *)

(***************************************************************************)
(* The registers stay numbers: the length counts down by whole blocks only *)
(* while there is more than a block left.                                  *)
(***************************************************************************)
LEMMA ChopperTyped ==
  ASSUME NEW fsm \in Chopper!Registers, NEW full \in BOOLEAN,
         length \in Nat, block_size \in Nat, base_address \in Nat,
         fsm.state = "count" => fsm.length_downcounter >= block_size
  PROVE  Chopper!Clock(fsm, TRUE, length, block_size, base_address, full)
           \in Chopper!Registers
<1>. USE DEF Chopper!Clock, Chopper!NextState, Chopper!Registers, Chopper!Phases,
             Chopper!Rotate, Chopper!compare, Chopper!fifo_write
<1>1. CASE ~fsm.enable_d1
  <2>1. CASE fsm.state = "length"
    BY <1>1, <2>1
  <2>2. CASE fsm.state = "address"
    <3>1. CASE full
      BY <1>1, <2>2, <3>1
    <3>2. CASE ~full
      BY <1>1, <2>2, <3>2
    <3>. QED  BY <3>1, <3>2
  <2>3. CASE fsm.state \in {"idle", "count", "write"}
    BY <1>1, <2>3
  <2>. QED  BY <2>1, <2>2, <2>3
<1>2. CASE fsm.enable_d1 /\ full
  BY <1>2
<1>3. CASE fsm.enable_d1 /\ ~full
  <2>1. CASE fsm.state \in {"idle", "count"}
    BY <1>3, <2>1
  <2>2. CASE fsm.state \in {"address", "length"}
    BY <1>3, <2>2
  <2>3. CASE fsm.state = "write"
    BY <1>3, <2>3
  <2>. QED  BY <2>1, <2>2, <2>3
<1>. QED  BY <1>1, <1>2, <1>3

(***************************************************************************)
(* A clock edge takes a chopper that is on plan to one that is on plan,    *)
(* and what it pushes is the next block.                                   *)
(***************************************************************************)
LEMMA ChopperMoves ==
  ASSUME NEW fsm \in Chopper!Registers, NEW n \in Nat, NEW full \in BOOLEAN, NEW next,
         next = Chopper!Clock(fsm, TRUE, length, block_size, base_address, full),
         length \in Nat, length > 0, block_size \in Nat \ {0}, base_address \in Nat,
         setup.blocks = NumberOfBlocks(length, block_size),
         Pushed(fsm, n)
  PROVE  /\ next \in Chopper!Registers
         /\ Chopper!fifo_write(fsm, TRUE, full) =>
              /\ n < setup.blocks
              /\ Chopper!command(fsm) = BlockCommand(n + 1)
              /\ Pushed(next, n + 1)
         /\ ~Chopper!fifo_write(fsm, TRUE, full) => Pushed(next, n)
<1>. DEFINE offset == n * block_size
<1>1. /\ offset \in Nat
      /\ setup.blocks \in Nat
      /\ setup.blocks > 0
      /\ n < setup.blocks <=> offset < length
      /\ n + 1 < setup.blocks <=> offset + block_size < length
  BY BlockEdge, NextBlock
<1>2. BlockCommand(n + 1) =
        [address |-> base_address + offset,
         length  |-> IF offset + block_size < length THEN block_size ELSE length - offset,
         last    |-> ~(offset + block_size < length)]
  <2>1. (n + 1) - 1 = n
    OBVIOUS
  <2>. QED  BY <2>1 DEF BlockCommand, Block
<1>3. n > 0 => (n - 1) * block_size + block_size = offset /\ (n - 1) * block_size \in Nat
  <2>. SUFFICES ASSUME n > 0
                PROVE  (n - 1) * block_size + block_size = offset /\ (n - 1) * block_size \in Nat
    OBVIOUS
  <2>1. n - 1 \in Nat /\ (n - 1) + 1 = n
    OBVIOUS
  <2>. QED  BY <2>1, NextBlock
(* The first command: the counters are loaded.                              *)
<1>4. CASE ~fsm.enable_d1
  BY <1>1, <1>4 DEF Pushed, Chopper!Clock, Chopper!NextState, Chopper!Registers,
     Chopper!fifo_write, Chopper!Phases
(* A full FIFO holds the ring in its phase.                                 *)
<1>5. CASE fsm.enable_d1 /\ full
  BY <1>5 DEF Pushed, Chopper!Clock, Chopper!NextState, Chopper!Registers,
     Chopper!fifo_write, Chopper!Phases, Chopper!command
<1>6. CASE fsm.enable_d1 /\ ~full
  <2>. USE DEF Pushed, Chopper!Clock, Chopper!NextState, Chopper!Registers,
           Chopper!fifo_write, Chopper!Phases, Chopper!Rotate
  <2>1. CASE fsm.state = "idle"
    BY <1>6, <2>1
  <2>2. CASE fsm.state = "count"
    BY <1>1, <1>3, <1>6, <2>2
  <2>3. CASE fsm.state = "address"
    BY <1>1, <1>6, <2>3 DEF Chopper!compare
  <2>4. CASE fsm.state = "length"
    BY <1>1, <1>2, <1>6, <2>4 DEF Chopper!command
  <2>5. CASE fsm.state = "write"
    BY <1>1, <1>2, <1>6, <2>5 DEF Chopper!command
  <2>. QED  BY <2>1, <2>2, <2>3, <2>4, <2>5
<1>. QED  BY <1>4, <1>5, <1>6

-----------------------------------------------------------------------------
(* What the invariant says of a state.                                     *)

(***************************************************************************)
(* The command at the head of a FIFO that holds some is that of the next   *)
(* block, marked last when no block comes after it.                        *)
(***************************************************************************)
LEMMA HeadIsNext ==
  ASSUME ControllerInvariant, start, NEW fifo \in Seq(FifoWord), NEW issued \in Nat,
         Follows(fifo, issued), Len(fifo) > 0
  PROVE  /\ issued < setup.blocks
         /\ setup.blocks \in Nat
         /\ Head(fifo).last \in BOOLEAN
         /\ Head(fifo).last => issued + 1 = setup.blocks
         /\ ~Head(fifo).last => issued + 1 < setup.blocks
<1>1. /\ setup.blocks = NumberOfBlocks(length, block_size)
      /\ setup.blocks \in Nat
      /\ length \in Nat /\ length > 0 /\ block_size \in Nat \ {0}
  BY DEF ControllerInvariant, SetupHeld, TypeOK
<1>2. /\ Head(fifo) = BlockCommand(issued + 1)
      /\ issued < setup.blocks
  <2>1. Head(fifo) = fifo[1] /\ 1 \in DOMAIN fifo
    OBVIOUS
  <2>. QED  BY <1>1, <2>1 DEF Follows
<1>3. BlockCommand(issued + 1).last = ~(issued * block_size + block_size < length)
  <2>1. (issued + 1) - 1 = issued
    OBVIOUS
  <2>. QED  BY <2>1 DEF BlockCommand, Block
<1>4. issued + 1 < setup.blocks <=> issued * block_size + block_size < length
  <2>1. issued + 1 \in Nat
    OBVIOUS
  <2>2. issued + 1 < setup.blocks <=> (issued + 1) * block_size < length
    BY <1>1, <2>1, BlockEdge
  <2>. QED  BY <1>1, <2>2, NextBlock
<1>5. Head(fifo).last \in BOOLEAN /\ (Head(fifo).last <=> ~(issued + 1 < setup.blocks))
  BY <1>2, <1>3, <1>4
<1>. QED  BY <1>1, <1>2, <1>5

(***************************************************************************)
(* The ring never waits for both masters.  A write that is pending:        *)
(***************************************************************************)
LEMMA WriteIsDue ==
  ASSUME ControllerInvariant, WritePending
  PROVE  /\ start
         /\ Len(write_fifo) > 0
         /\ ~last_write_complete
         /\ ~ReadPending
         /\ writes_issued < setup.blocks
         /\ writes_issued - reads_issued < block_trail
         /\ setup.concurrent \/ src_read_command_ready
<1>1. Len(write_fifo) \in Nat /\ Len(write_fifo) > 0
  BY DEF ControllerInvariant, DecisionsStand, TypeOK, Shown
<1>2. start
  BY <1>1 DEF ControllerInvariant, CommandsFollowPlan
<1>3. writes_issued < setup.blocks /\ setup.blocks \in Nat /\ writes_issued \in Nat
  BY <1>1, <1>2, HeadIsNext DEF ControllerInvariant, CommandsFollowPlan, TypeOK
<1>4. ~last_write_complete
  BY <1>2, <1>3 DEF ControllerInvariant, ProgressKept
<1>5. ~ReadPending
  BY <1>4 DEF ControllerInvariant, DecisionsStand
<1>. QED
  BY <1>1, <1>2, <1>3, <1>4, <1>5
     DEF ControllerInvariant, DecisionsStand, ProgressKept, SetupHeld, compare

(***************************************************************************)
(* A read that is pending: its block has been written, unless accesses may *)
(* be concurrent, and the write master is far enough ahead.                *)
(***************************************************************************)
LEMMA ReadIsDue ==
  ASSUME ControllerInvariant, ReadPending
  PROVE  /\ start
         /\ Len(read_fifo) > 0
         /\ ~last_read_complete
         /\ ~WritePending
         /\ reads_issued < setup.blocks
         /\ reads_issued < writes_issued
         /\ writes_issued - reads_issued >= setup.trail \/ writes_issued = setup.blocks
         /\ setup.concurrent \/ ~write_busy
<1>1. Len(read_fifo) \in Nat /\ Len(read_fifo) > 0
  BY DEF ControllerInvariant, DecisionsStand, TypeOK, Shown
<1>2. start
  BY <1>1 DEF ControllerInvariant, CommandsFollowPlan
<1>3. reads_issued < setup.blocks /\ setup.blocks \in Nat /\ reads_issued \in Nat
  BY <1>1, <1>2, HeadIsNext DEF ControllerInvariant, CommandsFollowPlan, TypeOK
<1>4. ~last_read_complete
  BY <1>2, <1>3 DEF ControllerInvariant, ProgressKept
<1>5. ~WritePending
  BY WriteIsDue
<1>6. block_trail \in 1..255 /\ writes_issued \in Nat
  BY DEF ControllerInvariant, TypeOK
<1>. QED
  BY <1>1, <1>2, <1>3, <1>4, <1>5, <1>6
     DEF ControllerInvariant, DecisionsStand, ProgressKept, SetupHeld, compare,
         src_write_command_ready

(***************************************************************************)
(* The start bit clears only when both masters have been given every block *)
(* and the data of all of them has been read back.                         *)
(***************************************************************************)
LEMMA TestIsOver ==
  ASSUME ControllerInvariant, clear_start
  PROVE  /\ start
         /\ reads_issued = setup.blocks /\ writes_issued = setup.blocks
         /\ write_fifo = <<>> /\ read_fifo = <<>>
         /\ write_fsm.state = "idle" /\ read_fsm.state = "idle"
         /\ ~WritePending /\ ~ReadPending
         /\ ~read_busy /\ due = 0
         /\ block_trail_distance = 0
<1>1. start
  BY DEF ControllerInvariant, ProgressKept, clear_start
<1>2. reads_issued = setup.blocks /\ ~read_early_done
  BY <1>1 DEF ControllerInvariant, ProgressKept, clear_start
<1>3. /\ Follows(write_fifo, writes_issued) /\ Follows(read_fifo, reads_issued)
      /\ write_fifo \in Seq(FifoWord) /\ read_fifo \in Seq(FifoWord)
      /\ writes_issued \in Nat /\ reads_issued \in Nat
      /\ reads_issued <= writes_issued
  BY <1>1 DEF ControllerInvariant, CommandsFollowPlan, ProgressKept, TypeOK
<1>4. /\ writes_issued = setup.blocks
      /\ Len(write_fifo) = 0 /\ Len(read_fifo) = 0
  BY <1>2, <1>3 DEF Follows
<1>5. write_fifo = <<>> /\ read_fifo = <<>>
  BY <1>3, <1>4
<1>6. write_fsm.state = "idle" /\ read_fsm.state = "idle"
  <2>1. /\ write_fsm.state # "idle" => writes_issued + Len(write_fifo) < setup.blocks
        /\ read_fsm.state # "idle" => reads_issued + Len(read_fifo) < setup.blocks
    BY <1>1 DEF ControllerInvariant, ChoppersOnPlan, Pushed
  <2>. QED  BY <1>2, <1>3, <1>4, <2>1
<1>7. ~WritePending /\ ~ReadPending
  BY <1>4, WriteIsDue, ReadIsDue
<1>. QED
  BY <1>1, <1>2, <1>3, <1>4, <1>5, <1>6, <1>7
     DEF clear_start, src_read_command_ready, ControllerInvariant, ProgressKept

-----------------------------------------------------------------------------
(* One clock edge.                                                         *)

Edge(write, w, r, d) ==
  /\ write \in CsrWrites \cup {NoWrite}
  /\ SoftwareMayWrite(write)
  /\ w \in BOOLEAN /\ r \in BOOLEAN /\ d \in BOOLEAN
  /\ Clock(write, w, r, d)

Starts(write) == ~start /\ write.reg = "start" /\ write.value

(***************************************************************************)
(* A running test keeps its registers until its start bit clears; a stopped*)
(* controller takes the write, and a start leaves the other registers.     *)
(***************************************************************************)
LEMMA RegisterStep ==
  ASSUME ControllerInvariant, NEW write, NEW w, NEW r, NEW d, Edge(write, w, r, d)
  PROVE  /\ base_address' \in Nat /\ length' \in Nat /\ block_size' \in Nat \ {0}
         /\ block_trail' \in 1..255 /\ concurrent_access_enable' \in BOOLEAN
         /\ start' \in BOOLEAN
         /\ start => UNCHANGED csr /\ start' = ~clear_start
         /\ ~start => ~clear_start /\ start' = Starts(write)
         /\ Starts(write) => UNCHANGED csr /\ length > 0
         /\ Starts(write) \in BOOLEAN /\ clear_start \in BOOLEAN
<1>1. write \in CsrWrite \cup {NoWrite}
  BY DriverAssumption DEF Edge
<1>2. write.reg = "start" => write.value \in BOOLEAN
  BY <1>1 DEF CsrWrite, NoWrite
<1>3. /\ write.reg \in {"base_address", "length"} => write.value \in Nat
      /\ write.reg = "block_size" => write.value \in Nat \ {0}
      /\ write.reg = "block_trail" => write.value \in 1..255
      /\ write.reg = "concurrent" => write.value \in BOOLEAN
  BY <1>1 DEF CsrWrite, NoWrite
<1>4. ControlRegisters(write) /\ StartBit(write)
  BY DEF Edge, Clock
<1>5. /\ base_address' \in Nat /\ length' \in Nat /\ block_size' \in Nat \ {0}
      /\ block_trail' \in 1..255 /\ concurrent_access_enable' \in BOOLEAN
  BY <1>3, <1>4 DEF ControlRegisters, Loads, ControllerInvariant, TypeOK
<1>6. start => UNCHANGED csr
  BY <1>4 DEF ControlRegisters, Loads, csr_waitrequest, csr
<1>7. Starts(write) => UNCHANGED csr /\ length > 0
  BY <1>4 DEF Starts, ControlRegisters, Loads, csr_waitrequest, csr, Edge, SoftwareMayWrite
<1>8. ~start => ~clear_start
  BY TestIsOver
<1>9. clear_start \in BOOLEAN /\ start \in BOOLEAN /\ Starts(write) \in BOOLEAN
  BY <1>2 DEF clear_start, Starts, ControllerInvariant, TypeOK, src_read_command_ready
<1>10. /\ start => start' = ~clear_start
       /\ ~start => start' = Starts(write)
  BY <1>2, <1>4, <1>8, <1>9 DEF StartBit, Starts, Loads, csr_waitrequest
<1>11. start' \in BOOLEAN
  BY <1>9, <1>10
<1>. QED  BY <1>5, <1>6, <1>7, <1>8, <1>9, <1>10, <1>11

(***************************************************************************)
(* A master takes a command only while a test runs, and never both at once.*)
(***************************************************************************)
LEMMA Pops ==
  ASSUME ControllerInvariant
  PROVE  /\ write_fifo_pop \in BOOLEAN /\ read_fifo_pop \in BOOLEAN
         /\ write_fifo_pop => WritePending /\ ~write_busy /\ start /\ ~clear_start
         /\ read_fifo_pop => ReadPending /\ src_read_command_ready /\ start /\ ~clear_start
         /\ ~(write_fifo_pop /\ read_fifo_pop)
<1>1. write_fifo_pop \in BOOLEAN /\ read_fifo_pop \in BOOLEAN
  BY DEF ControllerInvariant, TypeOK, write_fifo_pop, read_fifo_pop,
         src_write_command_ready, src_read_command_ready
<1>2. /\ write_fifo_pop => WritePending /\ ~write_busy
      /\ read_fifo_pop => ReadPending /\ src_read_command_ready
  BY DEF write_fifo_pop, read_fifo_pop, WritePending, ReadPending, src_write_command_ready
<1>. QED  BY <1>1, <1>2, WriteIsDue, ReadIsDue, TestIsOver

(***************************************************************************)
(* The counts of the commands handed out.                                  *)
(***************************************************************************)
LEMMA HistoryStep ==
  ASSUME ControllerInvariant, NEW write, NEW w, NEW r, NEW d, Edge(write, w, r, d)
  PROVE  /\ setup' \in [blocks : Nat, trail : 0..255, concurrent : BOOLEAN]
         /\ writes_issued' \in Nat /\ reads_issued' \in Nat
         /\ Starts(write) =>
              /\ writes_issued' = 0 /\ reads_issued' = 0
              /\ setup' = [blocks     |-> NumberOfBlocks(length, block_size),
                           trail      |-> block_trail,
                           concurrent |-> concurrent_access_enable]
         /\ ~Starts(write) =>
              /\ setup' = setup
              /\ writes_issued' = writes_issued + (IF write_fifo_pop THEN 1 ELSE 0)
              /\ reads_issued' = reads_issued + (IF read_fifo_pop THEN 1 ELSE 0)
<1>1. History(write)
  BY DEF Edge, Clock
<1>2. /\ Starts(write) =>
           /\ writes_issued' = 0 /\ reads_issued' = 0
           /\ setup' = [blocks     |-> NumberOfBlocks(length, block_size),
                        trail      |-> block_trail,
                        concurrent |-> concurrent_access_enable]
      /\ ~Starts(write) =>
           /\ setup' = setup
           /\ writes_issued' = writes_issued + (IF write_fifo_pop THEN 1 ELSE 0)
           /\ reads_issued' = reads_issued + (IF read_fifo_pop THEN 1 ELSE 0)
  BY <1>1 DEF History, Starts, Loads, csr_waitrequest
<1>3. /\ Starts(write) => NumberOfBlocks(length, block_size) \in Nat
      /\ block_trail \in 0..255 /\ concurrent_access_enable \in BOOLEAN
  <2>1. /\ length \in Nat /\ block_size \in Nat \ {0}
        /\ block_trail \in 1..255 /\ concurrent_access_enable \in BOOLEAN
    BY DEF ControllerInvariant, TypeOK
  <2>2. Starts(write) => length > 0
    BY RegisterStep
  <2>3. 0 \in Nat
    OBVIOUS
  <2>. QED  BY <2>1, <2>2, <2>3, BlockEdge
<1>4. setup' \in [blocks : Nat, trail : 0..255, concurrent : BOOLEAN]
  <2>1. CASE Starts(write)
    BY <1>2, <1>3, <2>1
  <2>2. CASE ~Starts(write)
    BY <1>2, <2>2 DEF ControllerInvariant, TypeOK
  <2>. QED  BY <2>1, <2>2
<1>5. writes_issued' \in Nat /\ reads_issued' \in Nat
  BY <1>2 DEF ControllerInvariant, TypeOK
<1>. QED  BY <1>2, <1>4, <1>5

(***************************************************************************)
(* The registers and the setup of a test stay together.                    *)
(***************************************************************************)
LEMMA SetupStep ==
  ASSUME ControllerInvariant, NEW write, NEW w, NEW r, NEW d, Edge(write, w, r, d)
  PROVE  SetupHeld'
<1>1. CASE start
  BY <1>1, RegisterStep, HistoryStep
     DEF ControllerInvariant, SetupHeld, csr, Starts
<1>2. CASE ~start
  BY <1>2, RegisterStep, HistoryStep DEF SetupHeld, csr, Starts
<1>. QED  BY <1>1, <1>2

(***************************************************************************)
(* out words leave a FIFO: one, which it holds, or none.                   *)
(***************************************************************************)
Leave(fifo, pop, out) ==
  /\ pop \in BOOLEAN
  /\ pop => Len(fifo) > 0 /\ out = 1
  /\ ~pop => out = 0

(***************************************************************************)
(* What is left, in order, and behind it the word that entered, if one did.*)
(***************************************************************************)
LeftBy(fifo, out, push, c, rest) ==
  /\ Len(rest) = Len(fifo) - out + (IF push THEN 1 ELSE 0)
  /\ \A i \in 1..Len(fifo) - out : rest[i] = fifo[i + out]
  /\ push => rest[Len(rest)] = c
  /\ out = 0 /\ Len(fifo) > 0 => Head(rest) = Head(fifo)

(***************************************************************************)
(* A FIFO after a pop and a push.                                          *)
(***************************************************************************)
LEMMA AfterShape ==
  ASSUME NEW S, NEW fifo \in Seq(S), NEW c \in S, NEW push \in BOOLEAN,
         NEW pop, NEW out, Leave(fifo, pop, out),
         NEW rest, rest = After(fifo, pop, push, c)
  PROVE  rest \in Seq(S) /\ LeftBy(fifo, out, push, c, rest)
<1>. USE DEF Leave, LeftBy
<1>. DEFINE kept == IF pop THEN Tail(fifo) ELSE fifo
<1>1. /\ kept \in Seq(S)
      /\ Len(fifo) \in Nat /\ Len(kept) = Len(fifo) - out /\ Len(kept) \in Nat
      /\ \A i \in 1..Len(kept) : kept[i] = fifo[i + out]
      /\ out = 0 => kept = fifo
  <2>1. CASE pop
    <3>1. /\ Tail(fifo) \in Seq(S)
          /\ Len(Tail(fifo)) = Len(fifo) - 1
          /\ \A i \in 1..Len(Tail(fifo)) : Tail(fifo)[i] = fifo[i + 1]
      BY <2>1
    <3>2. kept = Tail(fifo) /\ out = 1 /\ Len(fifo) \in Nat
      BY <2>1
    <3>. QED  BY <2>1, <3>1, <3>2
  <2>2. CASE ~pop
    BY <2>2
  <2>. QED  BY <2>1, <2>2
<1>. HIDE DEF kept
<1>2. CASE push
  <2>1. rest = Append(kept, c)
    BY <1>2 DEF After, kept
  <2>2. /\ rest \in Seq(S)
        /\ Len(rest) = Len(kept) + 1
        /\ \A i \in 1..Len(kept) : rest[i] = kept[i]
        /\ rest[Len(kept) + 1] = c
    BY <1>1, <2>1
  <2>3. out = 0 /\ Len(fifo) > 0 => Head(rest) = Head(fifo)
    <3>. SUFFICES ASSUME out = 0, Len(fifo) > 0 PROVE Head(rest) = Head(fifo)
      OBVIOUS
    <3>1. rest[1] = fifo[1] /\ Head(fifo) = fifo[1]
      BY <1>1, <2>2
    <3>2. Head(rest) = rest[1]
      BY <1>1, <2>2
    <3>. QED  BY <3>1, <3>2
  <2>4. /\ Len(rest) = Len(fifo) - out + 1
        /\ \A i \in 1..Len(fifo) - out : rest[i] = fifo[i + out]
        /\ rest[Len(rest)] = c
    BY <1>1, <2>2
  <2>. QED  BY <1>2, <2>2, <2>3, <2>4
<1>3. CASE ~push
  <2>1. rest = kept
    BY <1>3 DEF After, kept
  <2>. QED  BY <1>1, <1>3, <2>1
<1>. QED  BY <1>2, <1>3

(***************************************************************************)
(* One clock edge of a chopper and its FIFO: out commands leave the FIFO,  *)
(* one or none, and the next block may enter.                              *)
(***************************************************************************)
SideEdge(fsm, fifo, issued, pop, push, out, next, rest) ==
  LET full == Len(fifo) = FIFO_DEPTH
  IN  /\ fsm \in Chopper!Registers /\ fifo \in Seq(FifoWord) /\ issued \in Nat
      /\ push \in BOOLEAN /\ Leave(fifo, pop, out)
      /\ Len(fifo) <= FIFO_DEPTH
      /\ start => Follows(fifo, issued) /\ Pushed(fsm, issued + Len(fifo))
      /\ ~start => fsm.state = "idle" /\ fifo = <<>>
      /\ clear_start => start /\ fsm.state = "idle" /\ fifo = <<>> /\ issued = setup.blocks
      /\ pop => start /\ ~clear_start
      /\ push <=> Chopper!fifo_write(fsm, start, full)
      /\ next = Chopper!Clock(fsm, start, length, block_size, base_address, full)
      /\ rest = After(fifo, pop, push, Chopper!command(fsm))

(***************************************************************************)
(* A FIFO that follows the plan and its chopper do so after the clock edge.*)
(***************************************************************************)
LEMMA FifoMoves ==
  ASSUME ControllerInvariant, start,
         NEW fsm, NEW fifo, NEW issued, NEW pop, NEW push, NEW out, NEW next, NEW rest,
         SideEdge(fsm, fifo, issued, pop, push, out, next, rest)
  PROVE  /\ next \in Chopper!Registers
         /\ rest \in Seq(FifoWord)
         /\ Follows(rest, issued + out)
         /\ Pushed(next, issued + out + Len(rest))
         /\ Len(rest) <= FIFO_DEPTH
         /\ Len(rest) = Len(fifo) - out + (IF push THEN 1 ELSE 0)
         /\ ~pop /\ Len(fifo) > 0 => Head(rest) = Head(fifo)
<1>1. /\ fsm \in Chopper!Registers /\ fifo \in Seq(FifoWord) /\ issued \in Nat
      /\ pop \in BOOLEAN /\ push \in BOOLEAN /\ out \in Nat
      /\ Len(fifo) <= FIFO_DEPTH
      /\ Follows(fifo, issued)
      /\ pop => Len(fifo) > 0 /\ out = 1
      /\ ~pop => out = 0
  BY DEF SideEdge, Leave
<1>2. PICK n \in Nat : n = issued + Len(fifo) /\ Pushed(fsm, n)
  BY <1>1 DEF SideEdge
<1>3. PICK full \in BOOLEAN :
        /\ push <=> Chopper!fifo_write(fsm, TRUE, full)
        /\ next = Chopper!Clock(fsm, TRUE, length, block_size, base_address, full)
        /\ full <=> Len(fifo) = FIFO_DEPTH
  BY DEF SideEdge
<1>4. /\ length \in Nat /\ length > 0 /\ block_size \in Nat \ {0} /\ base_address \in Nat
      /\ setup.blocks = NumberOfBlocks(length, block_size)
      /\ setup.blocks \in Nat
      /\ FIFO_DEPTH \in Nat
  BY ControllerAssumption DEF ControllerInvariant, SetupHeld, TypeOK
<1>5. next \in Chopper!Registers
  <2>1. fsm.state = "count" => fsm.length_downcounter >= block_size
    <3>. SUFFICES ASSUME fsm.state = "count"
                  PROVE  fsm.length_downcounter >= block_size
      OBVIOUS
    <3>1. /\ n - 1 \in Nat /\ n < setup.blocks
          /\ fsm.length_downcounter = length - (n - 1) * block_size
      BY <1>2 DEF Pushed
    <3>2. n * block_size = (n - 1) * block_size + block_size /\ (n - 1) * block_size \in Nat
      BY <1>4, <3>1, NextBlock
    <3>3. n * block_size < length
      BY <1>4, <3>1, BlockEdge
    <3>. QED  BY <1>4, <3>1, <3>2, <3>3
  <2>. QED  BY <1>1, <1>3, <1>4, <2>1, ChopperTyped
<1>6. ASSUME push
      PROVE  /\ n < setup.blocks
             /\ Chopper!command(fsm) = BlockCommand(n + 1)
             /\ Pushed(next, n + 1)
  <2>1. Chopper!fifo_write(fsm, TRUE, full)
    BY <1>3, <1>6
  <2>. QED  BY <1>1, <1>2, <1>3, <1>4, <2>1, ChopperMoves, ZenonT(60)
<1>7. ASSUME ~push PROVE Pushed(next, n)
  <2>1. ~Chopper!fifo_write(fsm, TRUE, full)
    BY <1>3, <1>7
  <2>. QED  BY <1>1, <1>2, <1>3, <1>4, <2>1, ChopperMoves, ZenonT(60)
<1>8. push => Len(fifo) < FIFO_DEPTH
  <2>1. push => Len(fifo) # FIFO_DEPTH
    BY <1>3 DEF Chopper!fifo_write
  <2>. QED  BY <1>1, <1>4, <2>1
<1>9. /\ rest \in Seq(FifoWord)
      /\ Len(rest) = Len(fifo) - out + (IF push THEN 1 ELSE 0)
      /\ \A i \in 1..Len(fifo) - out : rest[i] = fifo[i + out]
      /\ push => rest[Len(rest)] = Chopper!command(fsm)
      /\ ~pop /\ Len(fifo) > 0 => Head(rest) = Head(fifo)
  <2>1. rest = After(fifo, pop, push, Chopper!command(fsm))
    BY DEF SideEdge
  <2>2. Chopper!command(fsm) \in FifoWord
    BY <1>1 DEF Chopper!command, Chopper!Registers, FifoWord
  <2>3. Leave(fifo, pop, out)
    BY DEF SideEdge
  <2>4. rest \in Seq(FifoWord) /\ LeftBy(fifo, out, push, Chopper!command(fsm), rest)
    BY <1>1, <2>1, <2>2, <2>3, AfterShape
  <2>. QED  BY <1>1, <2>4 DEF LeftBy
<1>10. Len(fifo) \in Nat /\ Len(rest) \in Nat /\ issued + Len(fifo) <= setup.blocks
  BY <1>1, <1>9 DEF Follows
<1>11. /\ push => issued + out + Len(rest) = n + 1
       /\ ~push => issued + out + Len(rest) = n
  <2>1. ASSUME push PROVE issued + out + Len(rest) = n + 1
    BY ONLY <1>1, <1>2, <1>9, <1>10, <2>1
  <2>2. ASSUME ~push PROVE issued + out + Len(rest) = n
    <3>1. Len(rest) = Len(fifo) - out
      BY ONLY <1>1, <1>9, <1>10, <2>2
    <3>. QED  BY ONLY <1>1, <1>2, <1>10, <3>1
  <2>. QED  BY <2>1, <2>2
<1>12. Follows(rest, issued + out)
  <2>1. issued + out + Len(rest) <= setup.blocks
    BY <1>1, <1>2, <1>4, <1>6, <1>10, <1>11
  <2>2. ASSUME NEW i \in DOMAIN rest
        PROVE  rest[i] = BlockCommand(issued + out + i)
    <3>1. i \in 1..Len(rest)
      BY <1>9
    <3>2. CASE i \in 1..Len(fifo) - out
      <4>1. /\ rest[i] = fifo[i + out]
            /\ i + out \in DOMAIN fifo
        BY <1>1, <1>9, <1>10, <3>2
      <4>2. issued + (i + out) = issued + out + i
        BY <1>1, <3>1
      <4>. QED  BY <1>1, <4>1, <4>2 DEF Follows
    <3>3. CASE ~(i \in 1..Len(fifo) - out)
      <4>1. push
        BY <1>1, <1>9, <1>10, <3>1, <3>3
      <4>2. i = Len(rest) /\ issued + out + i = n + 1
        BY <1>1, <1>9, <1>10, <1>11, <3>1, <3>3, <4>1
      <4>. QED  BY <1>6, <1>9, <4>1, <4>2
    <3>. QED  BY <3>2, <3>3
  <2>. QED  BY <2>1, <2>2 DEF Follows
<1>13. Pushed(next, issued + out + Len(rest))
  BY <1>1, <1>6, <1>7, <1>11
<1>14. Len(rest) <= FIFO_DEPTH
  BY <1>1, <1>4, <1>8, <1>9, <1>10
<1>. QED  BY <1>5, <1>9, <1>12, <1>13, <1>14

(***************************************************************************)
(* A chopper at rest stays at rest, except that it begins when the start   *)
(* bit is new.                                                             *)
(***************************************************************************)
LEMMA ChopperRests ==
  ASSUME NEW fsm \in Chopper!Registers, NEW enable \in BOOLEAN, NEW full \in BOOLEAN,
         NEW next, next = Chopper!Clock(fsm, enable, length, block_size, base_address, full),
         fsm.state = "idle", enable => fsm.enable_d1
  PROVE  /\ next \in Chopper!Registers
         /\ next.state = "idle"
         /\ next.enable_d1 = enable
         /\ ~Chopper!fifo_write(fsm, enable, full)
BY DEF Chopper!Clock, Chopper!NextState, Chopper!Registers, Chopper!Phases,
       Chopper!Rotate, Chopper!fifo_write

(***************************************************************************)
(* A chopper and its FIFO at any clock edge, while a test runs, when it    *)
(* ends, and while none runs.                                              *)
(***************************************************************************)
LEMMA SideMoves ==
  ASSUME ControllerInvariant,
         NEW fsm, NEW fifo, NEW issued, NEW pop, NEW push, NEW out, NEW next, NEW rest,
         SideEdge(fsm, fifo, issued, pop, push, out, next, rest)
  PROVE  /\ next \in Chopper!Registers
         /\ rest \in Seq(FifoWord)
         /\ Len(rest) <= FIFO_DEPTH
         /\ Len(rest) = Len(fifo) - out + (IF push THEN 1 ELSE 0)
         /\ ~pop /\ Len(fifo) > 0 => Head(rest) = Head(fifo)
         /\ ~start \/ clear_start => rest = <<>> /\ next.state = "idle"
         /\ ~start => ~next.enable_d1
         /\ start /\ ~clear_start =>
              Follows(rest, issued + out) /\ Pushed(next, issued + out + Len(rest))
<1>1. CASE start /\ ~clear_start
  BY <1>1, FifoMoves
<1>2. CASE ~start \/ clear_start
  <2>1. /\ fsm \in Chopper!Registers /\ issued \in Nat
        /\ fsm.state = "idle" /\ fifo = <<>>
        /\ pop \in BOOLEAN /\ push \in BOOLEAN /\ ~pop /\ out = 0
        /\ start \in BOOLEAN
    BY <1>2 DEF ControllerInvariant, TypeOK, SideEdge, Leave
  <2>2. start => fsm.enable_d1
    <3>. SUFFICES ASSUME start, ~fsm.enable_d1 PROVE FALSE
      OBVIOUS
    <3>1. issued + Len(fifo) = 0 /\ Len(fifo) = 0 /\ issued = setup.blocks
      BY <1>2, <2>1 DEF Pushed, SideEdge
    <3>2. /\ length \in Nat /\ length > 0 /\ block_size \in Nat \ {0}
          /\ setup.blocks = NumberOfBlocks(length, block_size)
      BY DEF ControllerInvariant, SetupHeld, TypeOK
    <3>3. setup.blocks > 0
      BY <3>2, BlockEdge, 0 \in Nat
    <3>. QED  BY <2>1, <3>1, <3>3
  <2>3. PICK full \in BOOLEAN :
          /\ push <=> Chopper!fifo_write(fsm, start, full)
          /\ next = Chopper!Clock(fsm, start, length, block_size, base_address, full)
    BY DEF SideEdge
  <2>4. /\ next \in Chopper!Registers
        /\ next.state = "idle"
        /\ next.enable_d1 = start
        /\ ~push
    BY <2>1, <2>2, <2>3, ChopperRests
  <2>5. rest = <<>>
    BY <2>1, <2>4 DEF SideEdge, After
  <2>6. Len(<<>>) = 0 /\ FIFO_DEPTH \in Nat /\ <<>> \in Seq(FifoWord)
    BY ControllerAssumption
  <2>. QED  BY <1>2, <2>1, <2>4, <2>5, <2>6
<1>. QED  BY <1>1, <1>2

(***************************************************************************)
(* Both choppers and their FIFOs, with the counts of what was handed out.  *)
(***************************************************************************)
LEMMA ChopperStep ==
  ASSUME ControllerInvariant, NEW write, NEW w, NEW r, NEW d, Edge(write, w, r, d)
  PROVE  /\ write_fsm' \in Chopper!Registers /\ read_fsm' \in Chopper!Registers
         /\ write_fifo' \in Seq(FifoWord) /\ read_fifo' \in Seq(FifoWord)
         /\ write_settling' \in BOOLEAN /\ read_settling' \in BOOLEAN
         /\ FifosBounded'
         /\ CommandsFollowPlan'
         /\ ChoppersOnPlan'
         /\ ~write_fifo_pop /\ Shown(write_fifo, write_settling) =>
              /\ Shown(write_fifo, write_settling)'
              /\ Head(write_fifo)' = Head(write_fifo)
         /\ ~read_fifo_pop /\ Shown(read_fifo, read_settling) =>
              /\ Shown(read_fifo, read_settling)'
              /\ Head(read_fifo)' = Head(read_fifo)
<1>. DEFINE written == IF write_fifo_pop THEN 1 ELSE 0
            taken   == IF read_fifo_pop THEN 1 ELSE 0
<1>1. /\ write_fsm' = Chopper!Clock(write_fsm, start, length, block_size, base_address, write_fifo_full)
      /\ read_fsm' = Chopper!Clock(read_fsm, start, length, block_size, base_address, read_fifo_full)
      /\ write_fifo' = After(write_fifo, write_fifo_pop, write_fifo_push, Chopper!command(write_fsm))
      /\ read_fifo' = After(read_fifo, read_fifo_pop, read_fifo_push, Chopper!command(read_fsm))
      /\ write_settling' = write_fifo_push
      /\ read_settling' = read_fifo_push
  BY DEF Edge, Clock, Choppers
<1>2. /\ write_fifo_push \in BOOLEAN /\ read_fifo_push \in BOOLEAN
      /\ write_fifo \in Seq(FifoWord) /\ read_fifo \in Seq(FifoWord)
      /\ write_settling \in BOOLEAN /\ read_settling \in BOOLEAN
      /\ writes_issued \in Nat /\ reads_issued \in Nat
  BY DEF write_fifo_push, read_fifo_push, Chopper!fifo_write, ControllerInvariant, TypeOK
<1>3. /\ write_fifo_pop => Shown(write_fifo, write_settling)
      /\ read_fifo_pop => Shown(read_fifo, read_settling)
  BY Pops DEF ControllerInvariant, DecisionsStand
<1>4. /\ Leave(write_fifo, write_fifo_pop, written)
      /\ Leave(read_fifo, read_fifo_pop, taken)
  BY <1>2, <1>3, Pops DEF Leave, Shown
<1>. HIDE DEF written, taken
<1>5. SideEdge(write_fsm, write_fifo, writes_issued, write_fifo_pop, write_fifo_push,
               written, write_fsm', write_fifo')
  <2>1. clear_start => start /\ write_fsm.state = "idle" /\ write_fifo = <<>>
                       /\ writes_issued = setup.blocks
    BY TestIsOver
  <2>. QED
    BY <1>1, <1>2, <1>4, <2>1, Pops
       DEF SideEdge, write_fifo_push, write_fifo_full, ControllerInvariant, TypeOK,
           CommandsFollowPlan, ChoppersOnPlan, FifosBounded
<1>6. SideEdge(read_fsm, read_fifo, reads_issued, read_fifo_pop, read_fifo_push,
               taken, read_fsm', read_fifo')
  <2>1. clear_start => start /\ read_fsm.state = "idle" /\ read_fifo = <<>>
                       /\ reads_issued = setup.blocks
    BY TestIsOver
  <2>. QED
    BY <1>1, <1>2, <1>4, <2>1, Pops
       DEF SideEdge, read_fifo_push, read_fifo_full, ControllerInvariant, TypeOK,
           CommandsFollowPlan, ChoppersOnPlan, FifosBounded
<1>7. /\ write_fsm' \in Chopper!Registers
      /\ write_fifo' \in Seq(FifoWord)
      /\ Len(write_fifo') <= FIFO_DEPTH
      /\ Len(write_fifo') = Len(write_fifo) - written + (IF write_fifo_push THEN 1 ELSE 0)
      /\ ~write_fifo_pop /\ Len(write_fifo) > 0 => Head(write_fifo') = Head(write_fifo)
      /\ ~start \/ clear_start => write_fifo' = <<>> /\ write_fsm'.state = "idle"
      /\ ~start => ~write_fsm'.enable_d1
      /\ start /\ ~clear_start =>
           /\ Follows(write_fifo', writes_issued + written)
           /\ Pushed(write_fsm', writes_issued + written + Len(write_fifo'))
  BY <1>5, SideMoves
<1>8. /\ read_fsm' \in Chopper!Registers
      /\ read_fifo' \in Seq(FifoWord)
      /\ Len(read_fifo') <= FIFO_DEPTH
      /\ Len(read_fifo') = Len(read_fifo) - taken + (IF read_fifo_push THEN 1 ELSE 0)
      /\ ~read_fifo_pop /\ Len(read_fifo) > 0 => Head(read_fifo') = Head(read_fifo)
      /\ ~start \/ clear_start => read_fifo' = <<>> /\ read_fsm'.state = "idle"
      /\ ~start => ~read_fsm'.enable_d1
      /\ start /\ ~clear_start =>
           /\ Follows(read_fifo', reads_issued + taken)
           /\ Pushed(read_fsm', reads_issued + taken + Len(read_fifo'))
  BY <1>6, SideMoves
<1>9. ~write_fifo_pop /\ Shown(write_fifo, write_settling) =>
        /\ Shown(write_fifo, write_settling)'
        /\ Head(write_fifo)' = Head(write_fifo)
  <2>. SUFFICES ASSUME ~write_fifo_pop, Shown(write_fifo, write_settling)
                PROVE  /\ Shown(write_fifo, write_settling)'
                       /\ Head(write_fifo)' = Head(write_fifo)
    OBVIOUS
  <2>1. Len(write_fifo) > 0 /\ Len(write_fifo) \in Nat /\ written = 0
    BY <1>2, <1>4 DEF Shown, Leave
  <2>2. Len(write_fifo') = Len(write_fifo) + (IF write_settling' THEN 1 ELSE 0)
    BY <1>1, <1>7, <2>1
  <2>3. Len(write_fifo') > (IF write_settling' THEN 1 ELSE 0)
    BY <2>1, <2>2
  <2>. QED  BY <1>7, <2>1, <2>3 DEF Shown
<1>10. ~read_fifo_pop /\ Shown(read_fifo, read_settling) =>
         /\ Shown(read_fifo, read_settling)'
         /\ Head(read_fifo)' = Head(read_fifo)
  <2>. SUFFICES ASSUME ~read_fifo_pop, Shown(read_fifo, read_settling)
                PROVE  /\ Shown(read_fifo, read_settling)'
                       /\ Head(read_fifo)' = Head(read_fifo)
    OBVIOUS
  <2>1. Len(read_fifo) > 0 /\ Len(read_fifo) \in Nat /\ taken = 0
    BY <1>2, <1>4 DEF Shown, Leave
  <2>2. Len(read_fifo') = Len(read_fifo) + (IF read_settling' THEN 1 ELSE 0)
    BY <1>1, <1>8, <2>1
  <2>3. Len(read_fifo') > (IF read_settling' THEN 1 ELSE 0)
    BY <2>1, <2>2
  <2>. QED  BY <1>8, <2>1, <2>3 DEF Shown
<1>11. CommandsFollowPlan' /\ ChoppersOnPlan'
  <2>1. CASE start /\ ~clear_start
    <3>1. /\ start' /\ UNCHANGED csr /\ setup' = setup
          /\ writes_issued' = writes_issued + written
          /\ reads_issued' = reads_issued + taken
      BY <2>1, RegisterStep, HistoryStep DEF Starts, written, taken
    <3>2. Follows(write_fifo, writes_issued)' /\ Follows(read_fifo, reads_issued)'
      BY <1>7, <1>8, <2>1, <3>1 DEF Follows, BlockCommand, csr
    <3>3. /\ Pushed(write_fsm, writes_issued + Len(write_fifo))'
          /\ Pushed(read_fsm, reads_issued + Len(read_fifo))'
      BY <1>7, <1>8, <2>1, <3>1 DEF Pushed, BlockCommand, csr
    <3>. QED  BY <3>1, <3>2, <3>3 DEF CommandsFollowPlan, ChoppersOnPlan
  <2>2. CASE start /\ clear_start
    <3>1. ~start'
      BY <2>2, RegisterStep
    <3>. QED  BY <1>7, <1>8, <2>2, <3>1 DEF CommandsFollowPlan, ChoppersOnPlan
  <2>3. CASE ~start
    <3>1. /\ write_fifo' = <<>> /\ write_fsm'.state = "idle" /\ ~write_fsm'.enable_d1
          /\ read_fifo' = <<>> /\ read_fsm'.state = "idle" /\ ~read_fsm'.enable_d1
      BY <1>7, <1>8, <2>3
    <3>2. CASE ~start'
      BY <3>1, <3>2 DEF CommandsFollowPlan, ChoppersOnPlan
    <3>3. CASE start'
      <4>1. writes_issued' = 0 /\ reads_issued' = 0 /\ setup'.blocks \in Nat
        BY <2>3, <3>3, RegisterStep, HistoryStep
      <4>2. Follows(write_fifo, writes_issued)' /\ Follows(read_fifo, reads_issued)'
        BY <3>1, <4>1 DEF Follows
      <4>3. /\ Pushed(write_fsm, writes_issued + Len(write_fifo))'
            /\ Pushed(read_fsm, reads_issued + Len(read_fifo))'
        BY <3>1, <4>1 DEF Pushed
      <4>. QED  BY <3>3, <4>2, <4>3 DEF CommandsFollowPlan, ChoppersOnPlan
    <3>. QED  BY <3>2, <3>3
  <2>. QED  BY <2>1, <2>2, <2>3
<1>12. write_settling' \in BOOLEAN /\ read_settling' \in BOOLEAN
  BY <1>1, <1>2
<1>. QED  BY <1>7, <1>8, <1>9, <1>10, <1>11, <1>12 DEF FifosBounded

(***************************************************************************)
(* The masters: one that is not given a command does not become busy, and  *)
(* the read master stays ready.                                            *)
(***************************************************************************)
LEMMA MasterStep ==
  ASSUME ControllerInvariant, NEW write, NEW w, NEW r, NEW d, Edge(write, w, r, d)
  PROVE  /\ write_busy' \in BOOLEAN /\ read_busy' \in BOOLEAN /\ read_early_done' \in BOOLEAN
         /\ due' \in Nat
         /\ ~write_fifo_pop => /\ src_write_command_ready => src_write_command_ready'
                               /\ write_busy' => write_busy
         /\ write_fifo_pop => write_busy'
         /\ ~read_fifo_pop =>
              /\ src_read_command_ready => src_read_command_ready'
              /\ read_early_done' = read_early_done
              /\ read_busy' => read_busy
              /\ due' <= due
         /\ read_fifo_pop => (read_early_done' <=> ~Head(read_fifo).last) /\ due' > 0
<1>1. Masters(w, r, d) /\ w \in BOOLEAN /\ r \in BOOLEAN /\ d \in BOOLEAN
  BY DEF Edge, Clock
<1>2. /\ write_busy \in BOOLEAN /\ read_busy \in BOOLEAN /\ read_early_done \in BOOLEAN
      /\ due \in Nat /\ reads_issued \in Nat
      /\ read_fifo \in Seq(FifoWord)
      /\ start => Follows(read_fifo, reads_issued)
  BY DEF ControllerInvariant, TypeOK, CommandsFollowPlan
<1>3. write_fifo_pop \in BOOLEAN /\ read_fifo_pop \in BOOLEAN
  BY Pops
<1>4. /\ write_busy' \in BOOLEAN /\ read_busy' \in BOOLEAN
      /\ ~write_fifo_pop => (write_busy' => write_busy)
      /\ ~read_fifo_pop => (read_busy' => read_busy)
      /\ write_fifo_pop => write_busy'
  BY <1>1, <1>2, <1>3 DEF Masters
<1>5. /\ ~read_fifo_pop => read_early_done' = read_early_done
      /\ read_fifo_pop => (read_early_done' <=> ~Head(read_fifo).last)
  BY <1>1, <1>3 DEF Masters
<1>6. read_early_done' \in BOOLEAN
  <2>1. CASE read_fifo_pop
    BY <1>1, <2>1 DEF Masters
  <2>2. CASE ~read_fifo_pop
    BY <1>2, <1>5, <2>2
  <2>. QED  BY <2>1, <2>2
<1>7. /\ due' \in Nat
      /\ ~read_fifo_pop => due' <= due
      /\ ~read_fifo_pop /\ due = 0 => due' = 0
      /\ read_fifo_pop => due' > 0
  <2>1. d => due > 0
    BY <1>1, <1>2 DEF Masters
  <2>2. due' = due + (IF read_fifo_pop THEN 1 ELSE 0) - (IF d THEN 1 ELSE 0)
    BY <1>1 DEF Masters
  <2>. QED  BY <1>1, <1>2, <1>3, <2>1, <2>2
<1>8. ~write_fifo_pop /\ src_write_command_ready => src_write_command_ready'
  BY <1>4 DEF src_write_command_ready
<1>9. ~read_fifo_pop /\ src_read_command_ready => src_read_command_ready'
  BY <1>4, <1>5, <1>7 DEF src_read_command_ready
<1>. QED  BY <1>4, <1>5, <1>6, <1>7, <1>8, <1>9

(***************************************************************************)
(* The distance register and the bits of the last commands.                *)
(***************************************************************************)
LEMMA ProgressStep ==
  ASSUME ControllerInvariant, NEW write, NEW w, NEW r, NEW d, Edge(write, w, r, d)
  PROVE  /\ block_trail_distance' \in 0..255
         /\ last_write_complete' \in BOOLEAN /\ last_read_complete' \in BOOLEAN
         /\ ProgressKept'
         /\ ~clear_start /\ last_write_complete => last_write_complete'
         /\ ~write_fifo_pop /\ ~read_fifo_pop => block_trail_distance' = block_trail_distance
<1>. DEFINE written == IF write_fifo_pop THEN 1 ELSE 0
            taken   == IF read_fifo_pop THEN 1 ELSE 0
<1>1. /\ block_trail_distance' = (block_trail_distance + written - taken) % 256
      /\ last_write_complete' <=>
           (~clear_start /\ (last_write_complete \/ (write_fifo_pop /\ Head(write_fifo).last)))
      /\ last_read_complete' <=>
           (~clear_start /\ (last_read_complete \/ (read_fifo_pop /\ Head(read_fifo).last)))
  BY DEF Edge, Clock, Progress
<1>2. /\ block_trail \in 1..255 /\ block_trail_distance \in 0..255
      /\ last_write_complete \in BOOLEAN /\ last_read_complete \in BOOLEAN
      /\ writes_issued \in Nat /\ reads_issued \in Nat
      /\ start \in BOOLEAN /\ clear_start \in BOOLEAN
      /\ write_fifo_pop \in BOOLEAN /\ read_fifo_pop \in BOOLEAN
      /\ read_early_done \in BOOLEAN
  BY Pops, RegisterStep DEF ControllerInvariant, TypeOK
<1>3. ASSUME write_fifo_pop
      PROVE  /\ start /\ ~clear_start /\ ~read_fifo_pop
             /\ writes_issued < setup.blocks
             /\ writes_issued - reads_issued < block_trail
             /\ Head(write_fifo).last \in BOOLEAN
             /\ Head(write_fifo).last => writes_issued + 1 = setup.blocks
             /\ ~last_write_complete
  <2>1. /\ start /\ ~clear_start /\ ~read_fifo_pop
        /\ Len(write_fifo) > 0
        /\ writes_issued < setup.blocks
        /\ writes_issued - reads_issued < block_trail
        /\ ~last_write_complete
    BY <1>3, Pops, WriteIsDue
  <2>2. /\ Head(write_fifo).last \in BOOLEAN
        /\ Head(write_fifo).last => writes_issued + 1 = setup.blocks
    BY <2>1, HeadIsNext DEF ControllerInvariant, TypeOK, CommandsFollowPlan
  <2>. QED  BY <2>1, <2>2
<1>4. ASSUME read_fifo_pop
      PROVE  /\ start /\ ~clear_start /\ ~write_fifo_pop
             /\ reads_issued < setup.blocks
             /\ reads_issued < writes_issued
             /\ Head(read_fifo).last \in BOOLEAN
             /\ Head(read_fifo).last => reads_issued + 1 = setup.blocks
             /\ ~last_read_complete
  <2>1. /\ start /\ ~clear_start /\ ~write_fifo_pop
        /\ Len(read_fifo) > 0
        /\ reads_issued < setup.blocks
        /\ reads_issued < writes_issued
        /\ ~last_read_complete
    BY <1>4, Pops, ReadIsDue
  <2>2. /\ Head(read_fifo).last \in BOOLEAN
        /\ Head(read_fifo).last => reads_issued + 1 = setup.blocks
    BY <2>1, HeadIsNext DEF ControllerInvariant, TypeOK, CommandsFollowPlan
  <2>. QED  BY <2>1, <2>2
<1>5. last_write_complete' \in BOOLEAN /\ last_read_complete' \in BOOLEAN
  BY DEF Edge, Clock, Progress
<1>6. block_trail_distance + written - taken \in 0..255
  <2>1. write_fifo_pop => block_trail_distance < 255
    BY <1>2, <1>3 DEF ControllerInvariant, ProgressKept
  <2>2. read_fifo_pop => block_trail_distance > 0
    BY <1>2, <1>4 DEF ControllerInvariant, ProgressKept
  <2>. QED  BY <1>2, <1>3, <1>4, <2>1, <2>2
<1>7. /\ block_trail_distance' = block_trail_distance + written - taken
      /\ block_trail_distance' \in 0..255
  <2>. HIDE DEF written, taken
  <2>1. \A n \in 0..255 : n % 256 = n
    OBVIOUS
  <2>. QED  BY <1>1, <1>6, <2>1
<1>8. ASSUME start /\ ~clear_start PROVE ProgressKept'
  <2>1. /\ start' /\ UNCHANGED csr /\ setup' = setup
        /\ writes_issued' = writes_issued + written
        /\ reads_issued' = reads_issued + taken
    BY <1>8, RegisterStep, HistoryStep DEF Starts
  <2>2. /\ reads_issued <= writes_issued
        /\ writes_issued - reads_issued <= block_trail
        /\ block_trail_distance = writes_issued - reads_issued
        /\ last_write_complete => writes_issued = setup.blocks
        /\ last_read_complete => reads_issued = setup.blocks /\ ~read_early_done
    BY <1>8 DEF ControllerInvariant, ProgressKept
  <2>3. /\ reads_issued' <= writes_issued'
        /\ writes_issued' - reads_issued' <= block_trail
        /\ block_trail_distance' = writes_issued' - reads_issued'
    BY <1>2, <1>3, <1>4, <1>7, <2>1, <2>2
  <2>4. last_write_complete' => writes_issued' = setup.blocks
    BY <1>1, <1>2, <1>3, <2>1, <2>2
  <2>5. last_read_complete' => reads_issued' = setup.blocks
    BY <1>1, <1>2, <1>4, <2>1, <2>2
  <2>6. last_read_complete' => ~read_early_done'
    <3>1. CASE read_fifo_pop
      BY <1>1, <1>2, <1>4, <3>1, MasterStep
    <3>2. CASE ~read_fifo_pop
      BY <1>1, <1>2, <2>2, <3>2, MasterStep
    <3>. QED  BY <3>1, <3>2
  <2>7. start' /\ block_trail' = block_trail /\ setup'.blocks = setup.blocks
    BY <2>1 DEF csr
  <2>. QED  BY ONLY <2>3, <2>4, <2>5, <2>6, <2>7 DEF ProgressKept
<1>9. ASSUME start /\ clear_start PROVE ProgressKept'
  <2>1. ~start' /\ ~read_fifo_pop /\ ~write_fifo_pop
    BY <1>2, <1>3, <1>4, <1>9, RegisterStep
  <2>2. block_trail_distance = 0 /\ ~read_busy /\ due = 0
    BY <1>9, TestIsOver
  <2>3. block_trail_distance' = 0
    BY <1>7, <2>1, <2>2
  <2>4. ~read_busy' /\ due' = 0
    BY <2>1, <2>2, MasterStep
  <2>5. ~last_write_complete' /\ ~last_read_complete'
    BY <1>1, <1>9
  <2>. QED  BY <2>1, <2>3, <2>4, <2>5 DEF ProgressKept
<1>10. ASSUME ~start PROVE ProgressKept'
  <2>1. ~read_fifo_pop /\ ~write_fifo_pop
    BY <1>3, <1>4, <1>10
  <2>2. /\ block_trail_distance = 0 /\ ~read_busy /\ due = 0
        /\ ~last_write_complete /\ ~last_read_complete
    BY <1>10 DEF ControllerInvariant, ProgressKept
  <2>3. block_trail_distance' = 0 /\ ~last_write_complete' /\ ~last_read_complete'
    <3>1. block_trail_distance' = 0
      BY <1>7, <2>1, <2>2
    <3>. QED  BY <1>1, <2>1, <2>2, <3>1
  <2>4. ~read_busy' /\ due' = 0
    BY <2>1, <2>2, MasterStep
  <2>5. start' => writes_issued' = 0 /\ reads_issued' = 0
    BY <1>10, RegisterStep, HistoryStep
  <2>6. block_trail' \in 1..255
    BY RegisterStep
  <2>. QED  BY ONLY <2>3, <2>4, <2>5, <2>6 DEF ProgressKept
<1>. QED  BY <1>1, <1>2, <1>5, <1>7, <1>8, <1>9, <1>10

(***************************************************************************)
(* The ring.  A decision is made on what it finds in "compare" and "issue",*)
(* and nothing but the command it leads to changes that.                   *)
(***************************************************************************)
LEMMA RingStep ==
  ASSUME ControllerInvariant, NEW write, NEW w, NEW r, NEW d, Edge(write, w, r, d)
  PROVE  /\ state' \in {"idle", "compare", "issue", "set"}
         /\ compare_d1' \in BOOLEAN
         /\ issue_write_command_d1' \in BOOLEAN /\ issue_read_command_d1' \in BOOLEAN
         /\ issue_write_command_d2' \in BOOLEAN /\ issue_read_command_d2' \in BOOLEAN
         /\ DecisionsStand'
<1>. DEFINE initialize == Loads(write, "start") \/ write_fifo_pop \/ read_fifo_pop
            may_set    == state = "set" /\ start /\ ~initialize
<1>1. /\ clear_start => state' = "idle"
      /\ ~clear_start /\ initialize => state' = "compare"
      /\ ~clear_start /\ ~initialize /\ state = "idle" => state' = "idle"
      /\ ~clear_start /\ ~initialize /\ state = "compare" => state' = "issue"
      /\ ~clear_start /\ ~initialize /\ state = "issue" => state' = "set"
      /\ ~clear_start /\ ~initialize /\ state = "set" => state' = "compare"
  BY DEF Edge, Clock, Ring
<1>2. /\ state = "compare" => (compare_d1' <=> compare)
      /\ state # "compare" => compare_d1' = compare_d1
      /\ issue_write_command_d1' <=> issue_write_command
      /\ issue_read_command_d1' <=> issue_read_command
      /\ issue_write_command_d2' <=>
           (~write_fifo_pop /\ (issue_write_command_d2 \/ (may_set /\ issue_write_command_d1)))
      /\ issue_read_command_d2' <=>
           (~read_fifo_pop /\ (issue_read_command_d2 \/ (may_set /\ issue_read_command_d1)))
  BY DEF Edge, Clock, Ring
<1>3. /\ state \in {"idle", "compare", "issue", "set"} /\ compare_d1 \in BOOLEAN
      /\ start \in BOOLEAN
      /\ write_fifo \in Seq(FifoWord) /\ read_fifo \in Seq(FifoWord)
  BY DEF ControllerInvariant, TypeOK
<1>4. /\ state' \in {"idle", "compare", "issue", "set"}
      /\ compare_d1' \in BOOLEAN
      /\ issue_write_command_d1' \in BOOLEAN /\ issue_read_command_d1' \in BOOLEAN
      /\ issue_write_command_d2' \in BOOLEAN /\ issue_read_command_d2' \in BOOLEAN
  <2>1. state' \in {"idle", "compare", "issue", "set"}
    BY <1>1, <1>3
  <2>2. compare_d1' \in BOOLEAN
    <3>1. state = "compare" => compare_d1' \in BOOLEAN
      BY DEF Edge, Clock, Ring, compare
    <3>. QED  BY <1>2, <1>3, <3>1
  <2>3. /\ issue_write_command_d1' \in BOOLEAN /\ issue_read_command_d1' \in BOOLEAN
        /\ issue_write_command_d2' \in BOOLEAN /\ issue_read_command_d2' \in BOOLEAN
    BY DEF Edge, Clock, Ring, issue_write_command, issue_read_command
  <2>. QED  BY <2>1, <2>2, <2>3
<1>5. /\ issue_write_command => start
      /\ issue_read_command => start
  <2>1. ~start => Len(write_fifo) = 0 /\ Len(read_fifo) = 0
    BY DEF ControllerInvariant, CommandsFollowPlan
  <2>. QED  BY <1>3, <2>1 DEF issue_write_command, issue_read_command, Shown
<1>6. /\ WritePending => start /\ ~ReadPending
      /\ ReadPending => start
      /\ issue_write_command_d2 => WritePending
      /\ issue_read_command_d2 => ReadPending
  BY WriteIsDue, ReadIsDue DEF WritePending, ReadPending
<1>. HIDE DEF initialize, may_set
<1>7. ASSUME clear_start \/ initialize
      PROVE  /\ ~WritePending' /\ ~ReadPending'
             /\ state' \in {"idle", "compare"}
  <2>1. state' \in {"idle", "compare"}
    BY <1>1, <1>7
  <2>2. ~may_set \/ clear_start
    BY <1>7 DEF may_set
  <2>3. clear_start => ~WritePending /\ ~ReadPending
    BY TestIsOver
  <2>4. ~issue_write_command_d2'
    <3>1. CASE clear_start
      BY <1>2, <2>3, <3>1 DEF WritePending, may_set
    <3>2. CASE ~clear_start
      <4>1. initialize /\ ~may_set
        BY <1>7, <2>2, <3>2
      <4>2. issue_write_command_d2 => write_fifo_pop
        BY <1>6, <4>1, Pops DEF initialize, Loads, csr_waitrequest
      <4>. QED  BY <1>2, <4>1, <4>2
    <3>. QED  BY <3>1, <3>2
  <2>5. ~issue_read_command_d2'
    <3>1. CASE clear_start
      BY <1>2, <2>3, <3>1 DEF ReadPending, may_set
    <3>2. CASE ~clear_start
      <4>1. initialize /\ ~may_set
        BY <1>7, <2>2, <3>2
      <4>2. issue_read_command_d2 => read_fifo_pop
        BY <1>6, <4>1, Pops DEF initialize, Loads, csr_waitrequest
      <4>. QED  BY <1>2, <4>1, <4>2
    <3>. QED  BY <3>1, <3>2
  <2>. QED  BY <2>1, <2>4, <2>5 DEF WritePending, ReadPending
<1>8. CASE clear_start \/ initialize
  BY <1>4, <1>7, <1>8 DEF DecisionsStand
<1>9. ASSUME ~clear_start, ~initialize PROVE DecisionsStand'
  <2>1. ~write_fifo_pop /\ ~read_fifo_pop
    BY <1>9 DEF initialize
  <2>2. /\ WritePending' => WritePending \/ issue_write_command
        /\ ReadPending' => ReadPending \/ issue_read_command
    BY <1>2 DEF WritePending, ReadPending, may_set
  <2>3. CASE start
    <3>1. /\ start' /\ UNCHANGED csr
          /\ block_trail_distance' = block_trail_distance
          /\ last_write_complete => last_write_complete'
      BY <1>9, <2>1, <2>3, RegisterStep, ProgressStep
    <3>2. compare' <=> compare
      BY <3>1 DEF compare, csr
    <3>3. state' \in {"issue", "set"} => (compare_d1' <=> compare')
      <4>1. state \in {"issue", "set"} => (compare_d1 <=> compare)
        BY <2>3 DEF ControllerInvariant, DecisionsStand
      <4>. QED  BY <1>1, <1>2, <1>3, <1>9, <3>2, <4>1
    <3>4. ASSUME WritePending'
          PROVE  /\ Shown(write_fifo, write_settling)'
                 /\ compare'
                 /\ (concurrent_access_enable \/ src_read_command_ready)'
      <4>1. /\ Shown(write_fifo, write_settling)
            /\ compare
            /\ concurrent_access_enable \/ src_read_command_ready
        BY <2>2, <2>3, <3>4 DEF ControllerInvariant, DecisionsStand, issue_write_command
      <4>. QED  BY <2>1, <3>1, <3>2, <4>1, ChopperStep, MasterStep DEF csr
    <3>5. ASSUME ReadPending'
          PROVE  /\ Shown(read_fifo, read_settling)'
                 /\ ~compare' \/ last_write_complete'
                 /\ (concurrent_access_enable \/ src_write_command_ready)'
      <4>1. /\ Shown(read_fifo, read_settling)
            /\ ~compare \/ last_write_complete
            /\ concurrent_access_enable \/ src_write_command_ready
        BY <2>2, <2>3, <3>5 DEF ControllerInvariant, DecisionsStand, issue_read_command
      <4>. QED  BY <2>1, <3>1, <3>2, <4>1, ChopperStep, MasterStep DEF csr
    <3>. QED  BY <3>3, <3>4, <3>5 DEF DecisionsStand
  <2>4. CASE ~start
    <3>1. ~WritePending' /\ ~ReadPending'
      BY <1>5, <1>6, <2>2, <2>4
    <3>2. ~start'
      BY <1>9, <2>4, RegisterStep DEF Starts, initialize, Loads, csr_waitrequest
    <3>. QED  BY <3>1, <3>2 DEF DecisionsStand
  <2>. QED  BY <1>3, <2>3, <2>4
<1>. QED  BY <1>4, <1>8, <1>9

(***************************************************************************)
(* Without concurrent accesses no read meets an unfinished block: a read is*)
(* taken only while the write master is idle and ahead, and a write that is*)
(* taken counts the block it leaves unfinished.                            *)
(***************************************************************************)
LEMMA TurnStep ==
  ASSUME ControllerInvariant, NEW write, NEW w, NEW r, NEW d, Edge(write, w, r, d)
  PROVE  TurnTakingIsSafe'
<1>. SUFFICES ASSUME ~setup'.concurrent, due' > 0
              PROVE  (reads_issued <= writes_issued - (IF write_busy THEN 1 ELSE 0))'
  BY DEF TurnTakingIsSafe, NoReadOfUnfinishedBlock
<1>1. /\ writes_issued \in Nat /\ reads_issued \in Nat /\ due \in Nat
      /\ write_busy \in BOOLEAN /\ read_busy \in BOOLEAN
      /\ write_fifo_pop \in BOOLEAN /\ read_fifo_pop \in BOOLEAN
  BY Pops DEF ControllerInvariant, TypeOK
<1>2. ~Starts(write)
  <2>1. ~start => due = 0 /\ ~read_fifo_pop
    BY Pops DEF ControllerInvariant, ProgressKept
  <2>2. ~start => due' = 0
    BY <1>1, <2>1, MasterStep
  <2>. QED  BY <1>1, <2>2 DEF Starts
<1>3. /\ setup' = setup
      /\ writes_issued' = writes_issued + (IF write_fifo_pop THEN 1 ELSE 0)
      /\ reads_issued' = reads_issued + (IF read_fifo_pop THEN 1 ELSE 0)
  BY <1>2, HistoryStep
<1>4. CASE read_fifo_pop
  <2>1. /\ reads_issued < writes_issued /\ ~write_busy /\ ~write_fifo_pop
    BY <1>3, <1>4, Pops, ReadIsDue
  <2>2. ~write_busy'
    BY <2>1, MasterStep
  <2>. QED  BY <1>1, <1>3, <1>4, <2>1, <2>2
<1>5. CASE write_fifo_pop
  <2>1. ~read_fifo_pop /\ src_read_command_ready /\ start
    BY <1>3, <1>5, Pops, WriteIsDue
  <2>2. reads_issued <= writes_issued
    BY <2>1 DEF ControllerInvariant, ProgressKept
  <2>. QED  BY <1>1, <1>3, <1>5, <2>1, <2>2
<1>6. CASE ~read_fifo_pop /\ ~write_fifo_pop
  <2>1. due > 0 /\ (write_busy' => write_busy) /\ write_busy' \in BOOLEAN
    BY <1>1, <1>6, MasterStep
  <2>2. reads_issued <= writes_issued - (IF write_busy THEN 1 ELSE 0)
    BY <1>3, <2>1 DEF ControllerInvariant, TurnTakingIsSafe, NoReadOfUnfinishedBlock
  <2>. QED  BY <1>1, <1>3, <1>6, <2>1, <2>2
<1>. QED  BY <1>4, <1>5, <1>6

(***************************************************************************)
(* The invariant at the beginning.                                         *)
(***************************************************************************)
LEMMA ControllerBegins == Init => ControllerInvariant
<1>. SUFFICES ASSUME Init PROVE ControllerInvariant
  OBVIOUS
<1>. USE DEF Init
<1>1. TypeOK
  <2>1. Chopper!Reset \in Chopper!Registers
    BY DEF Chopper!Reset, Chopper!Registers, Chopper!Phases
  <2>2. <<>> \in Seq(FifoWord)
    OBVIOUS
  <2>3. /\ DEFAULT_BLOCK_SIZE \in Nat \ {0}
        /\ DEFAULT_TRAIL_DISTANCE \in 1..255
        /\ setup \in [blocks : Nat, trail : 0..255, concurrent : BOOLEAN]
    BY ControllerAssumption
  <2>. QED  BY <2>1, <2>2, <2>3 DEF TypeOK
<1>2. SetupHeld
  BY DEF SetupHeld
<1>3. CommandsFollowPlan
  BY DEF CommandsFollowPlan
<1>4. ChoppersOnPlan
  BY DEF ChoppersOnPlan, Chopper!Reset
<1>5. ProgressKept
  BY DEF ProgressKept
<1>6. DecisionsStand
  BY DEF DecisionsStand, WritePending, ReadPending
<1>7. FifosBounded
  BY ControllerAssumption DEF FifosBounded
<1>8. TurnTakingIsSafe
  BY DEF TurnTakingIsSafe, NoReadOfUnfinishedBlock
<1>. QED
  BY <1>1, <1>2, <1>3, <1>4, <1>5, <1>6, <1>7, <1>8 DEF ControllerInvariant

(***************************************************************************)
(* Every step keeps it.                                                    *)
(***************************************************************************)
LEMMA ControllerKept == ControllerInvariant /\ [Next]_vars => ControllerInvariant'
<1>. SUFFICES ASSUME ControllerInvariant, [Next]_vars PROVE ControllerInvariant'
  OBVIOUS
<1>1. ASSUME NEW write, NEW w, NEW r, NEW d, Edge(write, w, r, d)
      PROVE  ControllerInvariant'
  <2>1. TypeOK'
    BY <1>1, RegisterStep, HistoryStep, ChopperStep, MasterStep, ProgressStep, RingStep
       DEF TypeOK
  <2>. QED
    BY <1>1, <2>1, SetupStep, ChopperStep, ProgressStep, RingStep, TurnStep
       DEF ControllerInvariant
<1>2. CASE Next
  BY <1>1, <1>2 DEF Next, Edge
<1>3. CASE UNCHANGED vars
  BY <1>3
     DEF vars, csr, ring, progress, fifos, masters, history,
         ControllerInvariant, TypeOK, SetupHeld, CommandsFollowPlan, Follows, BlockCommand,
         ChoppersOnPlan, Pushed, ProgressKept, DecisionsStand, WritePending, ReadPending,
         Shown, compare, src_read_command_ready, src_write_command_ready, FifosBounded,
         TurnTakingIsSafe, NoReadOfUnfinishedBlock
<1>. QED  BY <1>2, <1>3

LEMMA ControllerInvariantHolds == Spec => []ControllerInvariant
<1>1. Init => ControllerInvariant
  BY ControllerBegins
<1>2. ControllerInvariant /\ [Next]_vars => ControllerInvariant'
  BY ControllerKept
<1>. QED  BY <1>1, <1>2, PTL DEF Spec

-----------------------------------------------------------------------------
(* The properties of the runs.                                             *)

(***************************************************************************)
(* The registers keep their widths: the 8-bit distance never wraps.        *)
(***************************************************************************)
THEOREM TypeCorrect == Spec => []TypeOK
<1>1. ControllerInvariant => TypeOK
  BY DEF ControllerInvariant
<1>. QED  BY <1>1, ControllerInvariantHolds, PTL

(***************************************************************************)
(* Whatever the length, the block size and the depth of the FIFOs, what    *)
(* waits in them are the next blocks of the test, in order, and nothing is *)
(* left behind for the next test.                                          *)
(***************************************************************************)
THEOREM PlanFollowed == Spec => []CommandsFollowPlan
<1>1. ControllerInvariant => CommandsFollowPlan
  BY DEF ControllerInvariant
<1>. QED  BY <1>1, ControllerInvariantHolds, PTL

(***************************************************************************)
(* No command FIFO overflows, and none is empty when its command is        *)
(* presented.                                                              *)
(***************************************************************************)
THEOREM FifosSafe == Spec => []CommandFifosSafe
<1>1. ControllerInvariant => CommandFifosSafe
  BY DEF ControllerInvariant, FifosBounded, DecisionsStand, WritePending, ReadPending,
         CommandFifosSafe
<1>. QED  BY <1>1, ControllerInvariantHolds, PTL

(***************************************************************************)
(* In a test without concurrent accesses no block is read back while it is *)
(* still being written.                                                    *)
(***************************************************************************)
THEOREM TurnsSafe == Spec => []TurnTakingIsSafe
<1>1. ControllerInvariant => TurnTakingIsSafe
  BY DEF ControllerInvariant
<1>. QED  BY <1>1, ControllerInvariantHolds, PTL

(***************************************************************************)
(* A command that waits for its master stays, unchanged.                   *)
(***************************************************************************)
THEOREM CommandsStay == Spec => CommandsHeld
<1>1. ASSUME ControllerInvariant, [Next]_vars
      PROVE  [/\ issue_write_command_d2 /\ write_busy =>
                   issue_write_command_d2' /\ Head(write_fifo)' = Head(write_fifo)
              /\ issue_read_command_d2 /\ ~src_read_command_ready =>
                   issue_read_command_d2' /\ Head(read_fifo)' = Head(read_fifo)]_vars
  <2>. SUFFICES ASSUME NEW write, NEW w, NEW r, NEW d, Edge(write, w, r, d)
                PROVE  /\ issue_write_command_d2 /\ write_busy =>
                            issue_write_command_d2' /\ Head(write_fifo)' = Head(write_fifo)
                       /\ issue_read_command_d2 /\ ~src_read_command_ready =>
                            issue_read_command_d2' /\ Head(read_fifo)' = Head(read_fifo)
    BY <1>1 DEF Next, Edge
  <2>1. ASSUME issue_write_command_d2, write_busy
        PROVE  issue_write_command_d2' /\ Head(write_fifo)' = Head(write_fifo)
    <3>1. ~write_fifo_pop
      BY <2>1 DEF write_fifo_pop, src_write_command_ready
    <3>2. issue_write_command_d2'
      BY <2>1, <3>1 DEF Edge, Clock, Ring
    <3>3. Shown(write_fifo, write_settling)
      BY <1>1, <2>1 DEF ControllerInvariant, DecisionsStand, WritePending
    <3>. QED  BY <1>1, <3>1, <3>2, <3>3, ChopperStep
  <2>2. ASSUME issue_read_command_d2, ~src_read_command_ready
        PROVE  issue_read_command_d2' /\ Head(read_fifo)' = Head(read_fifo)
    <3>1. ~read_fifo_pop
      BY <2>2 DEF read_fifo_pop
    <3>2. issue_read_command_d2'
      BY <2>2, <3>1 DEF Edge, Clock, Ring
    <3>3. Shown(read_fifo, read_settling)
      BY <1>1, <2>2 DEF ControllerInvariant, DecisionsStand, ReadPending
    <3>. QED  BY <1>1, <3>1, <3>2, <3>3, ChopperStep
  <2>. QED  BY <2>1, <2>2
<1>. QED  BY <1>1, ControllerInvariantHolds, PTL DEF Spec, CommandsHeld

-----------------------------------------------------------------------------
(* The controller implements TrailingTest.                                 *)

(***************************************************************************)
(* A clock edge that neither starts nor ends a test hands out at most one  *)
(* block, and one that may be handed out.                                  *)
(***************************************************************************)
LEMMA HandsOut ==
  ASSUME ControllerInvariant, NEW write, NEW w, NEW r, NEW d, Edge(write, w, r, d),
         ~clear_start, ~Starts(write)
  PROVE  TT!Step
<1>1. /\ write_fifo_pop \in BOOLEAN /\ read_fifo_pop \in BOOLEAN
      /\ ~(write_fifo_pop /\ read_fifo_pop)
  BY Pops
<1>2. /\ w \in BOOLEAN /\ d \in BOOLEAN
      /\ w => write_busy
      /\ d => due > 0
      /\ write_busy' = (write_fifo_pop \/ (write_busy /\ ~w))
      /\ due' = due + (IF read_fifo_pop THEN 1 ELSE 0) - (IF d THEN 1 ELSE 0)
  BY DEF Edge, Clock, Masters, ControllerInvariant, TypeOK
<1>3. /\ writes_issued' = writes_issued + (IF write_fifo_pop THEN 1 ELSE 0)
      /\ reads_issued' = reads_issued + (IF read_fifo_pop THEN 1 ELSE 0)
      /\ setup' = setup
  BY HistoryStep
<1>4. start' = start
  BY RegisterStep DEF ControllerInvariant, TypeOK
<1>5. write_fifo_pop => TT!MayWrite
  <2>. SUFFICES ASSUME write_fifo_pop PROVE TT!MayWrite
    OBVIOUS
  <2>1. /\ start /\ ~write_busy
        /\ writes_issued < setup.blocks
        /\ writes_issued - reads_issued < block_trail
    BY Pops, WriteIsDue
  <2>. QED  BY <2>1 DEF TT!MayWrite, ControllerInvariant, SetupHeld
<1>6. read_fifo_pop => TT!MayRead
  BY Pops, ReadIsDue DEF TT!MayRead
<1>. QED  BY <1>1, <1>2, <1>3, <1>4, <1>5, <1>6 DEF TT!Step

(***************************************************************************)
(* Every step of the controller is one of TrailingTest, or changes nothing *)
(* that it shows.                                                          *)
(***************************************************************************)
LEMMA StepImplements ==
  ASSUME ControllerInvariant, [Next]_vars
  PROVE  [TT!Next]_TT!vars
<1>1. ASSUME NEW write, NEW w, NEW r, NEW d, Edge(write, w, r, d)
      PROVE  TT!Next
  <2>1. CASE ~clear_start /\ ~Starts(write)
    BY <1>1, <2>1, HandsOut DEF TT!Next
  <2>2. CASE clear_start
    <3>1. /\ start /\ start' = FALSE /\ ~Starts(write)
          /\ ~write_fifo_pop /\ ~read_fifo_pop
      BY <1>1, <2>2, RegisterStep, TestIsOver, Pops DEF Starts
    <3>2. reads_issued = setup.blocks /\ due = 0 /\ due' \in Nat /\ due' <= due
      BY <1>1, <2>2, <3>1, TestIsOver, MasterStep
    <3>3. write_busy' \in {write_busy, FALSE}
      BY <1>1, <3>1, MasterStep DEF ControllerInvariant, TypeOK
    <3>4. setup' = setup /\ writes_issued' = writes_issued /\ reads_issued' = reads_issued
      BY <1>1, <3>1, HistoryStep DEF ControllerInvariant, TypeOK
    <3>5. start = TRUE /\ due' = due
      BY <3>1, <3>2 DEF ControllerInvariant, TypeOK
    <3>. QED  BY <3>1, <3>2, <3>3, <3>4, <3>5 DEF TT!Next, TT!Stop
  <2>3. CASE Starts(write)
    <3>1. ~start /\ start' = TRUE /\ ~write_fifo_pop /\ ~read_fifo_pop
      BY <1>1, <2>3, RegisterStep, Pops DEF Starts
    <3>2. due = 0 /\ due' \in Nat /\ due' <= due
      BY <1>1, <3>1, MasterStep DEF ControllerInvariant, ProgressKept
    <3>3. write_busy' \in {write_busy, FALSE}
      BY <1>1, <3>1, MasterStep DEF ControllerInvariant, TypeOK
    <3>4. /\ setup' \in [blocks : Nat, trail : 0..255, concurrent : BOOLEAN]
          /\ writes_issued' = 0 /\ reads_issued' = 0
      BY <1>1, <2>3, HistoryStep
    <3>5. due' = due
      BY <3>2
    <3>. QED  BY <3>1, <3>3, <3>4, <3>5 DEF TT!Next, TT!Start
  <2>. QED  BY <2>1, <2>2, <2>3
<1>2. CASE Next
  BY <1>1, <1>2 DEF Next, Edge
<1>3. CASE UNCHANGED vars
  BY <1>3 DEF vars, masters, history, TT!vars
<1>. QED  BY <1>2, <1>3

(***************************************************************************)
(* The safety part of ImplementsTrailingTest: whatever the depth of the    *)
(* FIFOs and the pipeline of its decisions, the controller never lets the  *)
(* write master get more than block_trail blocks ahead, never has a block  *)
(* read that is not written or not due, and never clears the start bit     *)
(* before everything has been read back.                                   *)
(***************************************************************************)
THEOREM ControllerTrails == Spec => TT!Spec
<1>1. Init => TT!Init
  BY DEF Init, TT!Init, TT!NoTest
<1>2. ControllerInvariant /\ [Next]_vars => [TT!Next]_TT!vars
  BY StepImplements
<1>. QED  BY <1>1, <1>2, ControllerInvariantHolds, PTL DEF Spec, TT!Spec
=============================================================================
