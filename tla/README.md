# The memory tester of `tt_qsys_design` and the board support package: models, model checks and proofs

The repository is a collection of Altera Qsys designs. Its own program logic is
the **memory tester**: a set of Verilog cores
(`src/tt_qsys_design/memory_tester_ip`) and the C program that drives them
(`src/tt_qsys_design/quartus_ii_projects_for_boards/*/software/src/main.c`, the
same file for three boards). Around it lie small teaching designs
(`avalon_mm_master`, `avalon_mm_slave`, `common_tools`, `de2-115/leds`), a board
support package with a JTAG UART driver (`interrupts_example/software/bsp`),
OpenCores I2C and SPI cores (`de0_nano`), vendor simulation models and generated
RTL. This directory models the memory tester, and of the board support package
the two parts with concurrency of their own: the JTAG UART driver and the alarms.

## 1. Inventory

### How a memory test runs

```
 main.c ──CSR writes──> every core                 CSR reads <── main.c
                 ┌────────────────────┐
                 │ ram_test_controller│ registers, 2 choppers, 2 command FIFOs,
                 └──┬──────────────┬──┘ ring, start bit, timer
     write commands │              │ read commands
 generators ─> mux ─> pattern_writer ══> memory ══> pattern_reader ─> demux ─> checkers
```

The software fills the pattern memories, programs payload lengths, starts the
generator and the checker, programs the controller and sets its start bit. The
controller cuts the transfer into blocks; the write master fills them with the
generated data; the read master follows a few blocks behind and hands the data
to the checker, which compares it with what it generates itself. The software
polls the checker's start bit and then reads its failure bit.

### Components

| Component (source under `memory_tester_ip/`) | State | Operations | Interacts with | What makes it correct |
|---|---|---|---|---|
| read master `pattern_reader/mtm_pattern_reader.v` | command registers, counters one burst ahead, `read`, `pending_reads_counter`, FIFO | take a command, post bursts, collect data, deliver data | command port, Avalon-MM fabric, demux | no FIFO overflow; requests held under waitrequest; exactly the words of the command, in order, never across a burst boundary; ends |
| write master `pattern_writer/mtm_pattern_writer.v` | command registers, counters one word ahead, `burst_counter`, `write`, FIFO | take a command, buffer data, post bursts | command port, fabric, mux | no FIFO underflow; bursts held; exactly the words of the command; ends |
| chopper `ram_test_controller/mtm_chopper_fsm.v` | ring of 4 states, next address, length left | push the next block command | its command FIFO, control registers | blocks partition the transfer; last one marked; no push into a full FIFO |
| test controller `ram_test_controller/mtm_ram_test_controller.v` | control registers, ring of 3 states, distance, two "last complete" bits, start | take a control write, hand out a write or a read command, end the test, count time | both choppers and masters, software | trail distance, turn taking, commands held, every test ends, clean state for the next |
| generators `prbs_pattern_generator`, `custom_pattern_generator` | payload counter, shift register or pattern position, pipeline | produce words while running | mux, software | exactly the payload, words not lost under back pressure, in step with the checker |
| checkers `prbs_pattern_checker`, `custom_pattern_checker` | payload counter, shift register or position, compare pipeline, failure flag, start | compare a word, stop | demux, software | every wrong word flagged; no false alarm; start clears when the verdict can be trusted |
| `two_to_one_st_mux`, `one_to_two_st_demux` | selection, one pipeline word per output | pass a word, switch, clear | generators/writer, reader/checkers, software | no word lost or shown to the wrong checker |
| HAL drivers (`*/HAL/src/*.c`) | none (register access) | set/read a register, refuse while running | cores | range checks, read-modify-write of byte lanes |
| `main.c`, `settings.h` | sweep counters, failure code | populate, program, start, validate, sweep | all of the above | each parameter set tested once; verdict is the checker's; time-out reported only when it timed out |

Outside the tester:

| Component (source under `interrupts_example/software/bsp/`) | State | Operations | Interacts with | What makes it correct |
|---|---|---|---|---|
| JTAG UART driver `drivers/src/altera_avalon_jtag_uart_*.c` | two circular buffers, interrupt enables, host inactivity and time-out | read, write, close, ioctl; interrupt handler; alarm | the core's FIFOs, the host, the HAL alarms | bytes in order, none lost; no wake-up lost; calls return; gives up only when stuck |
| HAL alarms `HAL/src/alt_tick.c`, `alt_alarm_start.c`, `HAL/inc/sys/alt_llist.h` | circular list, tick counter, time and roll-over flag of each alarm | start, stop, tick | threads, callbacks, timer interrupt | called in their tick, over the wrap of the counter and under changes of the list |
| HAL interrupt dispatch, file descriptors | tables | register, dispatch, open, close | drivers | planned |

`common_tools/rtl/fifo.v`, the Avalon-MM master and slave examples and the
DE0-Nano system control are listed in `PROJECT.json` with what is planned.

### What is hard here

* Registered decisions. Nearly every condition is evaluated one to three clock
  edges before it takes effect: the room for a read burst, the burst count of
  the next burst, the ring's choice of a master, the chopper's look at `full`.
* Counters that run ahead. The masters' length counters are one burst (reader)
  or one word (writer) ahead of the bus, and decide when the command is over.
* Unbounded back pressure from the fabric, the generator and the checker, in
  any combination.
* Two masters that finish in any order, tests that follow each other with
  changed registers, a start bit that gates the whole.
* Two cores that must make the same sequence without ever being told a word,
  each stopping by its own count, over a whole sweep of tests.
* Software that polls one bit and reads another, and does not look at what
  `start_test`, `mux_input_select` and `demux_output_select` return.
* In the driver: an interrupt handler and a foreground that share indices
  without a lock, and enable bits both of them change; a time-out that races the
  room the handler makes. In the HAL: a list that changes under the walk.

The hazards are listed one by one, at their lines, in `PROJECT.json`.

## 2. Modules

One `Clock` step is one rising clock edge: all registers are computed from the
registers before the edge and the inputs sampled at it, as nonblocking
assignments do, and the inputs are chosen nondeterministically in every step.
Combinational wires are operators with the wire's name. Addresses and lengths
count words of the data bus (the masters drop the byte bits), and a data FIFO is
its fill level, because these cores look at no data.

| Module | Models | Correspondence |
|---|---|---|
| `BurstCounts` | burst arithmetic common to both masters | the wires of the same names; bit slices as remainders |
| `BurstMaster` | *abstract*: what a master promises | commands moved word by word, in order, in legal bursts |
| `PatternReader` | the read master | `Clock` = `Datapath` (address, counters, counts) /\ `Control` (flip-flops) /\ `Credit` (pending reads, FIFO); `NewTest` refills the command FIFO after the controller ended a test |
| `PatternWriter` | the write master | `Clock` = `Counters` /\ `Control` /\ `Buffer`; `NewTest` likewise, with a new payload |
| `BlockPlan` | *reference definition*: the blocks of a transfer | a closed formula per block, independent of the chopper's registers |
| `ChopperFsm` | the chopper | operators on the record of a chopper's registers, used for the write and for the read chopper |
| `TrailingTest` | *abstract*: what the controller promises | write a block, read it back at the trail distance, stop |
| `RamTestController` | controller with both choppers and command FIFOs | `Clock` = control registers, start bit, `Progress`, `Ring`, `Choppers`, and the two `Masters` as environment |
| `PatternPort` | control port registers, pattern memory and position, shared by both custom cores | the identical register blocks of the two cores |
| `CustomGenerator`, `CustomChecker` | the custom pattern cores | one record of registers each; `Clock` is their next state; a checker pipeline stage is its word, or none when its valid bit is low |
| `CustomPatternTest` | `main.c` running custom pattern tests on both cores | the software is a program counter with one operation per register access (named after the HAL function), at least `GAP` clocks apart; the path through the memory is a FIFO that may hand out wrong words |
| `PrbsPort` | control port registers and shift register of both PRBS cores | a word is a function from its bits to BOOLEAN, `pipeline_input` the wire of that name |
| `PrbsGenerator`, `PrbsChecker` | the PRBS cores | one record of registers each; `Clock` is their next state |
| `PrbsTest` | `main.c` running PRBS tests on both cores | as `CustomPatternTest`; the software may access a register in every clock |
| `StreamSwitch` | multiplexer, path, demultiplexer and the software that switches them | wires by name; a word is the lane it was made for and its number in the test |
| `SweepPromise` | *abstract*: what a sweep promises | each combination passes once per round, the first failure ends it |
| `TestSweep` | `main()` with all its loops, `start_test`, `validate_results` and the HAL write functions | one action per loop head, register access or poll; the cores answer late, or never |
| `ByteChannel` | *abstract*: one direction of the driver | bytes come out as they went in, never more under way than fit |
| `JtagUart` | the interrupt-driven driver | one action per statement that reads or writes what handler and foreground share; host, device FIFOs, interrupts (`RI`, `WI`, `pause_irq`) and alarm beside it, as in `interrupt_example_JTAG_UART.v` |
| `AlarmPromise` | *abstract*: what an alarm promises | ticks left, called at zero |
| `AlarmList` | the alarm list, `alt_alarm_start`, `alt_alarm_stop`, `alt_tick` | `alt_tick` is one action per alarm visited and per callback returned |
| `*Proofs` | theorems | see section 4 |
| `MC*` | instances for TLC | sets of bases, lengths, block sizes, trails |

History variables (`job`, `posted`, `burst`, `written`, `setup`, `*_issued`, `corrupted`,
`carriedOut`, `passed`, `sent`, `taken`, `accepted`, `got`)
record what happened on the ports; no guard of the design reads them, except
that `job` stands for the word a show-ahead command FIFO keeps on its output
after the last pop. That word matters: the cores look at the command port even
when no command is valid.

## 3. What TLC checks

| Run | Result | Question |
|---|---|---|
| `reader` | passes | Does the read master respect its FIFO, hold its requests, read every word once in order, and finish? |
| `writer` | passes | The same of the write master, with underflow instead of overflow. |
| `controller` | passes | Over any sequence of tests, are the blocks right, the trail and the turns kept, commands held, and does every test end? |
| `custom_test` | passes | Is the software's verdict on a custom pattern test right, do both cores stay in step, and does every test end? |
| `prbs_test` | passes | The same of PRBS tests, whose cores have only their own counts to stay in step by. |
| `stream_switch` | passes | Do words reach the checker of their test, although the pending bits leave out stalled words, the driver looks at the bit of output A only, and refusals are ignored? |
| `test_sweep` | passes | Does the sweep test every combination once, set up each test so that it can end, and report what the hardware did? |
| `jtag_uart` | passes | Do handler, alarm and foreground of the JTAG UART driver lose a byte, a wake-up or a call? |
| `alarms` | passes | Are alarms called in their tick, whatever the counter and the list do meanwhile (with `StopAny` FALSE)? |
| `lost_position` | violation | Does the checker ever fail a good memory, when payloads are not whole patterns? |
| `mixed_blocks` | violation | Does a read stay within its block when consecutive blocks end in bursts of different lengths? |
| `starved_writer` | violation | Does a command with a short last burst complete when the data comes late? |

Properties of the passing runs:

* reader: `RoomForPostedRead` (its first part is `FifoNeverOverflows`);
  `HoldWhileWaiting` (Avalon-MM: request unchanged under waitrequest);
  `ImplementsBurstMaster` (refinement); `TestCompletes` (liveness).
* writer: `DataBuffered` (no underflow); `EveryWordWritten` (bursts and words
  agree, and ready means all written); `BurstHeld`; `ImplementsBurstMaster`;
  `TestCompletes`.
* controller: `CommandsFollowPlan` (what is in the command FIFOs is what
  `BlockPlan` says, and nothing survives the end of a test);
  `CommandFifosSafe`; `TurnTakingIsSafe`; `CommandsHeld` (Avalon-ST: a command
  offered stays until taken); `ImplementsTrailingTest` (refinement, including
  that every test ends; the trail is counted as the code does, section 5).
* custom_test: `VerdictIsTrue` (a pass means no wrong word and none missing, an
  error that a word was wrong); `InStep` (what the checker expects = words on
  the way + what the generator has left, and the same of the positions);
  `WrittenWhileStopped` (the register map's rule for the software);
  `PayloadCompletes` (liveness).
* prbs_test: `TypeOK` (no core reaches the word 0); `InStep` (the words under
  way follow each other from the one the checker expects to the one the
  generator goes on with, and the counts add up); `VerdictIsTrue`.
* stream_switch: `RightChecker`; `WordsArrive` (liveness).
* test_sweep: `NeverWaitsInVain` (while the software polls, the test is over or
  can come to its end); `ImplementsSweep` (refinement); `SweepEnds` (liveness).
* jtag_uart: `NoLostWakeup` (the transmit interrupt is off only with nothing to
  send, the receive interrupt only with bytes in the buffer for the next read,
  or with a call on its way to enable it); `BytesInOrder` (each direction refines
  `ByteChannel`); `GivesUpOnlyWhenStuck`; `CallsReturn` (with the time-out in
  reach a write or close returns, and a read returns when a byte has reached the
  device) and `AcceptedIsSent` (liveness).
* alarms: `TypeOK` (the list stays doubly linked); `ImplementsAlarms`
  (refinement); `TickEnds` (liveness).

### Bounds, and why they are enough

* `MAX_BURST_COUNT` is 4 (2 in two violation runs; the boards use 2). With 4
  there are first, full and last bursts of different lengths, misaligned bases
  and commands that do not reach the first boundary.
* The FIFO holds 10 words for the reader (not a multiple of the burst, so that
  the room runs out inside a burst) and 8 for the writer. The boards use 128.
  The reader's argument needs two bursts; the revision note in its header asks
  for four, and the proofs show that two suffice.
* Lengths up to 18 words in blocks of 4 to 16: one to five commands per test,
  followed by another test. `LENGTH_WORDS` = 32 lets the length counters wrap:
  the reader's counter passes below zero between commands.
* Controller: command FIFOs of 2 words so that the choppers meet a full FIFO,
  transfers of 1 to 5 blocks, trails of 1 to 3 (fewer, as many as, and more than
  the blocks), both access modes, and control writes at any time in any order.
* Custom tests: pattern memory of 2 words, patterns of 1 and 2 words, payloads of
  4 (longer than the generator's latency of 3, so that it runs, stalls and ends
  with words in its pipeline), a path of 4 words, a time-out after 2 polls. The
  path may stall, delay and change words in any way; any number of tests follow
  each other, with finite payloads, with stop on failure, and with infinite ones.
* `GAP` = 3 clocks between two register accesses of the software. It is the
  exact need: with 2, `VerdictIsTrue` fails, because the checker's start bit
  clears three cycles before the failure flag is up to date. The Nios II needs
  many more clocks from the read in one HAL function to the read in another.
* `custom_test` runs whole patterns (payloads that are multiples of every
  pattern length), as the shipped sweep does; `lost_position` runs others.
* PRBS tests: words of 3 bits with a polynomial of period 7, so that payloads of
  2 and 4 words bring the sequence round; a path of 3 words that may change
  them; all three modes the cores can be set up for; with and without seeding
  between tests (`main.c` never seeds). No `GAP` here: the checker's last
  comparison is in the flag when a software that accesses the port in every
  clock reads it, but with no clock to spare.
* Switches: tests of 1 to 6 words on either lane, a path of 2 words; 6 is more
  than path and switch registers hold together.
* Sweep: two rounds over three of four minor tests (one is disabled) with two
  values of block size, trail and length, minima that are not powers of two,
  time-out after 3 polls. `unsigned long` counts modulo 512, and the block size
  register of the controller (24 bits in the code) keeps what is below 128, above
  the largest block of the sweep, as `settings.h:23` demands.
* JTAG UART: buffers of 3 slots (2 bytes), a receive FIFO of 2 bytes and a
  transmit FIFO of 1, calls of 2 bytes, 5 bytes in both directions together:
  buffers fill, wrap and empty, and calls meet full and empty buffers (474 528
  states). The core counts a FIFO of 64 as almost full, or almost empty, within 8;
  with thresholds of 0 the read interrupt rises when the FIFO is full and the
  write interrupt when it is empty, so that in between there is a fill level
  with data and no interrupt, as in the core; the theorems hold for any
  thresholds. `INT_MAX` is 3, so that `host_inactive` reaches
  its cap. The program stops when it has used up the bytes, hence no check for
  deadlock; the same for a sweep that has ended.
* Alarms: three alarms and a counter of 5 values that wraps again and again;
  start values and periods up to one wrap.
* `reader` runs over plans where consecutive blocks end in bursts of the same
  length or in full bursts, and `writer` over commands that end in a full burst
  (or are one short burst of more than one word). These are the plans the sweep
  of `main.c` produces: its lengths and block sizes are powers of two from
  0x400 bytes. Outside them the code misbehaves; `mixed_blocks` and
  `starved_writer` show how. The theorems have these conditions as hypotheses.

### Fairness

* `WF_vars(Ticks(S))`: the clock runs, and an input that is not always withheld
  occurs. A slave may hold waitrequest for any time but drops it in the end; a
  word requested is returned; the checker's `ready` and the generator's `valid`
  come; the controller keeps a command valid until it is taken (which
  `CommandsHeld` checks of the controller). These are the obligations of an
  Avalon fabric and of its streaming ports, and none says *when*.
* custom_test: the clock runs; the path asks for a word in the end when it has
  room and hands one over in the end when it has one, which is what
  `TestCompletes` says of both masters. Nothing is assumed of the software.
* stream_switch: the clock and the software run; words the path, the generator
  and the checker can move they move in the end.
* test_sweep: the processor runs, and a test that is over clears the start bit.
  Nothing is assumed of the hardware before that: it may hang.
* jtag_uart: handler and program run, the timer ticks, and a host that is again
  and again able to take a byte takes one (strong fairness, because interrupts
  and a host that comes and goes disable the step). Nothing makes the host send.
* alarms: `alt_tick` goes on, and callbacks return; a callback may start and stop
  alarms between, which is why its return is strongly fair.
* prbs_test: none; its properties are safety.
* controller: the clock runs, and a master that is busy finishes, which is what
  `TestCompletes` checks of each master.

## 4. What is proved

For every value of the constants that satisfies the named assumptions
(`BurstAssumption`: a positive burst length, 1 when bursts are off;
`ReaderAssumption`: FIFO of at least two bursts; `WriterAssumption`: likewise
for its FIFO; length counters that hold more than a burst; any set of
command sequences, aligned or not):

* `PatternReaderProofs`: `TypeCorrect` (`Spec => []TypeOK`), `CreditIsSafe`
  (`Spec => []RoomForPostedRead`), `FifoIsSafe` (`Spec => []FifoNeverOverflows`).
  *Argument.* `FifoNeverOverflows` alone is not inductive: a burst accepted now
  was judged to fit one or more cycles ago. The strengthening says that while
  `read` is up a whole burst of room is left, i.e. the room was there when it
  was raised, and only this read can use it up, because `read` is taken back or
  the room is looked at again in the very cycle it is accepted.
* `RequestsHeld` (`Spec => HoldWhileWaiting`), when no command is empty
  (`NonEmpty`). `BurstsNotEmpty`: a read that is up asks for at least one word,
  so that the burst under a raised `read` is not recomputed.
* `RequestsAsPromised`: every step of the read master is a step of `BurstMaster`,
  when moreover all planned tests are `Compatible` (`mixed_blocks` shows it false
  otherwise). `OnPlan` is what relates the registers, which are one burst ahead,
  to the command: the commands left are a suffix of the plan (`CommandsInLine`),
  the registers are those of the job (`CommandLatched`), address and length are
  ahead by the burst on the bus (`BurstAhead`), everything posted is the first
  burst and whole bursts (`WholeBurstsBehind`), and the burst ends within its
  boundary and its command (`WithinBoundary`).
* `PatternWriterProofs`: `TypeCorrect`, `DataIsBuffered`
  (`Spec => []DataBuffered`).
  *Argument.* The invariant `BeatsBacked` adds to `DataBuffered` how
  `burst_counter` and `write` go together (a burst under way has its `write`
  up; an idle master has an exhausted counter), so that a burst begins only
  from one of two situations, in each of which the FIFO level was compared with
  the whole burst.
* `WordsAllWritten` (`Spec => []EveryWordWritten`), `BurstsAreHeld`
  (`Spec => BurstHeld`) and `WritesAsPromised` (every step is one of
  `BurstMaster`), when bursts have more than one word and every planned command
  ends in a full burst (`WholeBursts`). Outside that, `starved_writer` shows a
  command that is never finished. The length counter is one word ahead of the
  bus, that is `job.length - written - 1`, and the counts of first, full and last
  burst add up to the command; the last word of a burst and the last word of the
  command then fall together.
  Both modules open with the lemmas on `BurstCounts`: remainders of sums and
  multiples, for any burst length; the first and the last burst as remainders of
  address and length; the counts lie between 0 and `MAX_BURST_COUNT`
  (`CountsFit`), and the reader's picked count takes a burst that is there
  (`CountPicked`).
* `RamTestControllerProofs`: `TypeCorrect`, `PlanFollowed`
  (`CommandsFollowPlan`), `FifosSafe` (`CommandFifosSafe`), `TurnsSafe`
  (`TurnTakingIsSafe`), `CommandsStay` (`CommandsHeld`), and `ControllerTrails`:
  every step of the controller is a step of `TrailingTest`. From
  `ControllerAssumption` and `DriverAssumption`, which says that control writes
  are those the HAL driver can make (no empty block, a trail of 1 to 255).
  Lengths, blocks, trails and FIFO sizes are arbitrary.
  *Argument.* `ControllerInvariant`. `SetupHeld`: during a test the registers are
  those of the set-up. `ChoppersOnPlan`: in each phase a chopper's
  counters and address belong to the block it has come to, and the command it
  pushes is the one `BlockPlan` has for it; what its FIFO holds is the plan between
  the blocks handed out and the blocks pushed. `ProgressKept`: the distance is the
  difference of the commands handed out, and a "last complete" bit says that all
  were. `DecisionsStand`: the
  ring's choice was made one to three cycles ago; what made it right (room in the
  trail, a command in the FIFO, an idle master) cannot have gone since.
* `PrbsTestProofs`: `TypesHold`, `CoresInStep` and `VerdictHolds`
  (`Spec => []` of `TypeOK`, `InStep`, `VerdictIsTrue`), for words of any width,
  any polynomial and seed, any payloads, path and time-out.
  *Argument.* `NeverZero`: the next word of a word that is not 0 is not 0,
  because the highest bit always takes the feedback. `Chain` says that the words
  under way follow each other from the checker's next word to the generator's;
  it breaks only between the two seed writes, when nothing moves (`Quiet`,
  `Seeds`). `Counted` adds up what the checker still expects, so neither counter
  passes 0 and a checker at 0 has nothing under way (`Stopped`). `Alarm` follows
  a wrong word through the comparison registers into the failure flag. A checker
  the software asks for its verdict is then `Quiet`, its comparisons done
  (`JudgedIsQuiet`).
* `CustomPatternTestProofs`: `TypesHold`, `StoppedWhileWritten`, `CoresInStep`,
  `AlarmsAreTrue` and `VerdictHolds` (`Spec => []` of `TypeOK`,
  `WrittenWhileStopped`, `InStep`, `NoFalseAlarm`, `VerdictIsTrue`), for any
  patterns, words, path and time-out. The first two need no condition. The
  others need payloads of whole patterns when payloads are finite
  (`WholePatterns`): the software never sets the checker's position, and
  `lost_position` shows what happens otherwise. The verdict needs `GAP >= 3`
  besides: that many cycles between the poll that sees the checker stopped and
  the read of its failure flag.
  *Argument.* Four invariants, each inductive with those before it. Types, with
  the room that `MayAsk` leaves. `CountInv`: what the checker still expects is
  what is under way and what is still to be sent, so neither counter passes 0,
  and a checker judged without a failure has left nothing under way
  (`JudgedIsIdle`); hence everything stands still while the software sets up a
  test (`Prepared`). `LineInv`: the words on the path and in the generator's
  pipeline are the words of the pattern from the checker's position on (`Line`),
  and what the checker still expects ends at the first word (`Whole`), which
  makes up for the position that is never set. `VerdictInv`: a wrong word is in
  the failure flag or in the comparison pipeline (`Alarm`), and that pipeline is
  empty when the flag is read (`Drained`).
* `MemoryTestProofs` reads `TestSweep` and `StreamSwitch` side by side: the sweep of
  `main()` and the switches that it sets between its tests.
  For the sweep: `SweepTypeCorrect` (`Spec => []TypeOK`), `OnlyTheTestSetUp`
  (`Spec => []SweepInv`), `NeverWaits` (`Spec => []NeverWaitsInVain`) and
  `SweepKeepsPromise` (`Spec => ImplementsSweep`, the whole refinement), for any set
  of minor tests, any time-out and any width of `unsigned long`. The types need no
  condition. The others assume `SettingsFit`: twice each maximum fits the
  counter, the largest block and length are below 2^31, the largest block fits
  the 24 bits that the driver writes (`BLOCK_MODULUS`), and trails are at most
  255, the range that `settings.h:24-25` gives them. `settings.h` ships a block of at
  most 1 MB and a length of at most the memory. `NeverWaits` needs lengths and
  blocks above 32 besides, since `start_test` leaves without the start bit when the
  driver refuses a value; below that the test times out, and the promise holds all
  the same. The promise needs `NUM_OF_TESTS` not 0, for the `do ... while` of
  `main()` makes one round in any case; -1 is covered, as a sweep whose rounds
  never end.
  *Argument.* Doubling goes through the powers of two times the minimum, one after
  the other, and leaves the range without wrapping (`NextDouble`), so each loop's
  counter is one of its values or has passed them all (`Swept`). Until a failure,
  which ends the sweep (`StopsAtFailure`), no core runs but those of the present
  test, with the present settings, and what is carried out is the present
  combination (`Setup`), as read off the controller's registers, into which the
  block is truncated: nothing runs between two tests (`Idle`), so no switch is
  refused, and a verdict before the time-out has seen the end of the test
  (`CarriedOut`). `EachPassed` counts: every combination the loops have gone past
  (`Past`, the nested loops' lexicographic order) has passed once more than those
  to come; a verdict of 0 moves exactly the present one (`PastVerdict`), no other
  step of a loop moves any (`PastKept`).
  For the switches: `CheckerSeesItsWords` (`SwitchSpec => []RightChecker`), for
  tests of any length and any path.
  *Argument.* All words of a test are in line, from the one at the checker
  through the path to the one behind the multiplexer, numbered without a gap, so
  that a test whose checker has all its words has left nothing behind
  (`QuietBetweenTests`). The driver, which looks at output A only, would not notice
  words at output B, but there are none, and it cannot refuse the switch
  (`OutputSet`).
* `JtagUartProofs`: `WakeupsKept` (`Spec => []NoLostWakeup`), `TypeCorrect`,
  `ChannelsKept` (`Spec => BytesInOrder`, both directions refine `ByteChannel`)
  and `GivesUpStuck` (`Spec => GivesUpOnlyWhenStuck`), for buffers, FIFOs and
  interrupt thresholds of any size.
  *Argument.* A part of the handler runs only with its interrupt enabled
  (`ServesEnabled`); the device interrupts for a read only with data in its FIFO,
  so that a receive loop that finds nothing has put bytes into the buffer first,
  and one that finds no room found them there (`InterruptsWithData`): only then
  can the handler turn the receive interrupt off. And a copy moves at least one
  byte (`CopiesSomething`), so that a call that made room or added bytes does reach the step that enables.
  `DriverInv`: what `read` copies is held, and what `write` copies fits, though
  the handler moves the other index meanwhile (`ReadWindow`, `WriteWindow`); the
  handler's `space` is still there when it uses it (`RoomForSpace`); and a call
  that waits saw the buffer empty, or full, in the indices it looked at (`Stuck`).
  For the channels, the contents of a circular buffer (`Contents`) followed or
  preceded by those of the FIFO are the bytes in their order.
* `AlarmListProofs`: `LinksConsistent` (`Spec => []TypeOK`), for any number of
  alarms and any wrap of the counter, with callbacks that stop any alarm.
  *Argument.* Insertion behind the head and removal keep `previous[next[e]] = e`.
  `WalkKept` (`Spec => []WalkInv`) and `AlarmsOnTime` (`Spec => ImplementsAlarms`,
  the whole refinement) assume `StopAny = FALSE`: callbacks leave alone the alarm
  that `alt_tick` goes to next. Without that the property is false (section 5).
  *Argument.* Links that undo each other leave room for circles beside the list,
  so `WalkInv` adds a rank that grows along `next` from the head back to the head
  (`Ordered`): the alarms ahead of `alt_tick` are those of its rank or above
  (`ToVisit`), and a start or stop elsewhere moves none of them behind it. An
  alarm whose time is the present tick is ahead or in its call, so none is left
  over when the next tick comes; and `rollover` holds exactly for the times below
  the counter, until `alt_tick` comes by in tick 0 (`Timed`), so that the
  unsigned comparison of `Visit` calls an alarm exactly when its time is the tick
  (`VisitDue`).

Every safety property that a passing run checks is the subject of a theorem.
Only model-checked: liveness (under fairness it is outside what the prover
handles), which is `TestCompletes`, `PayloadCompletes`, `CallsReturn`,
`AcceptedIsSent`, `SweepEnds`, `TickEnds`, `WordsArrive`, and the fairness in
`ImplementsBurstMaster` and `ImplementsTrailingTest`, of which the theorems show
the initial states and the steps.
No module that proofs use has a RECURSIVE operator.

## 5. Where code and documents disagree

1. `mixed_blocks` — the reader recognises the last burst with the count of the
   command on its *port* (`mtm_pattern_reader.v:416`), reads past the end of its
   block when the next block ends differently.
2. `starved_writer` — when its FIFO runs dry before a short last burst the
   writer waits for a full burst for ever (`mtm_pattern_writer.v:436`).
3. `lost_position` — `main.c` resets the generator's position twice and the
   checker's never (`main.c:92` and the five others): a payload that is not a
   whole number of patterns makes the next pattern fail on a good memory. The
   shipped lengths are multiples of every pattern's length.

Three more, each with a run that passes for what the code does:

4. `controller` — the header of the controller (`mtm_ram_test_controller.v:48-50`)
   says of the trail: "A block trail of 0 means that the block is written out and
   read back immediately.  A block train of 1 means that two blocks will be
   written followed by reading the first block." The code lets the write master go
   while `block_trail_distance < block_trail` (`:709`): a trail of *n* writes *n*
   blocks before the first read, one fewer than the header says, and a trail of 0
   none at all (the driver turns 0 into 1, `ram_test_controller.c:40-44`).
   `settings.h:24` ("the write master will always be this many blocks ahead") is
   what the code does and what `TrailingTest` promises.
5. `jtag_uart` — the handler tests `RAVAIL` (`altera_avalon_jtag_uart_init.c:156`)
   also after it left the loop because the word was not valid (`:146-147`). The
   core latches `rvalid` a clock before it delivers the level of its FIFO
   (`interrupt_example_JTAG_UART.v:505-515`); a byte that arrives between the two
   shows in `RAVAIL`, and the receive interrupt goes off with room in the buffer,
   where the comment (`:158`) says "the buffer is full". `NoLostWakeup` states what
   is left of that: the buffer holds bytes, and the read that takes them enables
   the interrupt.
6. `stream_switch` — `demux_output_select` masks the status with `0x00000100`
   (`one_to_two_st_demux.c:7`, `one_to_two_st_demux_regs.h:24`), the pending bit of
   output A. Bit 9, "the B output containing pending data"
   (`mtm_one_to_two_st_demux.v:35`), is never looked at. It does no harm in
   `main.c`, for the reason given below.

Observations made while modelling, without a run of their own:

* The trail counts commands handed out, not blocks in memory, so with concurrent
  accesses a block may be read while it is being written
  (`mtm_ram_test_controller.v:702,722`, against `settings.h:24`). The software
  ships with concurrent accesses off, and `TurnTakingIsSafe` covers that mode.
* A byte may lie in the JTAG UART with no interrupt: the read interrupt needs a
  pause of the host or an almost full FIFO, and any read of data takes the pause
  away (`interrupt_example_JTAG_UART.v:432-444,480`). When the buffer fills in the
  middle of a drain, what is left in the FIFO waits for the host's next pause or
  for seven eighths of a FIFO. A blocking read then returns when its time-out is
  over, if it has one; `CallsReturn` says no more than that.
* The driver writes 24 bits of the block size and drops the rest
  (`ram_test_controller.c:32-33`), so a block of 2^24 bytes would be carried out as
  one of none, which never ends. `settings.h:23` forbids more than 1 MB; `SettingsFit`
  has the limit of the register.
* `pending_data` of both switches leaves out a word that is stalled at an output
  (`mtm_two_to_one_st_mux.v:166`, `mtm_one_to_two_st_demux.v:208-209`), although
  the headers offer it for deciding when to switch. That, and 6, do no harm here:
  `main.c` switches only after a checker has seen all its words.
* The driver refuses a length or a block of exactly 32 bytes
  (`ram_test_controller.c:15`), which `main.c:250` calls allowed.
* The sweep's counters double until they pass a maximum (`main.c:418-422`); with
  a maximum of 2^31 or more they would wrap to 0 and never end. `SettingsFit`, the
  hypothesis of the sweep's theorems, is what keeps them from it.
* A callback that stops the alarm `alt_tick` goes to next makes the walk endless
  (`alt_tick.c:102,140`: the removed alarm points at itself). `StopAny = FALSE`
  leaves such callbacks out of the `alarms` run; with `TRUE`, `TickEnds` fails.
* `host_inactive` and `timeout` are read in waiting loops but not volatile
  (`altera_avalon_jtag_uart.h:96-99`, `_read.c:173`, `_write.c:183`). The model
  reads memory in each round.
* The settings of the shipped package choose the small driver
  (`public.mk:190,210`); the interrupt-driven one, modelled here, is what every
  other configuration of the package gets.

## 6. Not modelled

Left out for good: vendor bus functional models, generated RTL (but for the
interrupts and FIFO levels of the JTAG UART core), third-party
I2C and SPI cores, Qsys wiring, byte reversal of the data lanes (its own
inverse, applied on the way out and on the way in), reset in mid-operation.

Left out of modelled parts: the small JTAG UART driver (it polls and keeps no
state), the uC/OS-II flags and semaphores around the driver (empty macros in this
package), the clears and read-back functions of the cores that no program calls,
the texts `main.c` prints, and reading a word of a control port (a register that
nothing in the design reads).

## 7. What comes next

In this order:

1. `TestTimer`: the divider and counter of the controller.
2. `MemoryTester`: generator, switches, writer, memory, reader and checker
   composed under the controller, refining "the software's verdict is the
   memory's".
3. `FileTable`: file descriptors of the HAL and their locks
   (`alt_fd_lock.c:61` and `alt_open.c:79` compare a descriptor differently).
4. Interrupt dispatch (`alt_irq_handler.c`), `Fifo` (`common_tools`), the Avalon
   master and slave examples.
