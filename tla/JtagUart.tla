------------------------------- MODULE JtagUart -------------------------------
(***************************************************************************)
(* The interrupt driven ("fast") JTAG UART driver of the BSP.  One thread  *)
(* of the program reads, writes and closes through two circular buffers    *)
(* that the interrupt handler empties and fills at the other end.  There   *)
(* is no lock between them: each index is moved by one side only, and only *)
(* the interrupt enable register is written with interrupts disabled.  A   *)
(* call that has to wait spins until the handler moves its index, or until *)
(* the alarm routine has found no activity of the host often enough.       *)
(*                                                                         *)
(* The handler runs to its end before the program goes on, but the host    *)
(* works the other side of the device at any moment.  A byte is its number *)
(* in the stream of its direction.  The program is built without an        *)
(* operating system, so that the driver's semaphores and flags are empty,  *)
(* and the spin loops read host_inactive afresh on each turn.              *)
(***************************************************************************)
EXTENDS Integers, Sequences

CONSTANTS
  BUF_LEN,          \* length of each circular buffer
  RX_DEPTH,         \* depth of the device's receive FIFO
  TX_DEPTH,         \* depth of the device's transmit FIFO
  READ_IRQ_THRESHOLD,   \* room left in the receive FIFO when it is almost full
  WRITE_IRQ_THRESHOLD,  \* bytes left in the transmit FIFO when it is almost empty
  DEFAULT_TIMEOUT,  \* alarms without activity until the host counts as gone
  INT_MAX,          \* largest int, reached by host_inactive less two
  Timeouts,         \* arguments of TIOCSTIMEOUT
  Sizes,            \* lengths asked of read and write
  MaxBytes          \* bound on the bytes of both directions together

ASSUME JtagUartAssumption ==
  /\ BUF_LEN \in Nat \ {0, 1}
  /\ RX_DEPTH \in Nat \ {0} /\ TX_DEPTH \in Nat \ {0}
  /\ READ_IRQ_THRESHOLD \in 0..(RX_DEPTH - 1)
  /\ WRITE_IRQ_THRESHOLD \in 0..(TX_DEPTH - 1)
  /\ INT_MAX \in Nat /\ INT_MAX > 2
  /\ DEFAULT_TIMEOUT \in 1..(INT_MAX - 1)
  /\ Timeouts \subseteq Int /\ Sizes \subseteq Nat
  /\ MaxBytes \in Nat

VARIABLES
  \* altera_avalon_jtag_uart_state
  rx_in, rx_out, rx_buf, tx_in, tx_out, tx_buf, irq_enable, host_inactive,
  timeout,
  \* the device: FIFOs, enabled interrupts, activity bit, receive pause
  rx_fifo, tx_fifo, control, ac, pause_irq,
  \* the handler: where it is, pending bits it read, room, RAVAIL of last read
  isr, pending, space, ravail,
  \* the program: where it is, O_NONBLOCK, bytes done and left, snapshots
  pc, nonblock, ptr, left, in, out, n, chunk,
  \* the alarm is registered; the host is there
  alarm, connected,
  \* bytes that the host sent and took, that the program accepted and got
  sent, taken, accepted, got

rxRing == <<rx_in, rx_out, rx_buf>>
txRing == <<tx_in, tx_out, tx_buf>>
handler == <<isr, pending, space, ravail>>
program == <<pc, nonblock, ptr, left, in, out, n, chunk>>
streams == <<sent, taken, accepted, got>>
vars == <<rxRing, txRing, irq_enable, host_inactive, timeout, rx_fifo, tx_fifo,
          control, ac, pause_irq, handler, program, alarm, connected, streams>>

-----------------------------------------------------------------------------
Slots == 0..(BUF_LEN - 1)

(* Mutant: an index that is not brought back to 0. *)
PlusNoWrap(index, k) == index + k

(* (index + k) % BUF_LEN, for k up to BUF_LEN *)
Plus(index, k) == IF index + k >= BUF_LEN THEN index + k - BUF_LEN ELSE index + k

Least(a, b) == IF a < b THEN a ELSE b

(* The bytes of a circular buffer between its out and its in index. *)
Held(o, i) == IF i >= o THEN i - o ELSE i - o + BUF_LEN
Contents(buf, o, i) == [k \in 1..Held(o, i) |-> buf[Plus(o, k - 1)]]

(* Mutant: the slot that stays free is forgotten when out is 0. *)
WriteChunkTooMuch(i, o) == IF i < o THEN o - 1 - i ELSE BUF_LEN - i

(* Bytes that can be copied out of, or into, the buffer in one piece. *)
ReadChunk(i, o) == IF i >= o THEN i - o ELSE BUF_LEN - o
WriteChunk(i, o) ==
  IF i < o THEN o - 1 - i ELSE IF o > 0 THEN BUF_LEN - i ELSE BUF_LEN - 1 - i

(***************************************************************************)
(* The interrupts of the device.  That there is data to read is not        *)
(* enough: the host has to pause after it, or to fill the FIFO almost, and *)
(* the driver's next read of data takes the pause away.                    *)
(***************************************************************************)
RI == "RE" \in control /\ (pause_irq \/ RX_DEPTH - Len(rx_fifo) <= READ_IRQ_THRESHOLD)
WI == "WE" \in control /\ Len(tx_fifo) <= WRITE_IRQ_THRESHOLD

-----------------------------------------------------------------------------
(* altera_avalon_jtag_uart_init, the alarm registered or refused. *)
Init ==
  /\ rx_in = 0 /\ rx_out = 0 /\ rx_buf = [s \in Slots |-> 0]
  /\ tx_in = 0 /\ tx_out = 0 /\ tx_buf = [s \in Slots |-> 0]
  /\ irq_enable = {"RE"} /\ control = {"RE"}
  /\ alarm \in BOOLEAN
  /\ host_inactive = 0 /\ timeout = IF alarm THEN DEFAULT_TIMEOUT ELSE INT_MAX
  /\ rx_fifo = <<>> /\ tx_fifo = <<>> /\ ac = FALSE /\ pause_irq = FALSE
  /\ isr = "idle" /\ pending = {} /\ space = 0 /\ ravail = FALSE
  /\ pc = "idle" /\ nonblock = FALSE /\ ptr = 0 /\ left = 0
  /\ in = 0 /\ out = 0 /\ n = 0 /\ chunk = <<>>
  /\ connected = TRUE
  /\ sent = 0 /\ taken = <<>> /\ accepted = 0 /\ got = <<>>

-----------------------------------------------------------------------------
(* Bytes that the write under way may still accept. *)
Claimed ==
  IF pc \in {"write_snap", "write_copy", "write_publish", "write_enable", "write_spin"}
  THEN left + n ELSE 0

(* A byte of the host reaches the receive FIFO. *)
Arrives ==
  /\ connected /\ sent + accepted + Claimed < MaxBytes /\ Len(rx_fifo) < RX_DEPTH
  /\ sent' = sent + 1 /\ rx_fifo' = Append(rx_fifo, sent + 1)
  /\ ac' = TRUE

-----------------------------------------------------------------------------
(* The interrupt handler.  It starts when the device interrupts and no     *)
(* other handler runs; the first thing it does is to read the control      *)
(* register, and it comes back to that until nothing is pending.           *)
BackToControl == isr' = "control" /\ pending' = {} /\ space' = 0

Interrupt ==
  /\ isr = "idle" /\ (RI \/ WI)
  /\ isr' = "control"
  /\ UNCHANGED <<rxRing, txRing, irq_enable, host_inactive, timeout, rx_fifo,
                 tx_fifo, control, ac, pause_irq, pending, space, ravail,
                 program, alarm, connected, streams>>

ReadControl ==
  /\ isr = "control"
  /\ pending' = {i \in {"RI", "WI"} : IF i = "RI" THEN RI ELSE WI}
  /\ space' = IF WI THEN TX_DEPTH - Len(tx_fifo) ELSE 0
  /\ ravail' = RI   \* "assuming that there is data in the receive FIFO"
  /\ isr' = IF RI THEN "receive" ELSE IF WI THEN "transmit" ELSE "idle"
  /\ UNCHANGED <<rxRing, txRing, irq_enable, host_inactive, timeout, rx_fifo,
                 tx_fifo, control, ac, pause_irq, program, alarm, connected,
                 streams>>

(* The receive loop is over, RAVAIL of the word last read being avail:     *)
(* with data left, the receive interrupt goes off.                         *)
AfterReceive(avail) ==
  /\ irq_enable' = IF avail THEN irq_enable \ {"RE"} ELSE irq_enable
  /\ control' = IF avail THEN irq_enable' ELSE control
  /\ ravail' = FALSE
  /\ IF "WI" \in pending THEN isr' = "transmit" /\ UNCHANGED <<pending, space>>
     ELSE BackToControl

(* One turn of the receive loop: there is room, and the word read is valid. *)
Receive ==
  /\ isr = "receive"
  /\ Plus(rx_in, 1) # rx_out /\ rx_fifo # <<>>
  /\ rx_fifo' = Tail(rx_fifo) /\ pause_irq' = FALSE
  /\ ravail' = (Tail(rx_fifo) # <<>>)
  /\ rx_buf' = [rx_buf EXCEPT ![rx_in] = Head(rx_fifo)]
  /\ rx_in' = Plus(rx_in, 1)
  /\ UNCHANGED <<rx_out, txRing, irq_enable, host_inactive, timeout, tx_fifo,
                 control, ac, isr, pending, space, program, alarm, connected,
                 streams>>

(* There is room, but the word read is not valid.  The device latches      *)
(* RVALID one clock before it delivers the level of the FIFO: a byte that  *)
(* arrives in between shows in RAVAIL of the same word.                    *)
ReceiveNothing ==
  /\ isr = "receive"
  /\ Plus(rx_in, 1) # rx_out /\ rx_fifo = <<>>
  /\ pause_irq' = FALSE
  /\ \/ AfterReceive(FALSE) /\ UNCHANGED <<rx_fifo, ac, sent>>
     \/ AfterReceive(TRUE) /\ Arrives
  /\ UNCHANGED <<rxRing, txRing, host_inactive, timeout, tx_fifo, program, alarm,
                 connected, taken, accepted, got>>

(* There is no room. *)
ReceiveFull ==
  /\ isr = "receive"
  /\ Plus(rx_in, 1) = rx_out
  /\ AfterReceive(ravail)
  /\ UNCHANGED <<rxRing, txRing, host_inactive, timeout, rx_fifo, tx_fifo, ac,
                 pause_irq, program, alarm, connected, streams>>

(* One turn of the transmit loop. *)
Transmit ==
  /\ isr = "transmit"
  /\ space > 0 /\ tx_out # tx_in
  /\ tx_fifo' = Append(tx_fifo, tx_buf[tx_out])
  /\ tx_out' = Plus(tx_out, 1)
  /\ space' = space - 1
  /\ UNCHANGED <<rxRing, tx_in, tx_buf, irq_enable, host_inactive, timeout,
                 rx_fifo, control, ac, pause_irq, isr, pending, ravail, program,
                 alarm, connected, streams>>

(* Mutant: the transmit interrupt goes off whenever the handler is done. *)
TransmitEndAlways ==
  /\ isr = "transmit"
  /\ space = 0 \/ tx_out = tx_in
  /\ irq_enable' = irq_enable \ {"WE"} /\ control' = irq_enable'
  /\ BackToControl
  /\ UNCHANGED <<rxRing, txRing, host_inactive, timeout, rx_fifo, tx_fifo, ac,
                 pause_irq, ravail, program, alarm, connected, streams>>

(* The loop is over; with room left, the transmit interrupt goes off. *)
TransmitEnd ==
  /\ isr = "transmit"
  /\ space = 0 \/ tx_out = tx_in
  /\ irq_enable' = IF space > 0 THEN irq_enable \ {"WE"} ELSE irq_enable
  /\ control' = IF space > 0 THEN irq_enable' ELSE control
  /\ BackToControl
  /\ UNCHANGED <<rxRing, txRing, host_inactive, timeout, rx_fifo, tx_fifo, ac,
                 pause_irq, ravail, program, alarm, connected, streams>>

Handler == Interrupt \/ ReadControl \/ Receive \/ ReceiveNothing \/ ReceiveFull
           \/ Transmit \/ TransmitEnd

(* altera_avalon_jtag_uart_timeout, called from the timer's interrupt. *)
Timeout ==
  /\ alarm /\ isr = "idle"
  /\ \/ /\ ac
        /\ ac' = FALSE /\ control' = irq_enable
        /\ host_inactive' = 0
     \/ /\ ~ac /\ host_inactive < INT_MAX - 2
        /\ host_inactive' = host_inactive + 1
        /\ UNCHANGED <<ac, control>>
  /\ UNCHANGED <<rxRing, txRing, irq_enable, timeout, rx_fifo, tx_fifo,
                 pause_irq, handler, program, alarm, connected, streams>>

-----------------------------------------------------------------------------
(* The program runs while no handler does. *)
Idle ==
  /\ pc' = "idle" /\ nonblock' = FALSE /\ ptr' = 0 /\ left' = 0
  /\ in' = 0 /\ out' = 0 /\ n' = 0 /\ chunk' = <<>>

ProgramOnly ==
  UNCHANGED <<host_inactive, timeout, rx_fifo, tx_fifo, ac, pause_irq,
              handler, alarm, connected, sent, taken>>

(* alt_irq_disable_all ... IOWR control ... alt_irq_enable_all *)
Enable(i) == irq_enable' = irq_enable \cup {i} /\ control' = irq_enable'

Call(first, size, flag) ==
  /\ pc = "idle" /\ isr = "idle"
  /\ pc' = first /\ left' = size /\ nonblock' = flag
  /\ UNCHANGED <<ptr, in, out, n, chunk, rxRing, txRing, irq_enable, control,
                 accepted, got>>
  /\ ProgramOnly

(* Bound: together the host and the program send at most MaxBytes.  *)
ReadCall(size, flag) == Call(IF size > 0 THEN "read_snap" ELSE "read_end", size, flag)
WriteCall(size, flag) ==
  /\ sent + accepted + size <= MaxBytes
  /\ Call(IF size > 0 THEN "write_snap" ELSE "write_enable", size, flag)
CloseCall(flag) == Call("close", 0, flag)

(* One turn of the copy loop of read: the indices are read, ... *)
ReadSnap ==
  /\ pc = "read_snap" /\ isr = "idle"
  /\ in' = rx_in /\ out' = rx_out
  /\ n' = Least(ReadChunk(rx_in, rx_out), left)
  /\ pc' = IF n' > 0 THEN "read_copy"
           ELSE IF ptr > 0 \/ nonblock THEN "read_end" ELSE "read_spin"
  /\ UNCHANGED <<nonblock, ptr, left, chunk, rxRing, txRing, irq_enable, control,
                 accepted, got>>
  /\ ProgramOnly

(* ... the bytes are copied, ... *)
ReadCopy ==
  /\ pc = "read_copy" /\ isr = "idle"
  /\ chunk' = [k \in 1..n |-> rx_buf[out + k - 1]]
  /\ ptr' = ptr + n /\ left' = left - n
  /\ pc' = "read_publish"
  /\ UNCHANGED <<nonblock, in, out, n, rxRing, txRing, irq_enable, control,
                 accepted, got>>
  /\ ProgramOnly

(* ... and only then the handler is given the room. *)
ReadPublish ==
  /\ pc = "read_publish" /\ isr = "idle"
  /\ rx_out' = Plus(out, n)
  /\ got' = got \o chunk /\ chunk' = <<>> /\ n' = 0
  /\ pc' = IF left > 0 THEN "read_snap" ELSE "read_end"
  /\ UNCHANGED <<nonblock, ptr, left, in, out, rx_in, rx_buf, txRing,
                 irq_enable, control, accepted>>
  /\ ProgramOnly

(* Spin until more data arrives or the host counts as gone. *)
ReadSpin ==
  /\ pc = "read_spin" /\ isr = "idle"
  /\ in # rx_in \/ host_inactive >= timeout
  /\ pc' = IF in = rx_in THEN "read_end" ELSE "read_snap"
  /\ UNCHANGED <<nonblock, ptr, left, in, out, n, chunk, rxRing, txRing,
                 irq_enable, control, accepted, got>>
  /\ ProgramOnly

(* Mutant: read leaves the receive interrupt as the handler left it. *)
ReadEndQuiet ==
  /\ pc = "read_end" /\ isr = "idle"
  /\ Idle
  /\ UNCHANGED <<irq_enable, control, rxRing, txRing, accepted, got>>
  /\ ProgramOnly

(* With data read, the receive interrupt is enabled; then read returns. *)
ReadEnd ==
  /\ pc = "read_end" /\ isr = "idle"
  /\ IF ptr > 0 THEN Enable("RE") ELSE UNCHANGED <<irq_enable, control>>
  /\ Idle
  /\ UNCHANGED <<rxRing, txRing, accepted, got>>
  /\ ProgramOnly

(* One turn of the copy loop of write. *)
WriteSnap ==
  /\ pc = "write_snap" /\ isr = "idle"
  /\ in' = tx_in /\ out' = tx_out
  /\ n' = Least(WriteChunk(tx_in, tx_out), left)
  /\ pc' = IF n' > 0 THEN "write_copy" ELSE "write_enable"
  /\ UNCHANGED <<nonblock, ptr, left, chunk, rxRing, txRing, irq_enable, control,
                 accepted, got>>
  /\ ProgramOnly

WriteCopy ==
  /\ pc = "write_copy" /\ isr = "idle"
  /\ tx_buf' = [s \in Slots |-> IF s \in in..(in + n - 1)
                                THEN accepted + 1 + s - in ELSE tx_buf[s]]
  /\ ptr' = ptr + n /\ left' = left - n
  /\ pc' = "write_publish"
  /\ UNCHANGED <<nonblock, in, out, n, chunk, rxRing, tx_in, tx_out, irq_enable,
                 control, accepted, got>>
  /\ ProgramOnly

WritePublish ==
  /\ pc = "write_publish" /\ isr = "idle"
  /\ tx_in' = Plus(in, n)
  /\ accepted' = accepted + n /\ n' = 0
  /\ pc' = IF left > 0 THEN "write_snap" ELSE "write_enable"
  /\ UNCHANGED <<nonblock, ptr, left, in, out, chunk, rxRing, tx_out, tx_buf,
                 irq_enable, control, got>>
  /\ ProgramOnly

(* Mutant: the handler is kicked only by a write that has to wait. *)
WriteEnableWhenWaiting ==
  /\ pc = "write_enable" /\ isr = "idle"
  /\ IF left > 0 /\ ~nonblock
     THEN /\ Enable("WE")
          /\ pc' = "write_spin" /\ UNCHANGED <<nonblock, ptr, left, in, out, n, chunk>>
     ELSE Idle /\ UNCHANGED <<irq_enable, control>>
  /\ UNCHANGED <<rxRing, txRing, accepted, got>>
  /\ ProgramOnly

(* The handler is kicked; the call is over, or has to wait for room. *)
WriteEnable ==
  /\ pc = "write_enable" /\ isr = "idle"
  /\ Enable("WE")
  /\ IF left > 0 /\ ~nonblock
     THEN pc' = "write_spin" /\ UNCHANGED <<nonblock, ptr, left, in, out, n, chunk>>
     ELSE Idle
  /\ UNCHANGED <<rxRing, txRing, accepted, got>>
  /\ ProgramOnly

(* Mutant: the time-out is looked at before the index. *)
WriteSpinImpatient ==
  /\ pc = "write_spin" /\ isr = "idle"
  /\ out # tx_out \/ host_inactive >= timeout
  /\ IF host_inactive >= timeout
     THEN Idle
     ELSE pc' = "write_snap" /\ UNCHANGED <<nonblock, ptr, left, in, out, n, chunk>>
  /\ UNCHANGED <<rxRing, txRing, irq_enable, control, accepted, got>>
  /\ ProgramOnly

WriteSpin ==
  /\ pc = "write_spin" /\ isr = "idle"
  /\ out # tx_out \/ host_inactive >= timeout
  /\ IF out = tx_out
     THEN Idle
     ELSE pc' = "write_snap" /\ UNCHANGED <<nonblock, ptr, left, in, out, n, chunk>>
  /\ UNCHANGED <<rxRing, txRing, irq_enable, control, accepted, got>>
  /\ ProgramOnly

(* Drain the transmit buffer. *)
Close ==
  /\ pc = "close" /\ isr = "idle"
  /\ tx_out = tx_in \/ host_inactive >= timeout \/ nonblock
  /\ Idle
  /\ UNCHANGED <<rxRing, txRing, irq_enable, control, accepted, got>>
  /\ ProgramOnly

(* ioctl(TIOCSTIMEOUT): INT_MAX stands for "don't know if host present". *)
SetTimeout(arg) ==
  /\ pc = "idle" /\ isr = "idle" /\ timeout # INT_MAX
  /\ timeout' = IF arg >= 2 /\ arg < INT_MAX THEN arg ELSE INT_MAX - 1
  /\ UNCHANGED <<rxRing, txRing, irq_enable, host_inactive, rx_fifo, tx_fifo,
                 control, ac, pause_irq, handler, program, alarm, connected,
                 streams>>

Step ==
  \/ ReadSnap \/ ReadCopy \/ ReadPublish \/ ReadSpin \/ ReadEnd
  \/ WriteSnap \/ WriteCopy \/ WritePublish \/ WriteEnable \/ WriteSpin
  \/ Close

Request ==
  \/ \E size \in Sizes, flag \in BOOLEAN : ReadCall(size, flag) \/ WriteCall(size, flag)
  \/ \E flag \in BOOLEAN : CloseCall(flag)
  \/ \E arg \in Timeouts : SetTimeout(arg)

-----------------------------------------------------------------------------
(* The host.  The bytes it sends, and its pauses between them, set the     *)
(* activity bit; a pause with data in the FIFO is remembered.              *)
DeviceOnly ==
  UNCHANGED <<rxRing, txRing, irq_enable, host_inactive, timeout, control,
              handler, program, alarm, accepted, got>>

HostSend ==
  /\ Arrives
  /\ UNCHANGED <<tx_fifo, pause_irq, connected, taken>>
  /\ DeviceOnly

HostTake ==
  /\ connected /\ tx_fifo # <<>>
  /\ taken' = Append(taken, Head(tx_fifo)) /\ tx_fifo' = Tail(tx_fifo)
  /\ UNCHANGED <<rx_fifo, ac, pause_irq, connected, sent>>
  /\ DeviceOnly

HostPause ==
  /\ connected
  /\ ac' = TRUE
  /\ pause_irq' = (pause_irq \/ rx_fifo # <<>>)
  /\ UNCHANGED <<rx_fifo, tx_fifo, connected, sent, taken>>
  /\ DeviceOnly

HostPlug ==
  /\ connected' = ~connected
  /\ UNCHANGED <<rx_fifo, tx_fifo, ac, pause_irq, sent, taken>>
  /\ DeviceOnly

Next ==
  \/ Handler \/ Timeout
  \/ Step \/ Request
  \/ HostSend \/ HostTake \/ HostPause \/ HostPlug

Spec == Init /\ [][Next]_vars

(***************************************************************************)
(* A pending interrupt is served, the program goes on when it can, the     *)
(* timer ticks, and a host that is there, or keeps coming back, takes what *)
(* it is sent.  Nothing makes the host send, come or go, or the program    *)
(* call.                                                                   *)
(***************************************************************************)
Fairness ==
  /\ WF_vars(Handler) /\ WF_vars(Step) /\ WF_vars(Timeout) /\ SF_vars(HostTake)

FairSpec == Spec /\ Fairness

-----------------------------------------------------------------------------
TypeOK ==
  /\ {rx_in, rx_out, tx_in, tx_out, in, out} \subseteq Slots
  /\ rx_buf \in [Slots -> 0..MaxBytes] /\ tx_buf \in [Slots -> 0..MaxBytes]
  /\ {irq_enable, control} \subseteq SUBSET {"RE", "WE"}
  /\ host_inactive \in 0..(INT_MAX - 2) /\ timeout \in 1..INT_MAX
  /\ rx_fifo \in Seq(1..MaxBytes) /\ Len(rx_fifo) <= RX_DEPTH
  /\ tx_fifo \in Seq(0..MaxBytes) /\ Len(tx_fifo) <= TX_DEPTH
  /\ isr \in {"idle", "control", "receive", "transmit"}
  /\ pending \subseteq {"RI", "WI"} /\ space \in 0..TX_DEPTH
  /\ {ac, pause_irq, ravail, nonblock, alarm, connected} \subseteq BOOLEAN
  /\ pc \in {"idle", "read_snap", "read_copy", "read_publish", "read_spin",
             "read_end", "write_snap", "write_copy", "write_publish",
             "write_enable", "write_spin", "close"}
  /\ {ptr, left} \subseteq Nat /\ n \in 0..BUF_LEN
  /\ chunk \in Seq(0..MaxBytes) /\ got \in Seq(0..MaxBytes) /\ taken \in Seq(0..MaxBytes)
  /\ sent \in 0..MaxBytes /\ accepted \in 0..MaxBytes

(***************************************************************************)
(* No wake-up is lost.  The receive interrupt is off only while the buffer *)
(* holds bytes for the next read, or a read that took some is on its way   *)
(* to enable it.  (init.c:158 says that the buffer is full then; it need   *)
(* not be, see ReceiveNothing.)  Bytes that wait to be transmitted find    *)
(* the transmit interrupt on, or a write on its way to enable it.          *)
(* (Handler and program both read, change and write irq_enable.)           *)
(***************************************************************************)
NoLostWakeup ==
  /\ control = irq_enable
  /\ "RE" \notin irq_enable =>
       \/ rx_in # rx_out
       \/ ptr > 0 /\ pc \in {"read_snap", "read_copy", "read_publish", "read_end"}
  /\ "WE" \notin irq_enable =>
       \/ tx_in = tx_out
       \/ ptr > 0 /\ pc \in {"write_snap", "write_copy", "write_publish",
                             "write_enable"}

(***************************************************************************)
(* Each direction is a channel that loses, repeats and reorders nothing,   *)
(* whatever the interleaving of handler, program and host: what is under   *)
(* way is what the FIFO and the circular buffer hold between them.         *)
(***************************************************************************)
Receiver == INSTANCE ByteChannel WITH
  Capacity <- BUF_LEN - 1 + RX_DEPTH, Limit <- BUF_LEN, produced <- sent,
  queue <- Contents(rx_buf, rx_out, rx_in) \o rx_fifo, consumed <- got

Transmitter == INSTANCE ByteChannel WITH
  Capacity <- BUF_LEN - 1 + TX_DEPTH, Limit <- BUF_LEN, produced <- accepted,
  queue <- tx_fifo \o Contents(tx_buf, tx_out, tx_in), consumed <- taken

BytesInOrder == Receiver!Spec /\ Transmitter!Spec

(***************************************************************************)
(* A blocking call gives up only when it is stuck.  A write that returns   *)
(* with bytes left leaves the buffer full and a read that returns without  *)
(* a byte leaves it empty, though the indices they compare were read long  *)
(* before and the handler has been at work since; and in both cases the    *)
(* host had been inactive for the time-out.                                *)
(***************************************************************************)
GivesUpOnlyWhenStuck ==
  [][/\ pc = "write_spin" /\ pc' = "idle" =>
          Plus(tx_in, 1) = tx_out /\ host_inactive >= timeout
     /\ pc = "read_spin" /\ pc' = "read_end" =>
          rx_in = rx_out /\ host_inactive >= timeout]_vars

(***************************************************************************)
(* A call does not hang, as long as the alarm runs and the time-out can be *)
(* reached: a write or a close returns, the host being there or not; and a *)
(* read returns when a byte has reached the device, whether the host falls *)
(* silent after it or goes on.  (Without a time-out a byte may lie in the  *)
(* FIFO for ever, if the host never pauses after it.)                      *)
(***************************************************************************)
CanTimeOut == alarm /\ timeout <= INT_MAX - 2
Writing == pc \in {"write_snap", "write_copy", "write_publish", "write_enable",
                   "write_spin", "close"}
Reading == pc \in {"read_snap", "read_copy", "read_publish", "read_spin", "read_end"}

CallsReturn ==
  /\ Writing /\ CanTimeOut ~> pc = "idle"
  /\ Reading /\ rx_fifo # <<>> /\ CanTimeOut ~> pc = "idle"

(***************************************************************************)
(* A byte that write has accepted reaches a host that stays, though no     *)
(* further call is made.                                                   *)
(***************************************************************************)
AcceptedIsSent == <>[]connected => []<>(Len(taken) = accepted)
=============================================================================
