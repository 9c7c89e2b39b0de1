---------------------------- MODULE JtagUartProofs ----------------------------
(***************************************************************************)
(* The JTAG UART driver, for buffers and FIFOs of every length and calls   *)
(* of every size: no wake-up is lost, every register keeps within its      *)
(* range, both directions are channels, and a call gives up only when it   *)
(* is stuck.                                                               *)
(***************************************************************************)
EXTENDS JtagUart, SequenceTheorems, TLAPS

(***************************************************************************)
(* First the wake-ups, which need little of the rest.                      *)
(***************************************************************************)
(* What the calculation of a chunk needs of the indices and counts. *)
IndexTypes ==
  /\ rx_in \in Int /\ rx_out \in Int /\ tx_in \in Int /\ tx_out \in Int
  /\ ptr \in Nat /\ left \in Int /\ in \in Int /\ out \in Int /\ n \in Int
  /\ rx_fifo \in Seq(Int) /\ sent \in Int

(* A part of the handler runs only with the interrupt it serves enabled. *)
ServesEnabled ==
  /\ isr = "receive" => "RE" \in irq_enable
  /\ isr = "transmit" \/ "WI" \in pending => "WE" \in irq_enable

(* The device interrupts only with data in its FIFO, so that the handler   *)
(* finds its loop over only when it has left bytes for the next read.      *)
InterruptsWithData ==
  /\ pause_irq => rx_fifo # <<>>
  /\ isr = "receive" => rx_fifo # <<>> \/ rx_in # rx_out

(* A chunk is copied only if it is not empty, and then bytes are done. *)
CopiesSomething ==
  /\ pc \in {"read_copy", "write_copy"} => n > 0
  /\ pc \in {"read_publish", "write_publish"} => ptr > 0

IInv ==
  /\ IndexTypes /\ ServesEnabled /\ InterruptsWithData /\ CopiesSomething
  /\ NoLostWakeup

-----------------------------------------------------------------------------
LEMMA PlusInt ==
  ASSUME NEW a \in Int, NEW b \in Int
  PROVE  Plus(a, b) \in Int
  BY JtagUartAssumption DEF Plus

LEMMA PlusFar ==
  ASSUME NEW a \in Slots, NEW k \in Nat, a + k < BUF_LEN
  PROVE  Plus(a, k) = a + k
  BY JtagUartAssumption DEF Plus, Slots

LEMMA PlusNothing ==
  ASSUME NEW a \in Slots
  PROVE  Plus(a, 0) = a
  BY JtagUartAssumption DEF Plus, Slots

LEMMA ChunkInt ==
  ASSUME NEW a \in Int, NEW b \in Int, NEW c \in Int
  PROVE  Least(ReadChunk(a, b), c) \in Int /\ Least(WriteChunk(a, b), c) \in Int
  BY JtagUartAssumption DEF Least, ReadChunk, WriteChunk

(* Initially the receive interrupt is on and nothing waits to be sent. *)
LEMMA InitInv == Init => IInv
  BY DEF Init, IInv, IndexTypes, ServesEnabled, InterruptsWithData,
             CopiesSomething, NoLostWakeup

(* The handler turns an interrupt off only when its side is at its limit. *)
LEMMA HandlerInv ==
  ASSUME IInv, Handler
  PROVE  IInv'
<1>. USE DEF IInv, IndexTypes, ServesEnabled, InterruptsWithData,
             CopiesSomething, NoLostWakeup,
             program
<1>1. CASE Interrupt
  BY <1>1 DEF Interrupt, rxRing, txRing, streams
<1>2. CASE ReadControl
  <2>1. RI => rx_fifo # <<>>
    <3>1. rx_fifo = <<>> => Len(rx_fifo) = 0
      BY EmptySeq
    <3>. QED
      BY <3>1, JtagUartAssumption DEF RI
  <2>. QED
    BY <1>2, <2>1 DEF ReadControl, rxRing, txRing, RI, WI, streams
<1>3. CASE Receive
  <2>1. Plus(rx_in, 1) \in Int
    BY PlusInt
  <2>2. Tail(rx_fifo) \in Seq(Int)
    BY <1>3, HeadTailProperties DEF Receive
  <2>. QED
    BY <1>3, <2>1, <2>2 DEF Receive, txRing, streams
<1>4. CASE ReceiveNothing
  <2>1. rx_in # rx_out
    BY <1>4 DEF ReceiveNothing
  <2>2. rx_fifo' \in Seq(Int) /\ sent' \in Int
    <3>1. CASE Arrives
      BY <3>1, AppendProperties DEF Arrives
    <3>2. CASE UNCHANGED <<rx_fifo, ac, sent>>
      BY <3>2
    <3>. QED
      BY <1>4, <3>1, <3>2 DEF ReceiveNothing
  <2>. QED
    BY <1>4, <2>1, <2>2 DEF ReceiveNothing, rxRing, txRing, AfterReceive, BackToControl
<1>5. CASE ReceiveFull
  <2>1. rx_in # rx_out
    BY <1>5, JtagUartAssumption DEF ReceiveFull, Plus
  <2>. QED
    BY <1>5, <2>1 DEF ReceiveFull, rxRing, txRing, AfterReceive, BackToControl, streams
<1>6. CASE Transmit
  BY <1>6, PlusInt DEF Transmit, rxRing, streams
<1>7. CASE TransmitEnd
  BY <1>7 DEF TransmitEnd, rxRing, txRing, BackToControl, streams
<1>. QED
  BY <1>1, <1>2, <1>3, <1>4, <1>5, <1>6, <1>7 DEF Handler

(* A call that moved an index enables the interrupt before it is over. *)
LEMMA StepInv ==
  ASSUME IInv, Step
  PROVE  IInv'
<1>. USE DEF IInv, IndexTypes, ServesEnabled, InterruptsWithData,
             CopiesSomething, NoLostWakeup,
             ProgramOnly, handler
<1>1. CASE ReadSnap
  BY <1>1, ChunkInt DEF ReadSnap, rxRing, txRing
<1>2. CASE ReadCopy
  BY <1>2 DEF ReadCopy, rxRing, txRing
<1>3. CASE ReadPublish
  BY <1>3, PlusInt DEF ReadPublish, txRing
<1>4. CASE ReadSpin
  BY <1>4 DEF ReadSpin, rxRing, txRing
<1>5. CASE ReadEnd
  BY <1>5 DEF ReadEnd, Enable, Idle, rxRing, txRing
<1>6. CASE WriteSnap
  BY <1>6, ChunkInt DEF WriteSnap, rxRing, txRing
<1>7. CASE WriteCopy
  BY <1>7 DEF WriteCopy, rxRing
<1>8. CASE WritePublish
  BY <1>8, PlusInt DEF WritePublish, rxRing
<1>9. CASE WriteEnable
  BY <1>9 DEF WriteEnable, Enable, Idle, rxRing, txRing
<1>10. CASE WriteSpin
  BY <1>10 DEF WriteSpin, Idle, rxRing, txRing
<1>11. CASE Close
  BY <1>11 DEF Close, Idle, rxRing, txRing
<1>. QED
  BY <1>1, <1>2, <1>3, <1>4, <1>5, <1>6, <1>7, <1>8, <1>9, <1>10, <1>11 DEF Step

(* A call begins with nothing done, so it owes no interrupt. *)
LEMMA RequestInv ==
  ASSUME IInv, Request
  PROVE  IInv'
<1>. USE DEF IInv, IndexTypes, ServesEnabled, InterruptsWithData,
             CopiesSomething, NoLostWakeup,
             ProgramOnly, handler, rxRing, txRing
<1>1. ASSUME NEW size \in Sizes, NEW flag \in BOOLEAN, ReadCall(size, flag)
      PROVE  IInv'
  BY <1>1, JtagUartAssumption DEF ReadCall, Call
<1>2. ASSUME NEW size \in Sizes, NEW flag \in BOOLEAN, WriteCall(size, flag)
      PROVE  IInv'
  BY <1>2, JtagUartAssumption DEF WriteCall, Call
<1>3. ASSUME NEW flag \in BOOLEAN, CloseCall(flag)
      PROVE  IInv'
  BY <1>3 DEF CloseCall, Call
<1>4. ASSUME NEW arg \in Timeouts, SetTimeout(arg)
      PROVE  IInv'
  BY <1>4 DEF SetTimeout, program, streams
<1>. QED
  BY <1>1, <1>2, <1>3, <1>4 DEF Request

(* The alarm and the host touch neither an index nor an enable bit. *)
LEMMA OthersInv ==
  ASSUME IInv, Timeout \/ HostSend \/ HostTake \/ HostPause \/ HostPlug \/ UNCHANGED vars
  PROVE  IInv'
<1>. USE DEF IInv, IndexTypes, ServesEnabled, InterruptsWithData,
             CopiesSomething, NoLostWakeup,
             handler, program, rxRing, txRing, streams
<1>1. CASE Timeout
  BY <1>1 DEF Timeout
<1>2. CASE HostSend
  <2>1. rx_fifo' \in Seq(Int) /\ rx_fifo' # <<>>
    BY <1>2, AppendProperties DEF HostSend, Arrives
  <2>. QED
    BY <1>2, <2>1 DEF HostSend, Arrives, DeviceOnly
<1>3. CASE HostTake
  BY <1>3 DEF HostTake, DeviceOnly
<1>4. CASE HostPlug
  BY <1>4 DEF HostPlug, DeviceOnly
<1>5. CASE HostPause
  <2>1. rx_fifo' = rx_fifo
    BY <1>5 DEF HostPause
  <2>2. pause_irq' => rx_fifo # <<>>
    BY <1>5, Zenon DEF HostPause
  <2>. QED
    BY <1>5, <2>1, <2>2 DEF HostPause, DeviceOnly
<1>6. CASE UNCHANGED vars
  BY <1>6 DEF vars
<1>. QED
  BY <1>1, <1>2, <1>3, <1>4, <1>5, <1>6

(***************************************************************************)
(* The driver never sleeps on an interrupt that is off: the receive        *)
(* interrupt is off only with bytes in the buffer for the next read, the   *)
(* transmit interrupt only with the buffer empty, or while the call that   *)
(* changed that is about to enable it (altera_avalon_jtag_uart_read and    *)
(* _write, against the handler altera_avalon_jtag_uart_irq, whose last     *)
(* word read may show a byte that came after the loop was over).           *)
(***************************************************************************)
THEOREM WakeupsKept == Spec => []NoLostWakeup
<1>1. Init => IInv
  BY InitInv
<1>2. IInv /\ [Next]_vars => IInv'
  BY HandlerInv, StepInv, RequestInv, OthersInv DEF Next
<1>3. IInv => NoLostWakeup
  BY DEF IInv
<1>. QED
  BY <1>1, <1>2, <1>3, PTL DEF Spec
-----------------------------------------------------------------------------
(* Arithmetic of the circular buffers. *)

LEMMA PlusSlot ==
  ASSUME NEW a \in Slots, NEW k \in 0..BUF_LEN
  PROVE  Plus(a, k) \in Slots
  BY JtagUartAssumption DEF Plus, Slots

(* One slot stays free, so that equal indices mean an empty buffer. *)
LEMMA HeldBounds ==
  ASSUME NEW o \in Slots, NEW i \in Slots
  PROVE  /\ Held(o, i) \in 0..(BUF_LEN - 1)
         /\ Held(o, i) = 0 <=> o = i
         /\ Held(o, i) = BUF_LEN - 1 <=> Plus(i, 1) = o
  BY JtagUartAssumption DEF Held, Plus, Slots

LEMMA InMoves ==
  ASSUME NEW o \in Slots, NEW i \in Slots, NEW k \in Nat,
         k < BUF_LEN - Held(o, i)
  PROVE  Held(o, Plus(i, k)) = Held(o, i) + k
  BY JtagUartAssumption DEF Held, Plus, Slots

LEMMA OutMoves ==
  ASSUME NEW o \in Slots, NEW i \in Slots, NEW k \in Nat, k <= Held(o, i)
  PROVE  Held(Plus(o, k), i) = Held(o, i) - k
  BY JtagUartAssumption DEF Held, Plus, Slots

(* A slot that the program fills is not one the handler is to empty. *)
LEMMA FreeNotHeld ==
  ASSUME NEW o \in Slots, NEW i \in Slots, NEW k \in Nat, k < Held(o, i),
         NEW j \in Nat, j < BUF_LEN - Held(o, i)
  PROVE  Plus(o, k) # Plus(i, j)
  BY JtagUartAssumption DEF Held, Plus, Slots

(* Both chunks lie in one piece within the bytes held, or within the room. *)
LEMMA ChunkBounds ==
  ASSUME NEW o \in Slots, NEW i \in Slots
  PROVE  /\ ReadChunk(i, o) \in Nat /\ ReadChunk(i, o) <= Held(o, i)
         /\ o + ReadChunk(i, o) <= BUF_LEN
         /\ ReadChunk(i, o) = 0 => i = o
         /\ WriteChunk(i, o) \in Nat /\ WriteChunk(i, o) < BUF_LEN - Held(o, i)
         /\ i + WriteChunk(i, o) <= BUF_LEN
         /\ WriteChunk(i, o) = 0 => Plus(i, 1) = o
  BY JtagUartAssumption DEF Held, ReadChunk, WriteChunk, Plus, Slots

-----------------------------------------------------------------------------
(* Sequences: the bytes of a buffer, and how they change with its ends. *)

LEMMA Listed ==
  ASSUME NEW S, NEW m \in Nat, NEW f \in [1..m -> S]
  PROVE  f \in Seq(S) /\ Len(f) = m
<1>1. f \in Seq(S)
  BY SeqDef
<1>. QED
  BY <1>1, LenProperties

LEMMA OneByOne ==
  ASSUME NEW S, NEW x \in S
  PROVE  [k \in 1..1 |-> x] = <<x>>
<1>1. [k \in 1..1 |-> x] \in Seq(S) /\ Len([k \in 1..1 |-> x]) = 1
  BY Listed
<1>. QED
  BY <1>1, SeqEqual

(* What Contents(buf, o, i) is, with S the bytes of the buffer. *)
IsContents(S, buf, o, i) ==
  /\ Contents(buf, o, i) \in Seq(S)
  /\ Len(Contents(buf, o, i)) = Held(o, i)
  /\ \A k \in 1..Held(o, i) : Contents(buf, o, i)[k] = buf[Plus(o, k - 1)]

LEMMA ContentsListed ==
  ASSUME NEW S, NEW buf \in [Slots -> S], NEW o \in Slots, NEW i \in Slots
  PROVE  IsContents(S, buf, o, i)
<1>1. Held(o, i) \in Nat /\ Held(o, i) < BUF_LEN
  BY HeldBounds, JtagUartAssumption
<1>2. \A k \in 1..Held(o, i) : Plus(o, k - 1) \in Slots
  BY <1>1, PlusSlot, JtagUartAssumption
<1>3. \A k \in 1..Held(o, i) : Contents(buf, o, i)[k] = buf[Plus(o, k - 1)]
  BY DEF Contents
<1>4. \A k \in 1..Held(o, i) : Contents(buf, o, i)[k] \in S
  BY <1>2, <1>3
<1>5. Contents(buf, o, i) \in [1..Held(o, i) -> S]
  BY <1>4 DEF Contents
<1>6. Contents(buf, o, i) \in Seq(S) /\ Len(Contents(buf, o, i)) = Held(o, i)
  BY <1>1, <1>5, Listed
<1>. QED
  BY <1>3, <1>6 DEF IsContents

(* What is outside the bytes held may change. *)
LEMMA ContentsKept ==
  ASSUME NEW o \in Slots, NEW i \in Slots, NEW b, NEW c,
         \A k \in 1..Held(o, i) : b[Plus(o, k - 1)] = c[Plus(o, k - 1)]
  PROVE  Contents(b, o, i) = Contents(c, o, i)
  BY DEF Contents

(* A sequence is a concatenation if its two parts are. *)
LEMMA TwoParts ==
  ASSUME NEW S, NEW s \in Seq(S), NEW t \in Seq(S), NEW u \in Seq(S),
         Len(u) = Len(s) + Len(t),
         \A k \in 1..Len(s) : u[k] = s[k],
         \A k \in 1..Len(t) : u[Len(s) + k] = t[k]
  PROVE  u = s \o t
<1>1. Len(s) \in Nat /\ Len(t) \in Nat
  BY LenProperties
<1>2. /\ s \o t \in Seq(S) /\ Len(s \o t) = Len(s) + Len(t)
      /\ \A k \in 1..(Len(s) + Len(t)) :
           (s \o t)[k] = IF k <= Len(s) THEN s[k] ELSE t[k - Len(s)]
  BY ConcatProperties
<1>3. ASSUME NEW k \in 1..Len(u)
      PROVE  u[k] = (s \o t)[k]
  <2>1. CASE k <= Len(s)
    BY <1>1, <1>2, <2>1
  <2>2. CASE ~(k <= Len(s))
    <3>1. k - Len(s) \in 1..Len(t) /\ Len(s) + (k - Len(s)) = k
      BY <1>1, <2>2
    <3>2. u[Len(s) + (k - Len(s))] = t[k - Len(s)]
      BY <3>1
    <3>. QED
      BY <1>1, <1>2, <2>2, <3>1, <3>2
  <2>. QED
    BY <2>1, <2>2
<1>. QED
  BY <1>2, <1>3, SeqEqual

(* Moving the in index appends the bytes it passes. *)
Grows(S, buf, o, i, m) ==
  /\ [k \in 1..m |-> buf[Plus(i, k - 1)]] \in Seq(S)
  /\ Contents(buf, o, Plus(i, m))
       = Contents(buf, o, i) \o [k \in 1..m |-> buf[Plus(i, k - 1)]]

LEMMA ContentsGrow ==
  ASSUME NEW S, NEW buf \in [Slots -> S], NEW o \in Slots, NEW i \in Slots,
         NEW m \in Nat, m < BUF_LEN - Held(o, i)
  PROVE  Grows(S, buf, o, i, m)
<1>. SUFFICES ASSUME NEW j, j = Plus(i, m),
                     NEW N, N = [k \in 1..m |-> buf[Plus(i, k - 1)]]
              PROVE  N \in Seq(S) /\ Contents(buf, o, j) = Contents(buf, o, i) \o N
  BY DEF Grows
<1>1. Held(o, i) \in Nat /\ m < BUF_LEN /\ BUF_LEN \in Nat
  BY HeldBounds, JtagUartAssumption
<1>. j \in Slots
  BY <1>1, PlusSlot
<1>2. Held(o, j) = Held(o, i) + m
  BY <1>1, InMoves
<1>3. \A k \in 1..m : N[k] \in S /\ N[k] = buf[Plus(i, k - 1)]
  BY <1>1, PlusSlot
<1>4. N \in Seq(S) /\ Len(N) = m
  <2>1. N \in [1..m -> S]
    BY <1>3
  <2>. QED
    BY <2>1, Listed
<1>5. IsContents(S, buf, o, i)
  BY ContentsListed
<1>6. IsContents(S, buf, o, j)
  BY ContentsListed
<1>7. \A k \in 1..Held(o, i) : Contents(buf, o, j)[k] = Contents(buf, o, i)[k]
  BY <1>1, <1>2, <1>5, <1>6 DEF IsContents
<1>8. ASSUME NEW k \in 1..m
      PROVE  Contents(buf, o, j)[Held(o, i) + k] = N[k]
  <2>1. Plus(o, Held(o, i) + k - 1) = Plus(i, k - 1)
    BY <1>1, JtagUartAssumption DEF Plus, Held, Slots
  <2>2. Held(o, i) + k \in 1..Held(o, j)
    BY <1>1, <1>2
  <2>. QED
    BY <1>1, <1>3, <1>6, <2>1, <2>2 DEF IsContents
<1>. QED
  <2>1. /\ Len(Contents(buf, o, j)) = Len(Contents(buf, o, i)) + Len(N)
        /\ \A k \in 1..Len(Contents(buf, o, i)) : Contents(buf, o, j)[k] = Contents(buf, o, i)[k]
        /\ \A k \in 1..Len(N) : Contents(buf, o, j)[Len(Contents(buf, o, i)) + k] = N[k]
    BY <1>2, <1>4, <1>5, <1>6, <1>7, <1>8, Zenon DEF IsContents
  <2>. QED
    BY <1>4, <1>5, <1>6, <2>1, TwoParts, Zenon DEF IsContents

(* Moving the out index drops the bytes it passes. *)
Shrinks(S, buf, o, i, m) ==
  /\ [k \in 1..m |-> buf[Plus(o, k - 1)]] \in Seq(S)
  /\ Len([k \in 1..m |-> buf[Plus(o, k - 1)]]) = m
  /\ Contents(buf, o, i)
       = [k \in 1..m |-> buf[Plus(o, k - 1)]] \o Contents(buf, Plus(o, m), i)

LEMMA ContentsShrink ==
  ASSUME NEW S, NEW buf \in [Slots -> S], NEW o \in Slots, NEW i \in Slots,
         NEW m \in Nat, m <= Held(o, i)
  PROVE  Shrinks(S, buf, o, i, m)
<1>. SUFFICES ASSUME NEW j, j = Plus(o, m),
                     NEW N, N = [k \in 1..m |-> buf[Plus(o, k - 1)]]
              PROVE  /\ N \in Seq(S) /\ Len(N) = m
                     /\ Contents(buf, o, i) = N \o Contents(buf, j, i)
  BY DEF Shrinks
<1>1. Held(o, i) \in Nat /\ m < BUF_LEN /\ BUF_LEN \in Nat
  BY HeldBounds, JtagUartAssumption
<1>. j \in Slots
  BY <1>1, PlusSlot
<1>2. Held(j, i) = Held(o, i) - m
  BY <1>1, OutMoves
<1>3. \A k \in 1..m : N[k] \in S /\ N[k] = buf[Plus(o, k - 1)]
  BY <1>1, PlusSlot
<1>4. N \in Seq(S) /\ Len(N) = m
  <2>1. N \in [1..m -> S]
    BY <1>3
  <2>. QED
    BY <2>1, Listed
<1>5. IsContents(S, buf, o, i)
  BY ContentsListed
<1>6. IsContents(S, buf, j, i)
  BY ContentsListed
<1>7. \A k \in 1..m : Contents(buf, o, i)[k] = N[k]
  BY <1>1, <1>3, <1>5 DEF IsContents
<1>8. ASSUME NEW k \in 1..Held(j, i)
      PROVE  Contents(buf, o, i)[m + k] = Contents(buf, j, i)[k]
  <2>1. Plus(o, m + k - 1) = Plus(j, k - 1)
    BY <1>1, <1>2, JtagUartAssumption DEF Plus, Held, Slots
  <2>2. m + k \in 1..Held(o, i)
    BY <1>1, <1>2
  <2>. QED
    BY <1>5, <1>6, <2>1, <2>2 DEF IsContents
<1>. QED
  <2>1. /\ Len(Contents(buf, o, i)) = Len(N) + Len(Contents(buf, j, i))
        /\ \A k \in 1..Len(N) : Contents(buf, o, i)[k] = N[k]
        /\ \A k \in 1..Len(Contents(buf, j, i)) :
             Contents(buf, o, i)[Len(N) + k] = Contents(buf, j, i)[k]
    <3>1. Held(o, i) = m + Held(j, i)
      BY <1>1, <1>2
    <3>. QED
      BY <1>4, <1>5, <1>6, <1>7, <1>8, <3>1, Zenon DEF IsContents
  <2>. QED
    BY <1>4, <1>5, <1>6, <2>1, TwoParts, Zenon DEF IsContents

(* The same for one byte. *)
LEMMA GrowByOne ==
  ASSUME NEW S, NEW buf \in [Slots -> S], NEW o \in Slots, NEW i \in Slots,
         Plus(i, 1) # o
  PROVE  Contents(buf, o, Plus(i, 1)) = Contents(buf, o, i) \o <<buf[i]>>
<1>1. 1 < BUF_LEN - Held(o, i)
  <2>1. Held(o, i) \in 0..(BUF_LEN - 1) /\ Held(o, i) # BUF_LEN - 1
    BY HeldBounds
  <2>. QED
    BY <2>1, JtagUartAssumption
<1>2. [k \in 1..1 |-> buf[Plus(i, k - 1)]] = <<buf[i]>>
  BY PlusNothing, OneByOne
<1>3. Grows(S, buf, o, i, 1)
  BY <1>1, ContentsGrow
<1>. QED
  BY <1>2, <1>3 DEF Grows

LEMMA ShrinkByOne ==
  ASSUME NEW S, NEW buf \in [Slots -> S], NEW o \in Slots, NEW i \in Slots, o # i
  PROVE  Contents(buf, o, i) = <<buf[o]>> \o Contents(buf, Plus(o, 1), i)
<1>1. 1 <= Held(o, i)
  BY HeldBounds
<1>2. [k \in 1..1 |-> buf[Plus(o, k - 1)]] = <<buf[o]>>
  BY PlusNothing, OneByOne
<1>3. Shrinks(S, buf, o, i, 1)
  BY <1>1, ContentsShrink
<1>. QED
  BY <1>2, <1>3 DEF Shrinks

(* Taking the front off a sequence. *)
LEMMA FrontTaken ==
  ASSUME NEW S, NEW s \in Seq(S), NEW t \in Seq(S)
  PROVE  /\ SubSeq(s \o t, 1, Len(s)) = s
         /\ SubSeq(s \o t, Len(s) + 1, Len(s \o t)) = t
<1>1. /\ Len(s) \in Nat /\ Len(t) \in Nat
      /\ s \o t \in Seq(S) /\ Len(s \o t) = Len(s) + Len(t)
      /\ \A k \in 1..(Len(s) + Len(t)) :
           (s \o t)[k] \in S /\ (s \o t)[k] = IF k <= Len(s) THEN s[k] ELSE t[k - Len(s)]
  BY ConcatProperties, LenProperties, ElementOfSeq
<1>2. /\ SubSeq(s \o t, 1, Len(s)) \in Seq(S)
      /\ Len(SubSeq(s \o t, 1, Len(s))) = Len(s)
      /\ \A k \in 1..Len(s) : SubSeq(s \o t, 1, Len(s))[k] = s[k]
  BY <1>1, SubSeqProperties
<1>3. /\ SubSeq(s \o t, Len(s) + 1, Len(s) + Len(t)) \in Seq(S)
      /\ Len(SubSeq(s \o t, Len(s) + 1, Len(s) + Len(t))) = Len(t)
      /\ \A k \in 1..Len(t) :
           SubSeq(s \o t, Len(s) + 1, Len(s) + Len(t))[k] = t[k]
  BY <1>1, SubSeqProperties
<1>4. SubSeq(s \o t, 1, Len(s)) = s
  BY <1>2, SeqEqual
<1>5. SubSeq(s \o t, Len(s) + 1, Len(s) + Len(t)) = t
  BY <1>3, SeqEqual
<1>. QED
  BY <1>1, <1>4, <1>5

(* A sequence that is not empty is its first element and the rest. *)
LEMMA HeadFirst ==
  ASSUME NEW S, NEW s \in Seq(S), s # <<>>
  PROVE  /\ Head(s) \in S /\ Tail(s) \in Seq(S) /\ <<Head(s)>> \in Seq(S)
         /\ Len(<<Head(s)>>) = 1 /\ Len(s) = 1 + Len(Tail(s)) /\ Len(s) \in Nat
         /\ s = <<Head(s)>> \o Tail(s)
<1>1. /\ Head(s) \in S /\ Tail(s) \in Seq(S) /\ Len(Tail(s)) = Len(s) - 1
      /\ \A k \in 1..Len(Tail(s)) : Tail(s)[k] = s[k + 1]
      /\ Len(s) \in Nat
  BY HeadTailProperties, LenProperties
<1>. Head(s) = s[1]
  OBVIOUS
<1>2. <<Head(s)>> \in Seq(S) /\ Len(<<Head(s)>>) = 1 /\ <<Head(s)>>[1] = Head(s)
  BY <1>1
<1>3. /\ <<Head(s)>> \o Tail(s) \in Seq(S) /\ Len(<<Head(s)>> \o Tail(s)) = Len(s)
      /\ \A k \in 1..Len(s) : (<<Head(s)>> \o Tail(s))[k] =
                              IF k <= 1 THEN <<Head(s)>>[k] ELSE Tail(s)[k - 1]
  BY <1>1, <1>2, ConcatProperties
<1>4. \A k \in 1..Len(s) : s[k] = (<<Head(s)>> \o Tail(s))[k]
  BY <1>1, <1>3
<1>. QED
  BY <1>1, <1>2, <1>3, <1>4, SeqEqual
-----------------------------------------------------------------------------
(* The types, in the groups in which actions change them. *)
Indices ==
  /\ rx_in \in Slots /\ rx_out \in Slots /\ tx_in \in Slots /\ tx_out \in Slots
  /\ in \in Slots /\ out \in Slots
Buffers == rx_buf \in [Slots -> 0..MaxBytes] /\ tx_buf \in [Slots -> 0..MaxBytes]
Fifos ==
  /\ rx_fifo \in Seq(1..MaxBytes) /\ Len(rx_fifo) <= RX_DEPTH
  /\ tx_fifo \in Seq(0..MaxBytes) /\ Len(tx_fifo) <= TX_DEPTH
Enables ==
  irq_enable \subseteq {"RE", "WE"} /\ control \subseteq {"RE", "WE"}
Places ==
  /\ isr \in {"idle", "control", "receive", "transmit"}
  /\ pending \subseteq {"RI", "WI"}
  /\ pc \in {"idle", "read_snap", "read_copy", "read_publish", "read_spin",
             "read_end", "write_snap", "write_copy", "write_publish",
             "write_enable", "write_spin", "close"}
Flags ==
  /\ ac \in BOOLEAN /\ pause_irq \in BOOLEAN /\ ravail \in BOOLEAN
  /\ nonblock \in BOOLEAN /\ alarm \in BOOLEAN /\ connected \in BOOLEAN
Waiting == host_inactive \in 0..(INT_MAX - 2) /\ timeout \in 1..INT_MAX
Counts ==
  /\ space \in 0..TX_DEPTH
  /\ ptr \in Nat /\ left \in Nat /\ n \in 0..BUF_LEN
  /\ sent \in 0..MaxBytes /\ accepted \in 0..MaxBytes
Bytes ==
  /\ chunk \in Seq(0..MaxBytes) /\ got \in Seq(0..MaxBytes)
  /\ taken \in Seq(0..MaxBytes)

LEMMA TypesGrouped ==
  TypeOK <=> /\ Indices /\ Buffers /\ Fifos /\ Enables /\ Places /\ Flags
             /\ Waiting /\ Counts /\ Bytes
<1>1. Flags <=> {ac, pause_irq, ravail, nonblock, alarm, connected} \subseteq BOOLEAN
  BY Zenon DEF Flags
<1>2. Indices <=> {rx_in, rx_out, tx_in, tx_out, in, out} \subseteq Slots
  BY Zenon DEF Indices
<1>3. Enables <=> {irq_enable, control} \subseteq SUBSET {"RE", "WE"}
  BY Zenon DEF Enables
<1>4. ptr \in Nat /\ left \in Nat <=> {ptr, left} \subseteq Nat
  BY Zenon
<1>. QED
  BY <1>1, <1>2, <1>3, <1>4, Zenon
     DEF TypeOK, Buffers, Fifos, Places, Waiting, Counts, Bytes

-----------------------------------------------------------------------------
(* Bytes that the write under way has still to hand over. *)
Owed ==
  IF pc \in {"write_snap", "write_copy", "write_enable", "write_spin"} THEN left
  ELSE IF pc = "write_publish" THEN left + n ELSE 0

(* No more bytes enter the buffers than the bound on both directions. *)
Accounted == sent + accepted + Owed <= MaxBytes

(* The room the handler counts down is still there. *)
RoomForSpace == Len(tx_fifo) + space <= TX_DEPTH

(* A chunk is what is left at most; a call that goes on has something left. *)
ChunkSizes ==
  /\ pc \in {"read_copy", "read_publish", "write_copy", "write_publish"} => n > 0
  /\ pc \notin {"read_copy", "read_publish", "write_copy", "write_publish"} => n = 0
  /\ pc \in {"read_copy", "write_copy"} => n <= left
  /\ pc \in {"read_snap", "read_spin", "write_snap", "write_spin"} => left > 0

(* What read copies is held, and stays as it is until read gives it up. *)
ReadWindow ==
  /\ pc \in {"read_copy", "read_publish"} =>
       out = rx_out /\ n <= Held(rx_out, rx_in) /\ out + n <= BUF_LEN
  /\ pc = "read_publish" => chunk = [k \in 1..n |-> rx_buf[out + k - 1]]

(* What write copies fits, and holds the next bytes once it is copied. *)
WriteWindow ==
  /\ pc \in {"write_copy", "write_publish"} =>
       in = tx_in /\ n < BUF_LEN - Held(tx_out, tx_in) /\ in + n <= BUF_LEN
  /\ pc = "write_publish" => \A k \in 1..n : tx_buf[in + k - 1] = accepted + k

(* A call that waits found the buffer empty, or full, in its snapshot. *)
Stuck ==
  /\ pc = "read_spin" => in = rx_out
  /\ pc = "write_spin" \/ (pc = "write_enable" /\ left > 0) => Plus(tx_in, 1) = out

DriverInv ==
  /\ TypeOK /\ Accounted /\ RoomForSpace /\ ChunkSizes
  /\ ReadWindow /\ WriteWindow /\ Stuck

(* The types as the groups, the rest as it is. *)
LEMMA DriverTypes ==
  DriverInv <=>
    /\ Indices /\ Buffers /\ Fifos /\ Enables /\ Places /\ Flags /\ Waiting
    /\ Counts /\ Bytes /\ Accounted /\ RoomForSpace /\ ChunkSizes
    /\ ReadWindow /\ WriteWindow /\ Stuck
  BY TypesGrouped, Zenon DEF DriverInv

LEMMA DriverTypesNext ==
  DriverInv' <=>
    /\ Indices' /\ Buffers' /\ Fifos' /\ Enables' /\ Places' /\ Flags' /\ Waiting'
    /\ Counts' /\ Bytes' /\ Accounted' /\ RoomForSpace' /\ ChunkSizes'
    /\ ReadWindow' /\ WriteWindow' /\ Stuck'
  BY DriverTypes, PTL

LEMMA DriverInit == Init => DriverInv
<1>. SUFFICES ASSUME Init PROVE DriverInv
  OBVIOUS
<1>. USE JtagUartAssumption DEF Init
<1>1. Indices
  BY DEF Indices, Slots
<1>2. Buffers
  BY DEF Buffers
<1>3. Fifos
  BY DEF Fifos
<1>4. Enables /\ Places
  BY DEF Enables, Places
<1>5. Flags
  BY DEF Flags
<1>6. Waiting /\ Counts
  BY DEF Waiting, Counts
<1>7. Bytes
  BY DEF Bytes
<1>8. Accounted /\ RoomForSpace /\ ChunkSizes
  BY DEF Accounted, Owed, RoomForSpace, ChunkSizes
<1>9. ReadWindow /\ WriteWindow /\ Stuck
  BY DEF ReadWindow, WriteWindow, Stuck
<1>. QED
  BY <1>1, <1>2, <1>3, <1>4, <1>5, <1>6, <1>7, <1>8, <1>9, DriverTypes


(* Consequences of the types used again and again. *)
LEMMA FifoLengths ==
  ASSUME DriverInv
  PROVE  /\ Len(rx_fifo) \in Nat /\ Len(rx_fifo) <= RX_DEPTH
         /\ Len(tx_fifo) \in Nat /\ Len(tx_fifo) <= TX_DEPTH
         /\ RX_DEPTH \in Nat /\ TX_DEPTH \in Nat
  BY DriverTypes, LenProperties, JtagUartAssumption DEF Fifos

(* The host leaves the write under way all the bytes it still owes. *)
LEMMA Claims ==
  ASSUME DriverInv
  PROVE  /\ Owed \in Nat /\ Claimed \in Nat /\ Owed <= Claimed
         /\ sent \in Nat /\ accepted \in Nat /\ MaxBytes \in Nat
  BY DriverTypes, JtagUartAssumption DEF Owed, Claimed, Counts, ChunkSizes, Places

(* The chunk that a turn of read, or of write, decides on. *)
LEMMA ReadChunkTaken ==
  ASSUME NEW o \in Slots, NEW i \in Slots, NEW l \in Nat,
         NEW m, m = Least(ReadChunk(i, o), l)
  PROVE  /\ m \in 0..BUF_LEN /\ m <= l /\ m <= Held(o, i) /\ o + m <= BUF_LEN
         /\ m = 0 => i = o \/ l = 0
<1>1. /\ ReadChunk(i, o) \in Nat /\ ReadChunk(i, o) <= Held(o, i)
      /\ o + ReadChunk(i, o) <= BUF_LEN
      /\ ReadChunk(i, o) = 0 => i = o
  BY ChunkBounds
<1>2. m \in Nat /\ m <= ReadChunk(i, o) /\ m <= l /\ (m = 0 => ReadChunk(i, o) = 0 \/ l = 0)
  BY <1>1 DEF Least
<1>3. Held(o, i) \in Nat /\ o \in Nat /\ BUF_LEN \in Nat
  BY HeldBounds, JtagUartAssumption DEF Slots
<1>. QED
  BY <1>1, <1>2, <1>3

LEMMA WriteChunkTaken ==
  ASSUME NEW o \in Slots, NEW i \in Slots, NEW l \in Nat,
         NEW m, m = Least(WriteChunk(i, o), l)
  PROVE  /\ m \in 0..BUF_LEN /\ m <= l /\ m < BUF_LEN - Held(o, i)
         /\ i + m <= BUF_LEN
         /\ m = 0 => Plus(i, 1) = o \/ l = 0
<1>1. /\ WriteChunk(i, o) \in Nat /\ WriteChunk(i, o) < BUF_LEN - Held(o, i)
      /\ i + WriteChunk(i, o) <= BUF_LEN
      /\ WriteChunk(i, o) = 0 => Plus(i, 1) = o
  BY ChunkBounds
<1>2. m \in Nat /\ m <= WriteChunk(i, o) /\ m <= l /\ (m = 0 => WriteChunk(i, o) = 0 \/ l = 0)
  BY <1>1 DEF Least
<1>3. Held(o, i) \in Nat /\ i \in Nat /\ BUF_LEN \in Nat
  BY HeldBounds, JtagUartAssumption DEF Slots
<1>. QED
  BY <1>1, <1>2, <1>3

(* A byte that arrives finds its place in the FIFO and in the bound. *)
LEMMA ArrivesFits ==
  ASSUME DriverInv, Arrives
  PROVE  /\ rx_fifo' \in Seq(1..MaxBytes) /\ Len(rx_fifo') <= RX_DEPTH
         /\ sent' \in 0..MaxBytes /\ sent' + accepted + Owed <= MaxBytes
         /\ ac' \in BOOLEAN
<1>1. sent + accepted + Claimed < MaxBytes /\ sent' = sent + 1
  BY DEF Arrives
<1>2. sent + 1 \in 1..MaxBytes
  BY <1>1, Claims
<1>3. rx_fifo' \in Seq(1..MaxBytes) /\ Len(rx_fifo') = Len(rx_fifo) + 1
  BY <1>2, DriverTypes, AppendProperties DEF Arrives, Fifos
<1>. QED
  BY <1>1, <1>2, <1>3, Claims, FifoLengths DEF Arrives

(* The handler. *)
LEMMA InterruptDriver ==
  ASSUME DriverInv, Interrupt
  PROVE  DriverInv'
<1>. USE DriverTypes, JtagUartAssumption
<1>1. /\ Indices' /\ Buffers' /\ Fifos' /\ Enables'
  BY DEF Indices, Buffers, Fifos, Enables, Interrupt, rxRing, txRing, handler,
         program, streams
<1>2. /\ Places' /\ Waiting' /\ Counts' /\ Accounted' /\ RoomForSpace'
  BY DEF Places, Waiting, Counts, Accounted, RoomForSpace, Owed, Interrupt,
         rxRing, txRing, handler, program, streams
<1>3. /\ Flags' /\ Bytes'
  BY DEF Flags, Bytes, Interrupt, rxRing, txRing, handler, program, streams
<1>4. /\ ChunkSizes' /\ ReadWindow' /\ WriteWindow' /\ Stuck'
  BY DEF ChunkSizes, ReadWindow, WriteWindow, Stuck, Interrupt, rxRing,
         txRing, handler, program, streams
<1>. QED
  BY <1>1, <1>2, <1>3, <1>4, DriverTypesNext, Zenon

LEMMA ReadControlDriver ==
  ASSUME DriverInv, ReadControl
  PROVE  DriverInv'
<1>. USE DriverTypes, JtagUartAssumption
<1>1. RoomForSpace'
  BY FifoLengths DEF RoomForSpace, Counts, ReadControl, WI
<1>2. /\ Indices' /\ Buffers' /\ Fifos' /\ Enables'
  BY DEF Indices, Buffers, Fifos, Enables, ReadControl, RI, WI, rxRing,
         txRing, handler, program, streams
<1>3. /\ Places' /\ Waiting' /\ Accounted'
  BY DEF Places, Waiting, Accounted, Owed, ReadControl, RI, WI, rxRing, txRing,
         handler, program, streams
<1>6. Counts'
  <2>1. space' \in 0..TX_DEPTH
    BY FifoLengths DEF ReadControl
  <2>. QED
    BY <2>1 DEF Counts, ReadControl, program, streams
<1>4. /\ Flags' /\ Bytes'
  BY DEF Flags, Bytes, ReadControl, RI, WI, rxRing, txRing, handler, program,
         streams
<1>5. /\ ChunkSizes' /\ ReadWindow' /\ WriteWindow' /\ Stuck'
  BY DEF ChunkSizes, ReadWindow, WriteWindow, Stuck, ReadControl, RI, WI,
         rxRing, txRing, handler, program, streams
<1>. QED
  BY <1>1, <1>2, <1>3, <1>4, <1>5, <1>6, DriverTypesNext, Zenon

LEMMA ReceiveDriver ==
  ASSUME DriverInv, Receive
  PROVE  DriverInv'
<1>. USE DriverTypes, JtagUartAssumption
<1>1. Indices'
  <2>1. Plus(rx_in, 1) \in Slots
    BY PlusSlot DEF Indices
  <2>. QED
    BY <2>1 DEF Indices, Receive, program, txRing
<1>2. Buffers'
  <2>1. Head(rx_fifo) \in 0..MaxBytes
    <3>1. Head(rx_fifo) \in 1..MaxBytes
      BY HeadFirst DEF Fifos, Receive
    <3>. QED
      BY <3>1
  <2>. QED
    BY <2>1 DEF Buffers, Receive, txRing
<1>3. Fifos'
  <2>1. Tail(rx_fifo) \in Seq(1..MaxBytes) /\ Len(Tail(rx_fifo)) <= RX_DEPTH
    BY HeadFirst, FifoLengths, LenProperties DEF Fifos, Receive
  <2>. QED
    BY <2>1 DEF Fifos, Receive
<1>4. RoomForSpace'
  BY FifoLengths DEF RoomForSpace, Counts, Receive
<1>5. ReadWindow'
  <2>1. UNCHANGED <<rx_out, program>> /\ rx_in' = Plus(rx_in, 1)
    BY DEF Receive
  <2>2. Held(rx_out, rx_in) < BUF_LEN - 1 /\ Held(rx_out, rx_in) \in Nat
    <3>1. rx_out \in Slots /\ rx_in \in Slots /\ Plus(rx_in, 1) # rx_out
      BY DEF Receive, Indices
    <3>2. /\ Held(rx_out, rx_in) \in 0..(BUF_LEN - 1)
          /\ Held(rx_out, rx_in) # BUF_LEN - 1
      BY <3>1, HeldBounds
    <3>. QED
      BY <3>2
  <2>3. Held(rx_out', rx_in') = Held(rx_out, rx_in) + 1
    BY <2>1, <2>2, InMoves DEF Indices
  <2>4. ASSUME pc \in {"read_copy", "read_publish"}, NEW k \in 1..n
        PROVE  rx_buf'[out + k - 1] = rx_buf[out + k - 1]
    <3>1. /\ out = rx_out /\ n <= Held(rx_out, rx_in) /\ out + n <= BUF_LEN
          /\ rx_out \in Slots /\ rx_in \in Slots /\ n \in 0..BUF_LEN
      BY <2>4 DEF ReadWindow, Indices, Counts
    <3>2. Plus(rx_out, k - 1) # Plus(rx_in, 0)
      BY <2>2, <3>1, FreeNotHeld
    <3>3. out + k - 1 \in Slots /\ out + k - 1 # rx_in
      BY <3>1, <3>2 DEF Plus, Slots
    <3>. QED
      BY <3>3 DEF Receive, Buffers
  <2>5. pc \in {"read_copy", "read_publish"} =>
           out' = rx_out' /\ n' <= Held(rx_out', rx_in') /\ out' + n' <= BUF_LEN
    BY <2>1, <2>2, <2>3 DEF ReadWindow, program, Counts
  <2>6. pc = "read_publish" => chunk' = [k \in 1..n' |-> rx_buf'[out' + k - 1]]
    <3>1. pc = "read_publish" => \A k \in 1..n : rx_buf'[out + k - 1] = rx_buf[out + k - 1]
      BY <2>4
    <3>. QED
      BY <2>1, <3>1 DEF ReadWindow, program
  <2>. QED
    BY <2>1, <2>5, <2>6 DEF ReadWindow, program
<1>6. /\ Places' /\ Waiting'
  BY DEF Places, Waiting, Receive, rxRing, txRing, handler, program, streams
<1>7. /\ Counts' /\ Accounted'
  BY DEF Counts, Accounted, Owed, Receive, rxRing, txRing, handler, program,
         streams
<1>8. /\ Enables'
  BY DEF Enables, Receive, rxRing, txRing, handler, program, streams
<1>9. /\ Flags' /\ Bytes'
  BY DEF Flags, Bytes, Receive, rxRing, txRing, handler, program, streams
<1>10. /\ ChunkSizes' /\ WriteWindow' /\ Stuck'
  BY DEF ChunkSizes, WriteWindow, Stuck, Receive, rxRing, txRing, handler,
         program, streams
<1>. QED
  BY <1>1, <1>2, <1>3, <1>4, <1>5, <1>6, <1>7, <1>8, <1>9, <1>10,
     DriverTypesNext, Zenon

LEMMA ReceiveNothingDriver ==
  ASSUME DriverInv, ReceiveNothing
  PROVE  DriverInv'
<1>. USE DriverTypes, JtagUartAssumption
<1>1. /\ rx_fifo' \in Seq(1..MaxBytes) /\ Len(rx_fifo') <= RX_DEPTH
      /\ sent' \in 0..MaxBytes /\ sent' + accepted + Owed <= MaxBytes
      /\ ac' \in BOOLEAN
  <2>1. CASE Arrives
    BY <2>1, ArrivesFits
  <2>2. CASE UNCHANGED <<rx_fifo, ac, sent>>
    BY <2>2 DEF Fifos, Counts, Accounted, Flags
  <2>. QED
    BY <2>1, <2>2 DEF ReceiveNothing
<1>2. /\ Fifos'
  BY <1>1 DEF Fifos, ReceiveNothing
<1>3. /\ Counts'
  BY <1>1 DEF Counts, ReceiveNothing, AfterReceive, BackToControl, program
<1>4. Accounted'
  BY <1>1 DEF Accounted, Owed, ReceiveNothing, program
<1>5. RoomForSpace'
  BY FifoLengths DEF RoomForSpace, Counts, ReceiveNothing, AfterReceive, BackToControl
<1>6. /\ Indices' /\ Buffers' /\ Enables'
  BY DEF Indices, Buffers, Enables, ReceiveNothing, AfterReceive, rxRing,
         txRing, program
<1>7. /\ Places' /\ Waiting'
  BY DEF Places, Waiting, ReceiveNothing, AfterReceive, BackToControl, program
<1>8. /\ Flags' /\ Bytes'
  BY <1>1 DEF Flags, Bytes, ReceiveNothing, AfterReceive, program
<1>9. /\ ChunkSizes' /\ ReadWindow' /\ WriteWindow' /\ Stuck'
  BY DEF ChunkSizes, ReadWindow, WriteWindow, Stuck, ReceiveNothing, rxRing,
         txRing, program
<1>. QED
  BY <1>2, <1>3, <1>4, <1>5, <1>6, <1>7, <1>8, <1>9, DriverTypesNext, Zenon

LEMMA ReceiveFullDriver ==
  ASSUME DriverInv, ReceiveFull
  PROVE  DriverInv'
<1>. USE DriverTypes, JtagUartAssumption
<1>1. RoomForSpace'
  BY FifoLengths DEF RoomForSpace, Counts, ReceiveFull, AfterReceive, BackToControl
<1>2. /\ Indices' /\ Buffers' /\ Fifos' /\ Enables'
  BY DEF Indices, Buffers, Fifos, Enables, ReceiveFull, AfterReceive,
         BackToControl, rxRing, txRing, handler, program, streams
<1>3. /\ Places' /\ Waiting' /\ Counts' /\ Accounted'
  BY DEF Places, Waiting, Counts, Accounted, Owed, ReceiveFull, AfterReceive,
         BackToControl, rxRing, txRing, handler, program, streams
<1>4. /\ Flags' /\ Bytes'
  BY DEF Flags, Bytes, ReceiveFull, AfterReceive, BackToControl, rxRing,
         txRing, handler, program, streams
<1>5. /\ ChunkSizes' /\ ReadWindow' /\ WriteWindow' /\ Stuck'
  BY DEF ChunkSizes, ReadWindow, WriteWindow, Stuck, ReceiveFull,
         AfterReceive, BackToControl, rxRing, txRing, handler, program,
         streams
<1>. QED
  BY <1>1, <1>2, <1>3, <1>4, <1>5, DriverTypesNext, Zenon

LEMMA TransmitDriver ==
  ASSUME DriverInv, Transmit
  PROVE  DriverInv'
<1>. USE DriverTypes, JtagUartAssumption
<1>1. Indices'
  <2>1. Plus(tx_out, 1) \in Slots
    BY PlusSlot DEF Indices
  <2>. QED
    BY <2>1 DEF Indices, Transmit, program, rxRing
<1>2. Fifos'
  <2>1. tx_fifo' \in Seq(0..MaxBytes) /\ Len(tx_fifo') = Len(tx_fifo) + 1
    BY AppendProperties DEF Transmit, Fifos, Buffers, Indices
  <2>. QED
    BY <2>1, FifoLengths DEF Fifos, Transmit, RoomForSpace, Counts
<1>3. RoomForSpace'
  <2>1. Len(tx_fifo') = Len(tx_fifo) + 1
    BY AppendProperties DEF Transmit, Fifos, Buffers, Indices
  <2>. QED
    BY <2>1, FifoLengths DEF RoomForSpace, Counts, Transmit
<1>4. WriteWindow'
  <2>1. Held(tx_out', tx_in') = Held(tx_out, tx_in) - 1
    <3>1. Held(tx_out, tx_in) \in Nat /\ Held(tx_out, tx_in) # 0
      BY HeldBounds DEF Transmit, Indices
    <3>. QED
      BY <3>1, OutMoves DEF Transmit, Indices
  <2>2. Held(tx_out, tx_in) \in Nat
    BY HeldBounds DEF Indices
  <2>. QED
    BY <2>1, <2>2 DEF WriteWindow, Transmit, program, streams, Counts
<1>5. /\ Buffers' /\ Enables'
  BY DEF Buffers, Enables, Transmit, rxRing, txRing, handler, program, streams
<1>6. /\ Places' /\ Waiting' /\ Accounted'
  BY DEF Places, Waiting, Accounted, Owed, Transmit, handler, program, streams
<1>9. Counts'
  BY DEF Counts, Transmit, program, streams
<1>7. /\ Flags' /\ Bytes'
  BY DEF Flags, Bytes, Transmit, rxRing, txRing, handler, program, streams
<1>8. /\ ChunkSizes' /\ ReadWindow' /\ Stuck'
  BY DEF ChunkSizes, ReadWindow, Stuck, Transmit, rxRing, txRing, handler,
         program, streams
<1>. QED
  BY <1>1, <1>2, <1>3, <1>4, <1>5, <1>6, <1>7, <1>8, <1>9,
     DriverTypesNext, Zenon

LEMMA TransmitEndDriver ==
  ASSUME DriverInv, TransmitEnd
  PROVE  DriverInv'
<1>. USE DriverTypes, JtagUartAssumption
<1>1. RoomForSpace'
  BY FifoLengths DEF RoomForSpace, Counts, TransmitEnd, BackToControl
<1>2. /\ Indices' /\ Buffers' /\ Fifos' /\ Enables'
  BY DEF Indices, Buffers, Fifos, Enables, TransmitEnd, BackToControl, rxRing,
         txRing, handler, program, streams
<1>3. /\ Places' /\ Waiting' /\ Counts' /\ Accounted'
  BY DEF Places, Waiting, Counts, Accounted, Owed, TransmitEnd, BackToControl,
         rxRing, txRing, handler, program, streams
<1>4. /\ Flags' /\ Bytes'
  BY DEF Flags, Bytes, TransmitEnd, BackToControl, rxRing, txRing, handler,
         program, streams
<1>5. /\ ChunkSizes' /\ ReadWindow' /\ WriteWindow' /\ Stuck'
  BY DEF ChunkSizes, ReadWindow, WriteWindow, Stuck, TransmitEnd,
         BackToControl, rxRing, txRing, handler, program, streams
<1>. QED
  BY <1>1, <1>2, <1>3, <1>4, <1>5, DriverTypesNext, Zenon

(* The alarm routine. *)
LEMMA TimeoutDriver ==
  ASSUME DriverInv, Timeout
  PROVE  DriverInv'
<1>. USE DriverTypes, JtagUartAssumption
<1>1. /\ Places' /\ Waiting'
  BY DEF Places, Waiting, Timeout, rxRing, txRing, handler, program, streams
<1>2. /\ Counts' /\ Accounted' /\ RoomForSpace'
  BY DEF Counts, Accounted, RoomForSpace, Owed, Timeout, rxRing, txRing,
         handler, program, streams
<1>3. /\ Indices' /\ Buffers' /\ Fifos' /\ Enables'
  BY DEF Indices, Buffers, Fifos, Enables, Timeout, rxRing, txRing, handler,
         program, streams
<1>4. /\ Flags' /\ Bytes'
  BY DEF Flags, Bytes, Timeout, rxRing, txRing, handler, program, streams
<1>5. /\ ChunkSizes' /\ ReadWindow' /\ WriteWindow' /\ Stuck'
  BY DEF ChunkSizes, ReadWindow, WriteWindow, Stuck, Timeout, rxRing, txRing,
         handler, program, streams
<1>. QED
  BY <1>1, <1>2, <1>3, <1>4, <1>5, DriverTypesNext, Zenon

(* The program reads. *)
LEMMA ReadSnapDriver ==
  ASSUME DriverInv, ReadSnap
  PROVE  DriverInv'
<1>. USE DriverTypes, JtagUartAssumption
<1>1. Counts'
  <2>1. n' \in 0..BUF_LEN
    BY ReadChunkTaken DEF ReadSnap, Indices, Counts
  <2>. QED
    BY <2>1 DEF Counts, ReadSnap, ProgramOnly, handler
<1>2. ChunkSizes'
  <2>1. n' \in Nat /\ n' <= left
    BY ReadChunkTaken DEF ReadSnap, Indices, Counts
  <2>. QED
    BY <2>1 DEF ChunkSizes, Counts, ReadSnap
<1>3. ReadWindow'
  <2>1. n' <= Held(rx_out, rx_in) /\ rx_out + n' <= BUF_LEN
    BY ReadChunkTaken DEF ReadSnap, Indices, Counts
  <2>. QED
    BY <2>1 DEF ReadWindow, ReadSnap, rxRing, txRing
<1>4. Stuck'
  <2>1. n' \in Nat /\ (n' = 0 => rx_in = rx_out \/ left = 0)
    BY ReadChunkTaken DEF ReadSnap, Indices, Counts
  <2>. QED
    BY <2>1 DEF Stuck, ReadSnap, ChunkSizes, Counts, rxRing, txRing
<1>5. /\ Indices' /\ Buffers' /\ Fifos' /\ Enables'
  BY DEF Indices, Buffers, Fifos, Enables, ReadSnap, ProgramOnly, Idle,
         rxRing, txRing, handler, program, streams
<1>6. /\ Places' /\ Waiting' /\ Accounted' /\ RoomForSpace'
  BY DEF Places, Waiting, Accounted, RoomForSpace, Owed, ReadSnap,
         ProgramOnly, Idle, rxRing, txRing, handler, program, streams
<1>7. /\ Flags' /\ Bytes'
  BY DEF Flags, Bytes, ReadSnap, ProgramOnly, Idle, rxRing, txRing, handler,
         program, streams
<1>8. /\ WriteWindow'
  BY DEF WriteWindow, ReadSnap, ProgramOnly, Idle, rxRing, txRing, handler,
         program, streams
<1>. QED
  BY <1>1, <1>2, <1>3, <1>4, <1>5, <1>6, <1>7, <1>8, DriverTypesNext, Zenon

LEMMA ReadCopyDriver ==
  ASSUME DriverInv, ReadCopy
  PROVE  DriverInv'
<1>. USE DriverTypes, JtagUartAssumption
<1>1. Counts'
  BY DEF Counts, ChunkSizes, ReadCopy, ProgramOnly, handler
<1>2. Bytes'
  <2>1. \A k \in 1..n : out + k - 1 \in Slots
    <3>1. out \in Slots /\ n \in 0..BUF_LEN /\ out + n <= BUF_LEN
      BY DEF ReadCopy, ReadWindow, Indices, Counts
    <3>. QED
      BY <3>1 DEF Slots
  <2>2. chunk' \in [1..n -> 0..MaxBytes]
    BY <2>1 DEF ReadCopy, Buffers
  <2>3. chunk' \in Seq(0..MaxBytes)
    BY <2>2, Listed DEF Counts
  <2>. QED
    BY <2>3 DEF Bytes, ReadCopy, ProgramOnly
<1>3. /\ Indices' /\ Buffers' /\ Fifos' /\ Enables'
  BY DEF Indices, Buffers, Fifos, Enables, ReadCopy, ProgramOnly, Idle,
         rxRing, txRing, handler, program, streams
<1>4. /\ Places' /\ Waiting' /\ Accounted' /\ RoomForSpace'
  BY DEF Places, Waiting, Accounted, RoomForSpace, Owed, ReadCopy,
         ProgramOnly, Idle, rxRing, txRing, handler, program, streams
<1>5. /\ Flags'
  BY DEF Flags, ReadCopy, ProgramOnly, Idle, rxRing, txRing, handler, program,
         streams
<1>6. /\ ChunkSizes' /\ ReadWindow' /\ WriteWindow' /\ Stuck'
  BY DEF ChunkSizes, ReadWindow, WriteWindow, Stuck, ReadCopy, ProgramOnly,
         Idle, rxRing, txRing, handler, program, streams
<1>. QED
  BY <1>1, <1>2, <1>3, <1>4, <1>5, <1>6, DriverTypesNext, Zenon

LEMMA ReadPublishDriver ==
  ASSUME DriverInv, ReadPublish
  PROVE  DriverInv'
<1>. USE DriverTypes, JtagUartAssumption
<1>1. Indices'
  <2>1. Plus(out, n) \in Slots
    BY PlusSlot DEF Indices, Counts
  <2>. QED
    BY <2>1 DEF Indices, ReadPublish, txRing
<1>2. /\ Buffers' /\ Fifos' /\ Enables'
  BY DEF Buffers, Fifos, Enables, ReadPublish, ProgramOnly, Idle, rxRing,
         txRing, handler, program, streams
<1>3. /\ Places' /\ Waiting' /\ Counts' /\ Accounted' /\ RoomForSpace'
  BY DEF Places, Waiting, Counts, Accounted, RoomForSpace, Owed, ReadPublish,
         ProgramOnly, Idle, rxRing, txRing, handler, program, streams
<1>4. /\ Flags' /\ Bytes'
  BY DEF Flags, Bytes, ReadPublish, ProgramOnly, Idle, rxRing, txRing,
         handler, program, streams
<1>5. /\ ChunkSizes' /\ ReadWindow' /\ WriteWindow' /\ Stuck'
  BY DEF ChunkSizes, ReadWindow, WriteWindow, Stuck, ReadPublish, ProgramOnly,
         Idle, rxRing, txRing, handler, program, streams
<1>. QED
  BY <1>1, <1>2, <1>3, <1>4, <1>5, DriverTypesNext, Zenon

LEMMA ReadSpinDriver ==
  ASSUME DriverInv, ReadSpin
  PROVE  DriverInv'
<1>. USE DriverTypes, JtagUartAssumption
<1>1. /\ Indices' /\ Buffers' /\ Fifos' /\ Enables'
  BY DEF Indices, Buffers, Fifos, Enables, ReadSpin, ProgramOnly, Idle,
         rxRing, txRing, handler, program, streams
<1>2. /\ Places' /\ Waiting' /\ Counts' /\ Accounted' /\ RoomForSpace'
  BY DEF Places, Waiting, Counts, Accounted, RoomForSpace, Owed, ReadSpin,
         ProgramOnly, Idle, rxRing, txRing, handler, program, streams
<1>3. /\ Flags' /\ Bytes'
  BY DEF Flags, Bytes, ReadSpin, ProgramOnly, Idle, rxRing, txRing, handler,
         program, streams
<1>4. /\ ChunkSizes' /\ ReadWindow' /\ WriteWindow' /\ Stuck'
  BY DEF ChunkSizes, ReadWindow, WriteWindow, Stuck, ReadSpin, ProgramOnly,
         Idle, rxRing, txRing, handler, program, streams
<1>. QED
  BY <1>1, <1>2, <1>3, <1>4, DriverTypesNext, Zenon

LEMMA ReadEndDriver ==
  ASSUME DriverInv, ReadEnd
  PROVE  DriverInv'
<1>. USE DriverTypes, JtagUartAssumption
<1>1. Indices'
  BY DEF Indices, Slots, ReadEnd, Idle, rxRing, txRing
<1>2. /\ Flags'
  BY DEF Flags, ReadEnd, Enable, Idle, ProgramOnly, rxRing, txRing, handler,
         program, streams
<1>3. /\ Bytes'
  BY DEF Bytes, ReadEnd, Enable, Idle, ProgramOnly, rxRing, txRing, handler,
         program, streams
<1>4. /\ Buffers' /\ Fifos' /\ Enables'
  BY DEF Buffers, Fifos, Enables, ReadEnd, Enable, Idle, ProgramOnly, rxRing,
         txRing, handler, program, streams
<1>5. /\ Places' /\ Waiting' /\ Counts' /\ Accounted' /\ RoomForSpace'
  BY DEF Places, Waiting, Counts, Accounted, RoomForSpace, Owed, ReadEnd,
         Enable, Idle, ProgramOnly, rxRing, txRing, handler, program, streams
<1>6. /\ ChunkSizes' /\ ReadWindow' /\ WriteWindow' /\ Stuck'
  BY DEF ChunkSizes, ReadWindow, WriteWindow, Stuck, ReadEnd, Enable, Idle,
         ProgramOnly, rxRing, txRing, handler, program, streams
<1>. QED
  BY <1>1, <1>2, <1>3, <1>4, <1>5, <1>6, DriverTypesNext, Zenon

(* The program writes. *)
LEMMA WriteSnapDriver ==
  ASSUME DriverInv, WriteSnap
  PROVE  DriverInv'
<1>. USE DriverTypes, JtagUartAssumption
<1>1. Counts'
  <2>1. n' \in 0..BUF_LEN
    BY WriteChunkTaken DEF WriteSnap, Indices, Counts
  <2>. QED
    BY <2>1 DEF Counts, WriteSnap, ProgramOnly, handler
<1>2. ChunkSizes'
  <2>1. n' \in Nat /\ n' <= left
    BY WriteChunkTaken DEF WriteSnap, Indices, Counts
  <2>. QED
    BY <2>1 DEF ChunkSizes, Counts, WriteSnap
<1>3. WriteWindow'
  <2>1. n' < BUF_LEN - Held(tx_out, tx_in) /\ tx_in + n' <= BUF_LEN
    BY WriteChunkTaken DEF WriteSnap, Indices, Counts
  <2>. QED
    BY <2>1 DEF WriteWindow, WriteSnap, rxRing, txRing
<1>4. Stuck'
  <2>1. n' \in Nat /\ (n' = 0 => Plus(tx_in, 1) = tx_out \/ left = 0)
    BY WriteChunkTaken DEF WriteSnap, Indices, Counts
  <2>. QED
    BY <2>1 DEF Stuck, WriteSnap, ChunkSizes, Counts, rxRing, txRing
<1>5. /\ Indices' /\ Buffers' /\ Fifos' /\ Enables'
  BY DEF Indices, Buffers, Fifos, Enables, WriteSnap, ProgramOnly, Idle,
         rxRing, txRing, handler, program, streams
<1>6. /\ Places' /\ Waiting' /\ Accounted' /\ RoomForSpace'
  BY DEF Places, Waiting, Accounted, RoomForSpace, Owed, WriteSnap,
         ProgramOnly, Idle, rxRing, txRing, handler, program, streams
<1>7. /\ Flags' /\ Bytes'
  BY DEF Flags, Bytes, WriteSnap, ProgramOnly, Idle, rxRing, txRing, handler,
         program, streams
<1>8. /\ ReadWindow'
  BY DEF ReadWindow, WriteSnap, ProgramOnly, Idle, rxRing, txRing, handler,
         program, streams
<1>. QED
  BY <1>1, <1>2, <1>3, <1>4, <1>5, <1>6, <1>7, <1>8, DriverTypesNext, Zenon

LEMMA WriteCopyDriver ==
  ASSUME DriverInv, WriteCopy
  PROVE  DriverInv'
<1>. USE DriverTypes, JtagUartAssumption
<1>1. Buffers'
  <2>1. /\ in \in Nat /\ n \in Nat /\ n <= left /\ left \in Nat
        /\ sent \in Nat /\ accepted \in Nat /\ sent + accepted + left <= MaxBytes
    BY DEF Accounted, Owed, Counts, ChunkSizes, WriteCopy, Indices, Slots
  <2>2. ASSUME NEW s \in in..(in + n - 1)
        PROVE  accepted + 1 + s - in \in 0..MaxBytes
    BY <2>1
  <2>. QED
    BY <2>2 DEF Buffers, WriteCopy, rxRing, Indices, Slots, Counts
<1>2. Counts'
  BY DEF Counts, ChunkSizes, WriteCopy, ProgramOnly, handler
<1>3. Accounted'
  BY DEF Accounted, Owed, Counts, ChunkSizes, WriteCopy, ProgramOnly
<1>4. WriteWindow'
  <2>1. ASSUME NEW k \in 1..n
        PROVE  tx_buf'[in + k - 1] = accepted + k
    <3>1. in + k - 1 \in Slots /\ in + k - 1 \in in..(in + n - 1)
      <4>1. in \in Slots /\ n \in 0..BUF_LEN /\ in + n <= BUF_LEN
        BY DEF WriteCopy, WriteWindow, Indices, Counts
      <4>. QED
        BY <4>1 DEF Slots
    <3>2. tx_buf'[in + k - 1] = accepted + 1 + (in + k - 1) - in
      BY <3>1 DEF WriteCopy
    <3>. QED
      BY <3>1, <3>2 DEF Counts, Indices, Slots
  <2>. QED
    BY <2>1 DEF WriteWindow, WriteCopy
<1>5. /\ Indices' /\ Fifos' /\ Enables'
  BY DEF Indices, Fifos, Enables, WriteCopy, ProgramOnly, Idle, rxRing,
         txRing, handler, program, streams
<1>6. /\ Places' /\ Waiting' /\ RoomForSpace'
  BY DEF Places, Waiting, RoomForSpace, WriteCopy, ProgramOnly, Idle, rxRing,
         txRing, handler, program, streams
<1>7. /\ Flags' /\ Bytes'
  BY DEF Flags, Bytes, WriteCopy, ProgramOnly, Idle, rxRing, txRing, handler,
         program, streams
<1>8. /\ ChunkSizes' /\ ReadWindow' /\ Stuck'
  BY DEF ChunkSizes, ReadWindow, Stuck, WriteCopy, ProgramOnly, Idle, rxRing,
         txRing, handler, program, streams
<1>. QED
  BY <1>1, <1>2, <1>3, <1>4, <1>5, <1>6, <1>7, <1>8, DriverTypesNext, Zenon

LEMMA WritePublishDriver ==
  ASSUME DriverInv, WritePublish
  PROVE  DriverInv'
<1>. USE DriverTypes, JtagUartAssumption
<1>1. Indices'
  <2>1. Plus(in, n) \in Slots
    BY PlusSlot DEF Indices, Counts
  <2>. QED
    BY <2>1 DEF Indices, WritePublish, rxRing
<1>2. Counts'
  BY DEF Accounted, Owed, Counts, ChunkSizes, WritePublish, ProgramOnly, handler
<1>3. Accounted'
  BY DEF Accounted, Owed, Counts, ChunkSizes, WritePublish, ProgramOnly
<1>4. /\ Buffers' /\ Fifos' /\ Enables'
  BY DEF Buffers, Fifos, Enables, WritePublish, ProgramOnly, Idle, rxRing,
         txRing, handler, program, streams
<1>5. /\ Places' /\ Waiting' /\ RoomForSpace'
  BY DEF Places, Waiting, RoomForSpace, WritePublish, ProgramOnly, Idle,
         rxRing, txRing, handler, program, streams
<1>6. /\ Flags' /\ Bytes'
  BY DEF Flags, Bytes, WritePublish, ProgramOnly, Idle, rxRing, txRing,
         handler, program, streams
<1>7. /\ ChunkSizes' /\ ReadWindow' /\ WriteWindow' /\ Stuck'
  BY DEF ChunkSizes, ReadWindow, WriteWindow, Stuck, WritePublish,
         ProgramOnly, Idle, rxRing, txRing, handler, program, streams
<1>. QED
  BY <1>1, <1>2, <1>3, <1>4, <1>5, <1>6, <1>7, DriverTypesNext, Zenon

LEMMA WriteEnableDriver ==
  ASSUME DriverInv, WriteEnable
  PROVE  DriverInv'
<1>. USE DriverTypes, JtagUartAssumption
<1>1. Indices'
  BY DEF Indices, Slots, WriteEnable, Idle, rxRing, txRing
<1>2. Bytes'
  <2>1. <<>> \in Seq(0..MaxBytes)
    BY EmptySeq
  <2>. QED
    BY <2>1 DEF Bytes, WriteEnable, Idle, ProgramOnly
<1>3. Accounted'
  BY DEF Accounted, Owed, Counts, WriteEnable, Idle, ProgramOnly
<1>4. /\ Buffers' /\ Fifos' /\ Enables'
  BY DEF Buffers, Fifos, Enables, WriteEnable, Enable, Idle, ProgramOnly,
         rxRing, txRing, handler, program, streams
<1>5. /\ Places' /\ Waiting' /\ Counts' /\ RoomForSpace'
  BY DEF Places, Waiting, Counts, RoomForSpace, WriteEnable, Enable, Idle,
         ProgramOnly, rxRing, txRing, handler, program, streams
<1>6. /\ Flags'
  BY DEF Flags, WriteEnable, Enable, Idle, ProgramOnly, rxRing, txRing,
         handler, program, streams
<1>7. /\ ChunkSizes' /\ ReadWindow' /\ WriteWindow' /\ Stuck'
  BY DEF ChunkSizes, ReadWindow, WriteWindow, Stuck, WriteEnable, Enable,
         Idle, ProgramOnly, rxRing, txRing, handler, program, streams
<1>. QED
  BY <1>1, <1>2, <1>3, <1>4, <1>5, <1>6, <1>7, DriverTypesNext, Zenon

LEMMA WriteSpinDriver ==
  ASSUME DriverInv, WriteSpin
  PROVE  DriverInv'
<1>. USE DriverTypes, JtagUartAssumption
<1>1. Indices'
  BY DEF Indices, Slots, WriteSpin, Idle, rxRing, txRing
<1>2. Bytes'
  <2>1. <<>> \in Seq(0..MaxBytes)
    BY EmptySeq
  <2>. QED
    BY <2>1 DEF Bytes, WriteSpin, Idle, ProgramOnly
<1>3. Accounted'
  BY DEF Accounted, Owed, Counts, WriteSpin, Idle, ProgramOnly
<1>4. /\ Buffers' /\ Fifos' /\ Enables'
  BY DEF Buffers, Fifos, Enables, WriteSpin, ProgramOnly, Idle, rxRing,
         txRing, handler, program, streams
<1>5. /\ Places' /\ Waiting' /\ Counts' /\ RoomForSpace'
  BY DEF Places, Waiting, Counts, RoomForSpace, WriteSpin, ProgramOnly, Idle,
         rxRing, txRing, handler, program, streams
<1>6. /\ Flags'
  BY DEF Flags, WriteSpin, ProgramOnly, Idle, rxRing, txRing, handler,
         program, streams
<1>7. /\ ChunkSizes' /\ ReadWindow' /\ WriteWindow' /\ Stuck'
  BY DEF ChunkSizes, ReadWindow, WriteWindow, Stuck, WriteSpin, ProgramOnly,
         Idle, rxRing, txRing, handler, program, streams
<1>. QED
  BY <1>1, <1>2, <1>3, <1>4, <1>5, <1>6, <1>7, DriverTypesNext, Zenon

(* The program closes. *)
LEMMA CloseDriver ==
  ASSUME DriverInv, Close
  PROVE  DriverInv'
<1>. USE DriverTypes, JtagUartAssumption
<1>1. Indices'
  BY DEF Indices, Slots, Close, Idle, rxRing, txRing
<1>2. /\ Flags'
  BY DEF Flags, Close, ProgramOnly, Idle, rxRing, txRing, handler, program,
         streams
<1>3. /\ Bytes'
  BY DEF Bytes, Close, ProgramOnly, Idle, rxRing, txRing, handler, program,
         streams
<1>4. /\ Buffers' /\ Fifos' /\ Enables'
  BY DEF Buffers, Fifos, Enables, Close, ProgramOnly, Idle, rxRing, txRing,
         handler, program, streams
<1>5. /\ Places' /\ Waiting' /\ Counts' /\ Accounted' /\ RoomForSpace'
  BY DEF Places, Waiting, Counts, Accounted, RoomForSpace, Owed, Close,
         ProgramOnly, Idle, rxRing, txRing, handler, program, streams
<1>6. /\ ChunkSizes' /\ ReadWindow' /\ WriteWindow' /\ Stuck'
  BY DEF ChunkSizes, ReadWindow, WriteWindow, Stuck, Close, ProgramOnly, Idle,
         rxRing, txRing, handler, program, streams
<1>. QED
  BY <1>1, <1>2, <1>3, <1>4, <1>5, <1>6, DriverTypesNext, Zenon

LEMMA ReadCallDriver ==
  ASSUME DriverInv, NEW size \in Sizes, NEW flag \in BOOLEAN, ReadCall(size, flag)
  PROVE  DriverInv'
<1>. USE DriverTypes, JtagUartAssumption
<1>1. /\ Indices' /\ Buffers' /\ Fifos' /\ Enables'
  BY DEF Indices, Buffers, Fifos, Enables, ReadCall, Call, ProgramOnly,
         rxRing, txRing, handler, program, streams
<1>2. /\ Places' /\ Waiting' /\ Counts' /\ Accounted' /\ RoomForSpace'
  BY DEF Places, Waiting, Counts, Accounted, RoomForSpace, Owed, ReadCall,
         Call, ProgramOnly, rxRing, txRing, handler, program, streams
<1>3. /\ Flags' /\ Bytes'
  BY DEF Flags, Bytes, ReadCall, Call, ProgramOnly, rxRing, txRing, handler,
         program, streams
<1>4. /\ ChunkSizes' /\ ReadWindow' /\ WriteWindow' /\ Stuck'
  BY DEF ChunkSizes, ReadWindow, WriteWindow, Stuck, ReadCall, Call,
         ProgramOnly, rxRing, txRing, handler, program, streams
<1>. QED
  BY <1>1, <1>2, <1>3, <1>4, DriverTypesNext, Zenon

LEMMA WriteCallDriver ==
  ASSUME DriverInv, NEW size \in Sizes, NEW flag \in BOOLEAN, WriteCall(size, flag)
  PROVE  DriverInv'
<1>. USE DriverTypes, JtagUartAssumption
<1>1. /\ Indices' /\ Buffers' /\ Fifos' /\ Enables'
  BY DEF Indices, Buffers, Fifos, Enables, WriteCall, Call, ProgramOnly,
         rxRing, txRing, handler, program, streams
<1>2. /\ Places' /\ Waiting' /\ Counts' /\ Accounted' /\ RoomForSpace'
  BY DEF Places, Waiting, Counts, Accounted, RoomForSpace, Owed, WriteCall,
         Call, ProgramOnly, rxRing, txRing, handler, program, streams
<1>3. /\ Flags' /\ Bytes'
  BY DEF Flags, Bytes, WriteCall, Call, ProgramOnly, rxRing, txRing, handler,
         program, streams
<1>4. /\ ChunkSizes' /\ ReadWindow' /\ WriteWindow' /\ Stuck'
  BY DEF ChunkSizes, ReadWindow, WriteWindow, Stuck, WriteCall, Call,
         ProgramOnly, rxRing, txRing, handler, program, streams
<1>. QED
  BY <1>1, <1>2, <1>3, <1>4, DriverTypesNext, Zenon

LEMMA CloseCallDriver ==
  ASSUME DriverInv, NEW flag \in BOOLEAN, CloseCall(flag)
  PROVE  DriverInv'
<1>. USE DriverTypes, JtagUartAssumption
<1>1. /\ Indices' /\ Buffers' /\ Fifos' /\ Enables'
  BY DEF Indices, Buffers, Fifos, Enables, CloseCall, Call, ProgramOnly,
         rxRing, txRing, handler, program, streams
<1>2. /\ Places' /\ Waiting' /\ Counts' /\ Accounted' /\ RoomForSpace'
  BY DEF Places, Waiting, Counts, Accounted, RoomForSpace, Owed, CloseCall,
         Call, ProgramOnly, rxRing, txRing, handler, program, streams
<1>3. /\ Flags' /\ Bytes'
  BY DEF Flags, Bytes, CloseCall, Call, ProgramOnly, rxRing, txRing, handler,
         program, streams
<1>4. /\ ChunkSizes' /\ ReadWindow' /\ WriteWindow' /\ Stuck'
  BY DEF ChunkSizes, ReadWindow, WriteWindow, Stuck, CloseCall, Call,
         ProgramOnly, rxRing, txRing, handler, program, streams
<1>. QED
  BY <1>1, <1>2, <1>3, <1>4, DriverTypesNext, Zenon

LEMMA SetTimeoutDriver ==
  ASSUME DriverInv, NEW arg \in Timeouts, SetTimeout(arg)
  PROVE  DriverInv'
<1>. USE DriverTypes, JtagUartAssumption
<1>1. /\ Indices' /\ Buffers' /\ Fifos' /\ Enables'
  BY DEF Indices, Buffers, Fifos, Enables, SetTimeout, rxRing, txRing,
         handler, program, streams
<1>2. /\ Places' /\ Waiting' /\ Counts' /\ Accounted' /\ RoomForSpace'
  BY DEF Places, Waiting, Counts, Accounted, RoomForSpace, Owed, SetTimeout,
         rxRing, txRing, handler, program, streams
<1>3. /\ Flags' /\ Bytes'
  BY DEF Flags, Bytes, SetTimeout, rxRing, txRing, handler, program, streams
<1>4. /\ ChunkSizes' /\ ReadWindow' /\ WriteWindow' /\ Stuck'
  BY DEF ChunkSizes, ReadWindow, WriteWindow, Stuck, SetTimeout, rxRing,
         txRing, handler, program, streams
<1>. QED
  BY <1>1, <1>2, <1>3, <1>4, DriverTypesNext, Zenon

(* The host. *)
LEMMA HostSendDriver ==
  ASSUME DriverInv, HostSend
  PROVE  DriverInv'
<1>. USE DriverTypes, JtagUartAssumption
<1>0. /\ rx_fifo' \in Seq(1..MaxBytes) /\ Len(rx_fifo') <= RX_DEPTH
      /\ sent' \in 0..MaxBytes /\ sent' + accepted + Owed <= MaxBytes
      /\ ac' \in BOOLEAN
  BY ArrivesFits DEF HostSend
<1>1. Fifos'
  BY <1>0 DEF Fifos, HostSend
<1>2. Counts'
  BY <1>0 DEF HostSend, Counts, DeviceOnly, handler, program
<1>3. Accounted'
  BY <1>0 DEF Accounted, Owed, HostSend, DeviceOnly, program
<1>4. /\ Indices' /\ Buffers' /\ Enables'
  BY DEF Indices, Buffers, Enables, HostSend, DeviceOnly, rxRing, txRing,
         handler, program, streams
<1>5. /\ Places' /\ Waiting' /\ RoomForSpace'
  BY DEF Places, Waiting, RoomForSpace, HostSend, DeviceOnly, rxRing, txRing,
         handler, program, streams
<1>6. /\ Flags' /\ Bytes'
  BY <1>0 DEF Flags, Bytes, HostSend, DeviceOnly, rxRing, txRing, handler, program,
         streams
<1>7. /\ ChunkSizes' /\ ReadWindow' /\ WriteWindow' /\ Stuck'
  BY DEF ChunkSizes, ReadWindow, WriteWindow, Stuck, HostSend, DeviceOnly,
         rxRing, txRing, handler, program, streams
<1>. QED
  BY <1>1, <1>2, <1>3, <1>4, <1>5, <1>6, <1>7, DriverTypesNext, Zenon

LEMMA HostTakeDriver ==
  ASSUME DriverInv, HostTake
  PROVE  DriverInv'
<1>. USE DriverTypes, JtagUartAssumption
<1>1. Bytes'
  <2>1. taken' \in Seq(0..MaxBytes)
    BY HeadFirst, AppendProperties DEF HostTake, Bytes, Fifos
  <2>. QED
    BY <2>1 DEF Bytes, HostTake, DeviceOnly, program
<1>2. RoomForSpace'
  <2>1. Len(tx_fifo') = Len(tx_fifo) - 1
    BY HeadFirst, FifoLengths DEF HostTake, Fifos
  <2>. QED
    BY <2>1, FifoLengths DEF RoomForSpace, Counts, HostTake, DeviceOnly, handler
<1>3. /\ Indices' /\ Buffers'
  BY DEF Indices, Buffers, HostTake, DeviceOnly, rxRing, txRing, handler,
         program, streams
<1>4. /\ Fifos'
  BY DEF Fifos, HostTake, DeviceOnly, rxRing, txRing, handler, program,
         streams
<1>5. /\ Enables'
  BY DEF Enables, HostTake, DeviceOnly, rxRing, txRing, handler, program,
         streams
<1>6. /\ Places' /\ Waiting' /\ Counts' /\ Accounted'
  BY DEF Places, Waiting, Counts, Accounted, Owed, HostTake, DeviceOnly,
         rxRing, txRing, handler, program, streams
<1>7. /\ Flags'
  BY DEF Flags, HostTake, DeviceOnly, rxRing, txRing, handler, program,
         streams
<1>8. /\ ChunkSizes' /\ ReadWindow' /\ WriteWindow' /\ Stuck'
  BY DEF ChunkSizes, ReadWindow, WriteWindow, Stuck, HostTake, DeviceOnly,
         rxRing, txRing, handler, program, streams
<1>. QED
  BY <1>1, <1>2, <1>3, <1>4, <1>5, <1>6, <1>7, <1>8, DriverTypesNext, Zenon

LEMMA HostPauseDriver ==
  ASSUME DriverInv, HostPause
  PROVE  DriverInv'
<1>. USE DriverTypes, JtagUartAssumption
<1>1. /\ Indices' /\ Buffers' /\ Fifos' /\ Enables'
  BY DEF Indices, Buffers, Fifos, Enables, HostPause, DeviceOnly, rxRing,
         txRing, handler, program, streams
<1>2. /\ Places' /\ Waiting' /\ Counts' /\ Accounted' /\ RoomForSpace'
  BY DEF Places, Waiting, Counts, Accounted, RoomForSpace, Owed, HostPause,
         DeviceOnly, rxRing, txRing, handler, program, streams
<1>3. /\ Flags' /\ Bytes'
  BY DEF Flags, Bytes, HostPause, DeviceOnly, rxRing, txRing, handler, program,
         streams
<1>4. /\ ChunkSizes' /\ ReadWindow' /\ WriteWindow' /\ Stuck'
  BY DEF ChunkSizes, ReadWindow, WriteWindow, Stuck, HostPause, DeviceOnly,
         rxRing, txRing, handler, program, streams
<1>. QED
  BY <1>1, <1>2, <1>3, <1>4, DriverTypesNext, Zenon

LEMMA HostPlugDriver ==
  ASSUME DriverInv, HostPlug
  PROVE  DriverInv'
<1>. USE DriverTypes, JtagUartAssumption
<1>1. /\ Indices' /\ Buffers' /\ Fifos' /\ Enables'
  BY DEF Indices, Buffers, Fifos, Enables, HostPlug, DeviceOnly, rxRing,
         txRing, handler, program, streams
<1>2. /\ Places' /\ Waiting' /\ Counts' /\ Accounted' /\ RoomForSpace'
  BY DEF Places, Waiting, Counts, Accounted, RoomForSpace, Owed, HostPlug,
         DeviceOnly, rxRing, txRing, handler, program, streams
<1>3. /\ Flags' /\ Bytes'
  BY DEF Flags, Bytes, HostPlug, DeviceOnly, rxRing, txRing, handler, program,
         streams
<1>4. /\ ChunkSizes' /\ ReadWindow' /\ WriteWindow' /\ Stuck'
  BY DEF ChunkSizes, ReadWindow, WriteWindow, Stuck, HostPlug, DeviceOnly,
         rxRing, txRing, handler, program, streams
<1>. QED
  BY <1>1, <1>2, <1>3, <1>4, DriverTypesNext, Zenon

LEMMA UnchangedDriver ==
  ASSUME DriverInv, UNCHANGED vars
  PROVE  DriverInv'
<1>. USE DriverTypes, JtagUartAssumption
<1>1. /\ Indices' /\ Buffers' /\ Fifos' /\ Enables'
  BY DEF Indices, Buffers, Fifos, Enables, vars, rxRing, txRing, handler,
         program, streams
<1>2. /\ Places' /\ Waiting' /\ Counts' /\ Accounted' /\ RoomForSpace'
  BY DEF Places, Waiting, Counts, Accounted, RoomForSpace, Owed, vars, rxRing,
         txRing, handler, program, streams
<1>3. /\ Flags' /\ Bytes'
  BY DEF Flags, Bytes, vars, rxRing, txRing, handler, program, streams
<1>4. /\ ChunkSizes' /\ ReadWindow' /\ WriteWindow' /\ Stuck'
  BY DEF ChunkSizes, ReadWindow, WriteWindow, Stuck, vars, rxRing, txRing,
         handler, program, streams
<1>. QED
  BY <1>1, <1>2, <1>3, <1>4, DriverTypesNext, Zenon

(* Every step keeps the invariant. *)
LEMMA DriverNext ==
  ASSUME DriverInv, [Next]_vars
  PROVE  DriverInv'
<1>1. CASE Handler
  BY <1>1, InterruptDriver, ReadControlDriver, ReceiveDriver, ReceiveNothingDriver,
     ReceiveFullDriver, TransmitDriver, TransmitEndDriver DEF Handler
<1>2. CASE Timeout
  BY <1>2, TimeoutDriver
<1>3. CASE Step
  BY <1>3, ReadSnapDriver, ReadCopyDriver, ReadPublishDriver, ReadSpinDriver,
     ReadEndDriver, WriteSnapDriver, WriteCopyDriver, WritePublishDriver,
     WriteEnableDriver, WriteSpinDriver, CloseDriver DEF Step
<1>4. CASE Request
  BY <1>4, ReadCallDriver, WriteCallDriver, CloseCallDriver, SetTimeoutDriver
     DEF Request
<1>5. CASE HostSend \/ HostTake \/ HostPause \/ HostPlug
  BY <1>5, HostSendDriver, HostTakeDriver, HostPauseDriver, HostPlugDriver
<1>6. CASE UNCHANGED vars
  BY <1>6, UnchangedDriver
<1>. QED
  BY <1>1, <1>2, <1>3, <1>4, <1>5, <1>6 DEF Next

LEMMA DriverInvHolds == Spec => []DriverInv
<1>1. Init => DriverInv
  BY DriverInit
<1>2. DriverInv /\ [Next]_vars => DriverInv'
  BY DriverNext
<1>. QED
  BY <1>1, <1>2, PTL DEF Spec

-----------------------------------------------------------------------------
(* What is under way in each direction. *)
Incoming == Contents(rx_buf, rx_out, rx_in) \o rx_fifo
Outgoing == tx_fifo \o Contents(tx_buf, tx_out, tx_in)

LEMMA UnderWay ==
  ASSUME DriverInv
  PROVE  /\ Contents(rx_buf, rx_out, rx_in) \in Seq(0..MaxBytes)
         /\ Contents(tx_buf, tx_out, tx_in) \in Seq(0..MaxBytes)
         /\ rx_fifo \in Seq(0..MaxBytes) /\ tx_fifo \in Seq(0..MaxBytes)
         /\ Incoming \in Seq(0..MaxBytes) /\ Outgoing \in Seq(0..MaxBytes)
         /\ Len(Incoming) = Held(rx_out, rx_in) + Len(rx_fifo)
         /\ Len(Outgoing) = Held(tx_out, tx_in) + Len(tx_fifo)
<1>1. /\ IsContents(0..MaxBytes, rx_buf, rx_out, rx_in)
      /\ IsContents(0..MaxBytes, tx_buf, tx_out, tx_in)
  BY DriverTypes, ContentsListed DEF Indices, Buffers
<1>2. 1..MaxBytes \subseteq 0..MaxBytes
  BY JtagUartAssumption
<1>3. rx_fifo \in Seq(0..MaxBytes) /\ tx_fifo \in Seq(0..MaxBytes)
  BY <1>2, DriverTypes, SeqMonotonic DEF Fifos
<1>4. /\ Contents(rx_buf, rx_out, rx_in) \in Seq(0..MaxBytes)
      /\ Contents(tx_buf, tx_out, tx_in) \in Seq(0..MaxBytes)
      /\ Len(Contents(rx_buf, rx_out, rx_in)) = Held(rx_out, rx_in)
      /\ Len(Contents(tx_buf, tx_out, tx_in)) = Held(tx_out, tx_in)
  BY <1>1 DEF IsContents
<1>5. /\ Incoming \in Seq(0..MaxBytes)
      /\ Len(Incoming) = Held(rx_out, rx_in) + Len(rx_fifo)
  BY <1>3, <1>4, ConcatProperties DEF Incoming
<1>6. /\ Outgoing \in Seq(0..MaxBytes)
      /\ Len(Outgoing) = Held(tx_out, tx_in) + Len(tx_fifo)
  BY <1>3, <1>4, ConcatProperties, Z3 DEF Outgoing
<1>. QED
  BY <1>3, <1>4, <1>5, <1>6

(* The handler takes a byte from the device: it changes its place only. *)
LEMMA ReceiveMoves ==
  ASSUME DriverInv, DriverInv', Receive
  PROVE  Incoming' = Incoming
<1> DEFINE V == 0..MaxBytes
           C == Contents(rx_buf, rx_out, rx_in)
           h == Head(rx_fifo)
<1>1. /\ rx_out' = rx_out /\ rx_in' = Plus(rx_in, 1) /\ rx_fifo' = Tail(rx_fifo)
      /\ rx_buf' = [rx_buf EXCEPT ![rx_in] = h] /\ Plus(rx_in, 1) # rx_out
  BY DEF Receive
<1>2. /\ rx_out \in Slots /\ rx_in \in Slots
      /\ rx_buf \in [Slots -> V] /\ rx_buf' \in [Slots -> V]
  BY DriverTypes, DriverTypesNext DEF Indices, Buffers
<1>3. /\ h \in V /\ Tail(rx_fifo) \in Seq(V) /\ <<h>> \in Seq(V)
      /\ rx_fifo = <<h>> \o Tail(rx_fifo)
  BY UnderWay, HeadFirst DEF Receive
<1>4. Contents(rx_buf', rx_out, rx_in) = C
  <2>1. ASSUME NEW k \in 1..Held(rx_out, rx_in)
        PROVE  rx_buf'[Plus(rx_out, k - 1)] = rx_buf[Plus(rx_out, k - 1)]
    <3>1. Held(rx_out, rx_in) \in Nat /\ Held(rx_out, rx_in) < BUF_LEN
      BY <1>2, HeldBounds, JtagUartAssumption
    <3>2. k - 1 \in Nat /\ k - 1 < Held(rx_out, rx_in) /\ 0 < BUF_LEN - Held(rx_out, rx_in)
      BY <3>1, JtagUartAssumption
    <3>3. Plus(rx_out, k - 1) # Plus(rx_in, 0)
      BY <1>2, <3>2, FreeNotHeld
    <3>4. Plus(rx_in, 0) = rx_in
      BY <1>2, PlusNothing
    <3>. QED
      BY <1>1, <1>2, <3>3, <3>4
  <2>. QED
    BY <1>2, <2>1, ContentsKept
<1>5. rx_buf'[rx_in] = h
  BY <1>1, <1>2
<1>6. Contents(rx_buf', rx_out, rx_in') = C \o <<h>>
  BY <1>1, <1>2, <1>4, <1>5, GrowByOne
<1>7. C \in Seq(V)
  BY UnderWay
<1>8. (C \o <<h>>) \o Tail(rx_fifo) = C \o (<<h>> \o Tail(rx_fifo))
  <2>1. <<h>> \in Seq(V) /\ Tail(rx_fifo) \in Seq(V)
    BY <1>3
  <2>. QED
    BY <1>7, <2>1, ConcatAssociative
<1>. QED
  BY <1>1, <1>3, <1>6, <1>8 DEF Incoming

(* The handler gives a byte to the device. *)
LEMMA TransmitMoves ==
  ASSUME DriverInv, DriverInv', Transmit
  PROVE  Outgoing' = Outgoing
<1> DEFINE V == 0..MaxBytes
           b == tx_buf[tx_out]
           C == Contents(tx_buf, tx_out', tx_in)
<1>1. /\ tx_out' = Plus(tx_out, 1) /\ tx_in' = tx_in /\ tx_buf' = tx_buf
      /\ tx_fifo' = Append(tx_fifo, b) /\ tx_out # tx_in
  BY DEF Transmit
<1>2. tx_out \in Slots /\ tx_in \in Slots /\ tx_out' \in Slots /\ tx_buf \in [Slots -> V]
  BY DriverTypes, DriverTypesNext DEF Indices, Buffers
<1>3. b \in V /\ tx_fifo \in Seq(V) /\ <<b>> \in Seq(V)
  BY <1>2, UnderWay
<1>6. Contents(tx_buf, tx_out, tx_in) = <<b>> \o C
  BY <1>1, <1>2, ShrinkByOne
<1>7. C \in Seq(V)
  BY <1>2, ContentsListed DEF IsContents
<1>8. (tx_fifo \o <<b>>) \o C = tx_fifo \o (<<b>> \o C)
  BY <1>3, <1>7, ConcatAssociative
<1>9. tx_fifo' = tx_fifo \o <<b>>
  BY <1>1, <1>3, AppendIsConcat
<1>. QED
  BY <1>1, <1>6, <1>8, <1>9 DEF Outgoing

(* The program copies into the room: nothing is under way that was not. *)
LEMMA WriteCopyHides ==
  ASSUME DriverInv, WriteCopy
  PROVE  Outgoing' = Outgoing
<1>1. /\ tx_in' = tx_in /\ tx_out' = tx_out /\ tx_fifo' = tx_fifo
      /\ tx_buf' = [s \in Slots |-> IF s \in in..(in + n - 1)
                                    THEN accepted + 1 + s - in ELSE tx_buf[s]]
  BY DEF WriteCopy, ProgramOnly
<1>2. /\ tx_out \in Slots /\ tx_in \in Slots /\ in = tx_in /\ n \in 0..BUF_LEN
      /\ n < BUF_LEN - Held(tx_out, tx_in) /\ in + n <= BUF_LEN
  BY DriverTypes DEF WriteCopy, WriteWindow, Indices, Counts
<1>3. Held(tx_out, tx_in) \in Nat /\ Held(tx_out, tx_in) < BUF_LEN
  BY <1>2, HeldBounds, JtagUartAssumption
<1>4. ASSUME NEW k \in 1..Held(tx_out, tx_in)
      PROVE  tx_buf'[Plus(tx_out, k - 1)] = tx_buf[Plus(tx_out, k - 1)]
  <2>1. k - 1 \in Nat /\ k - 1 < Held(tx_out, tx_in) /\ k - 1 \in 0..BUF_LEN
    BY <1>3, JtagUartAssumption
  <2>2. Plus(tx_out, k - 1) \in Slots
    BY <1>2, <2>1, PlusSlot
  <2>3. Plus(tx_out, k - 1) \notin in..(in + n - 1)
    <3>1. SUFFICES ASSUME NEW j \in 0..(n - 1), Plus(tx_out, k - 1) = in + j
                   PROVE  FALSE
      BY <1>2, <2>2 DEF Slots
    <3>2. n \in Nat /\ BUF_LEN \in Nat /\ tx_in \in Nat
      BY <1>2, JtagUartAssumption DEF Slots
    <3>3. j \in Nat /\ j < BUF_LEN - Held(tx_out, tx_in) /\ tx_in + j < BUF_LEN
      BY <1>2, <1>3, <3>2
    <3>4. Plus(tx_in, j) = in + j
      BY <1>2, <3>3, PlusFar
    <3>. QED
      BY <1>2, <2>1, <3>1, <3>3, <3>4, FreeNotHeld
  <2>. QED
    BY <1>1, <2>2, <2>3
<1>5. Contents(tx_buf', tx_out, tx_in) = Contents(tx_buf, tx_out, tx_in)
  BY <1>2, <1>4, ContentsKept
<1>. QED
  BY <1>1, <1>5 DEF Outgoing

(* A byte of the host arrives. *)
LEMMA ArrivesPuts ==
  ASSUME DriverInv, Arrives, UNCHANGED <<rx_buf, rx_out, rx_in, got>>
  PROVE  Receiver!Put(1)
<1> DEFINE V == 0..MaxBytes
           C == Contents(rx_buf, rx_out, rx_in)
<1>1. /\ UNCHANGED <<rx_buf, rx_out, rx_in, got>> /\ sent' = sent + 1
      /\ rx_fifo' = Append(rx_fifo, sent + 1) /\ Len(rx_fifo) < RX_DEPTH
  BY DEF Arrives
<1>2. sent + 1 \in V
  BY Claims DEF Arrives
<1>3. <<sent + 1>> \in Seq(V) /\ rx_fifo \in Seq(V) /\ C \in Seq(V)
  BY <1>2, UnderWay
<1>4. rx_fifo' = rx_fifo \o <<sent + 1>>
  BY <1>1, <1>2, <1>3, AppendIsConcat
<1>5. C \o (rx_fifo \o <<sent + 1>>) = (C \o rx_fifo) \o <<sent + 1>>
  BY <1>3, ConcatAssociative
<1>6. [i \in 1..1 |-> sent + i] = <<sent + 1>>
  BY <1>2, OneByOne
<1>7. Incoming' = Incoming \o [i \in 1..1 |-> sent + i]
  BY <1>1, <1>4, <1>5, <1>6 DEF Incoming
<1>8. Len(Incoming) + 1 <= BUF_LEN - 1 + RX_DEPTH
  <2>1. Len(Incoming) = Held(rx_out, rx_in) + Len(rx_fifo)
    BY UnderWay
  <2>2. Held(rx_out, rx_in) \in 0..(BUF_LEN - 1)
    BY HeldBounds, DriverTypes DEF Indices
  <2>. QED
    BY <1>1, <2>1, <2>2, FifoLengths, JtagUartAssumption
<1>. QED
  BY <1>1, <1>7, <1>8 DEF Receiver!Put, Incoming

(* Read publishes what it copied. *)
LEMMA ReadPublishGets ==
  ASSUME DriverInv, DriverInv', ReadPublish
  PROVE  n \in 1..BUF_LEN /\ Receiver!Get(n)
<1> DEFINE V == 0..MaxBytes
           C == Contents(rx_buf, rx_out', rx_in)
<1>1. /\ UNCHANGED <<rx_buf, rx_in, rx_fifo, sent>> /\ rx_out' = Plus(rx_out, n)
      /\ got' = got \o chunk
  BY DriverTypes DEF ReadPublish, ProgramOnly, ReadWindow
<1>2. /\ rx_out \in Slots /\ rx_in \in Slots /\ rx_buf \in [Slots -> V]
      /\ n \in Nat /\ n > 0 /\ n <= BUF_LEN /\ n <= Held(rx_out, rx_in)
      /\ out = rx_out /\ out + n <= BUF_LEN
  BY DriverTypes DEF ReadPublish, Indices, Buffers, Counts, ChunkSizes, ReadWindow
<1>. /\ rx_out' \in Slots /\ n \in 1..BUF_LEN
  BY <1>2, DriverTypesNext, JtagUartAssumption DEF Indices
<1>3. [k \in 1..n |-> rx_buf[Plus(rx_out, k - 1)]] = chunk
  <2>1. ASSUME NEW k \in 1..n
        PROVE  Plus(rx_out, k - 1) = out + k - 1
    <3>1. k - 1 \in Nat /\ rx_out + (k - 1) < BUF_LEN /\ rx_out \in Nat
      BY <1>2, JtagUartAssumption DEF Slots
    <3>. QED
      BY <1>2, <3>1, PlusFar
  <2>. QED
    BY <2>1, DriverTypes DEF ReadPublish, ReadWindow
<1>4. /\ chunk \in Seq(V) /\ Len(chunk) = n
      /\ Contents(rx_buf, rx_out, rx_in) = chunk \o C
  <2>1. Shrinks(V, rx_buf, rx_out, rx_in, n)
    BY <1>2, ContentsShrink
  <2>. QED
    BY <1>1, <1>3, <2>1 DEF Shrinks
<1>5. C \in Seq(V) /\ rx_fifo \in Seq(V)
  BY <1>2, UnderWay, ContentsListed DEF IsContents
<1>6. C \o rx_fifo \in Seq(V)
  BY <1>5, ConcatProperties
<1>7. Incoming = chunk \o (C \o rx_fifo)
  BY <1>4, <1>5, ConcatAssociative DEF Incoming
<1>8. /\ SubSeq(Incoming, 1, n) = chunk
      /\ SubSeq(Incoming, n + 1, Len(Incoming)) = C \o rx_fifo
  BY <1>4, <1>6, <1>7, FrontTaken
<1>9. Incoming' = C \o rx_fifo
  BY <1>1 DEF Incoming
<1>10. n <= Len(Incoming)
  <2>1. Len(Incoming) = Held(rx_out, rx_in) + Len(rx_fifo)
    BY UnderWay
  <2>2. Held(rx_out, rx_in) \in Nat
    BY <1>2, HeldBounds
  <2>. QED
    BY <1>2, <2>1, <2>2, FifoLengths
<1>. QED
  BY <1>1, <1>2, <1>8, <1>9, <1>10 DEF Receiver!Get, Incoming

(* Write publishes what it copied. *)
LEMMA WritePublishPuts ==
  ASSUME DriverInv, WritePublish
  PROVE  n \in 1..BUF_LEN /\ Transmitter!Put(n)
<1> DEFINE V == 0..MaxBytes
           C == Contents(tx_buf, tx_out, tx_in)
           N == [i \in 1..n |-> accepted + i]
<1>1. /\ UNCHANGED <<tx_buf, tx_out, tx_fifo, taken>> /\ tx_in' = Plus(tx_in, n)
      /\ accepted' = accepted + n
  BY DriverTypes DEF WritePublish, ProgramOnly, WriteWindow
<1>2. /\ tx_out \in Slots /\ tx_in \in Slots /\ tx_buf \in [Slots -> V]
      /\ n \in Nat /\ n > 0 /\ n <= BUF_LEN /\ n < BUF_LEN - Held(tx_out, tx_in)
      /\ in = tx_in /\ in + n <= BUF_LEN
      /\ \A k \in 1..n : tx_buf[in + k - 1] = accepted + k
  BY DriverTypes DEF WritePublish, Indices, Buffers, Counts, ChunkSizes, WriteWindow
<1>. n \in 1..BUF_LEN
  BY <1>2, JtagUartAssumption
<1>3. [k \in 1..n |-> tx_buf[Plus(tx_in, k - 1)]] = N
  <2>1. ASSUME NEW k \in 1..n
        PROVE  Plus(tx_in, k - 1) = in + k - 1
    <3>1. k - 1 \in Nat /\ tx_in + (k - 1) < BUF_LEN /\ tx_in \in Nat
      BY <1>2, JtagUartAssumption DEF Slots
    <3>. QED
      BY <1>2, <3>1, PlusFar
  <2>. QED
    BY <1>2, <2>1
<1>4. N \in Seq(V) /\ Contents(tx_buf, tx_out, tx_in') = C \o N
  <2>1. Grows(V, tx_buf, tx_out, tx_in, n)
    BY <1>2, ContentsGrow
  <2>. QED
    BY <1>1, <1>3, <2>1 DEF Grows
<1>5. C \in Seq(V) /\ tx_fifo \in Seq(V)
  BY UnderWay
<1>6. Outgoing' = Outgoing \o N
  <2>1. \A s, t, u \in Seq(V) : s \o (t \o u) = (s \o t) \o u
    BY ConcatAssociative
  <2>. HIDE DEF C, V, N
  <2>2. tx_fifo \o (C \o N) = (tx_fifo \o C) \o N
    BY <1>4, <1>5, <2>1
  <2>. QED
    BY <1>1, <1>4, <2>2 DEF C, Outgoing
<1>7. Len(Outgoing) + n <= BUF_LEN - 1 + TX_DEPTH
  <2>1. Len(Outgoing) = Held(tx_out, tx_in) + Len(tx_fifo)
    BY UnderWay
  <2>2. Held(tx_out, tx_in) \in Nat
    BY <1>2, HeldBounds
  <2>. QED
    BY <1>2, <2>1, <2>2, FifoLengths, JtagUartAssumption
<1>. QED
  BY <1>1, <1>2, <1>6, <1>7 DEF Transmitter!Put, Outgoing

(* The host takes a byte. *)
LEMMA HostTakeGets ==
  ASSUME DriverInv, HostTake
  PROVE  Transmitter!Get(1)
<1> DEFINE V == 0..MaxBytes
           C == Contents(tx_buf, tx_out, tx_in)
           h == Head(tx_fifo)
<1>1. /\ UNCHANGED <<tx_buf, tx_out, tx_in, accepted>> /\ tx_fifo # <<>>
      /\ taken' = Append(taken, h) /\ tx_fifo' = Tail(tx_fifo)
  BY DEF HostTake, DeviceOnly, txRing
<1>2. tx_fifo \in Seq(V) /\ C \in Seq(V) /\ taken \in Seq(V)
  BY UnderWay, DriverTypes DEF Bytes
<1>3. /\ h \in V /\ Tail(tx_fifo) \in Seq(V) /\ <<h>> \in Seq(V) /\ Len(<<h>>) = 1
      /\ tx_fifo = <<h>> \o Tail(tx_fifo)
  BY <1>1, <1>2, HeadFirst
<1>4. Tail(tx_fifo) \o C \in Seq(V)
  BY <1>2, <1>3, ConcatProperties
<1>5. Outgoing = <<h>> \o (Tail(tx_fifo) \o C)
  BY <1>2, <1>3, ConcatAssociative DEF Outgoing
<1>6. /\ SubSeq(Outgoing, 1, 1) = <<h>>
      /\ SubSeq(Outgoing, 1 + 1, Len(Outgoing)) = Tail(tx_fifo) \o C
  BY <1>3, <1>4, <1>5, FrontTaken
<1>7. Outgoing' = Tail(tx_fifo) \o C
  BY <1>1 DEF Outgoing
<1>8. taken' = taken \o <<h>>
  BY <1>1, <1>2, <1>3, AppendIsConcat
<1>9. 1 <= Len(Outgoing)
  <2>1. Len(Outgoing) = Held(tx_out, tx_in) + Len(tx_fifo)
    BY UnderWay
  <2>2. Held(tx_out, tx_in) \in Nat
    BY HeldBounds, DriverTypes DEF Indices
  <2>3. Len(tx_fifo) = 1 + Len(Tail(tx_fifo)) /\ Len(Tail(tx_fifo)) \in Nat
    BY <1>1, <1>2, HeadFirst, LenProperties
  <2>. QED
    BY <2>1, <2>2, <2>3
<1>. QED
  BY <1>1, <1>6, <1>7, <1>8, <1>9 DEF Transmitter!Get, Outgoing

(* Every step is a step of each channel, or leaves it as it is. *)
LEMMA ReceiverStep ==
  ASSUME DriverInv, DriverInv', [Next]_vars
  PROVE  [Receiver!Next]_(Receiver!vars)
<1>1. CASE HostSend
  <2>1. Arrives /\ UNCHANGED <<rx_buf, rx_out, rx_in, got>>
    BY <1>1 DEF HostSend, DeviceOnly, rxRing
  <2>. QED
    BY <2>1, ArrivesPuts, JtagUartAssumption DEF Receiver!Next
<1>2. CASE ReadPublish
  BY <1>2, ReadPublishGets DEF Receiver!Next
<1>3. CASE Receive
  <2>1. UNCHANGED <<sent, got>>
    BY <1>3 DEF Receive, streams
  <2>. QED
    BY <1>3, <2>1, ReceiveMoves DEF Receiver!vars, Incoming
<1>4. CASE ReceiveNothing
  <2>1. UNCHANGED <<rx_buf, rx_out, rx_in, got>>
    BY <1>4 DEF ReceiveNothing, rxRing
  <2>2. CASE Arrives
    BY <2>1, <2>2, ArrivesPuts, JtagUartAssumption DEF Receiver!Next
  <2>3. CASE UNCHANGED <<rx_fifo, ac, sent>>
    BY <2>1, <2>3 DEF Receiver!vars
  <2>. QED
    BY <1>4, <2>2, <2>3 DEF ReceiveNothing
<1>5. CASE ~(HostSend \/ ReadPublish \/ Receive \/ ReceiveNothing)
  <2>1. UNCHANGED <<rx_buf, rx_out, rx_in, rx_fifo, sent, got>>
    <3>. USE DEF rxRing, streams
    <3>1. CASE Handler
      BY <1>5, <3>1 DEF Handler, Interrupt, ReadControl, ReceiveFull, Transmit, TransmitEnd
    <3>2. CASE Timeout
      BY <3>2 DEF Timeout
    <3>3. CASE Step
      BY <1>5, <3>3 DEF Step, ReadSnap, ReadCopy, ReadSpin, ReadEnd, WriteSnap,
         WriteCopy, WritePublish, WriteEnable, WriteSpin, Close, ProgramOnly
    <3>4. CASE Request
      BY <3>4 DEF Request, ReadCall, WriteCall, CloseCall, Call, SetTimeout, ProgramOnly
    <3>5. CASE HostTake \/ HostPause \/ HostPlug
      BY <3>5 DEF HostTake, HostPause, HostPlug, DeviceOnly
    <3>6. CASE UNCHANGED vars
      BY <3>6 DEF vars
    <3>. QED
      BY <1>5, <3>1, <3>2, <3>3, <3>4, <3>5, <3>6 DEF Next
  <2>. QED
    BY <2>1 DEF Receiver!vars
<1>. QED
  BY <1>1, <1>2, <1>3, <1>4, <1>5

LEMMA TransmitterStep ==
  ASSUME DriverInv, DriverInv', [Next]_vars
  PROVE  [Transmitter!Next]_(Transmitter!vars)
<1>1. CASE HostTake
  BY <1>1, HostTakeGets, JtagUartAssumption DEF Transmitter!Next
<1>2. CASE WritePublish
  BY <1>2, WritePublishPuts DEF Transmitter!Next
<1>3. CASE Transmit
  <2>1. UNCHANGED <<accepted, taken>>
    BY <1>3 DEF Transmit, streams
  <2>. QED
    BY <1>3, <2>1, TransmitMoves DEF Transmitter!vars, Outgoing
<1>4. CASE WriteCopy
  <2>1. UNCHANGED <<accepted, taken>>
    BY <1>4 DEF WriteCopy, ProgramOnly
  <2>. QED
    BY <1>4, <2>1, WriteCopyHides DEF Transmitter!vars, Outgoing
<1>5. CASE ~(HostTake \/ WritePublish \/ Transmit \/ WriteCopy)
  <2>1. UNCHANGED <<tx_buf, tx_out, tx_in, tx_fifo, accepted, taken>>
    <3>. USE DEF txRing, streams
    <3>1. CASE Handler
      BY <1>5, <3>1 DEF Handler, Interrupt, ReadControl, Receive, ReceiveNothing,
         ReceiveFull, TransmitEnd
    <3>2. CASE Timeout
      BY <3>2 DEF Timeout
    <3>3. CASE Step
      BY <1>5, <3>3 DEF Step, ReadSnap, ReadCopy, ReadPublish, ReadSpin, ReadEnd,
         WriteSnap, WriteEnable, WriteSpin, Close, ProgramOnly
    <3>4. CASE Request
      BY <3>4 DEF Request, ReadCall, WriteCall, CloseCall, Call, SetTimeout, ProgramOnly
    <3>5. CASE HostSend \/ HostPause \/ HostPlug
      BY <3>5 DEF HostSend, HostPause, HostPlug, DeviceOnly
    <3>6. CASE UNCHANGED vars
      BY <3>6 DEF vars
    <3>. QED
      BY <1>5, <3>1, <3>2, <3>3, <3>4, <3>5, <3>6 DEF Next
  <2>. QED
    BY <2>1 DEF Transmitter!vars
<1>. QED
  BY <1>1, <1>2, <1>3, <1>4, <1>5

LEMMA ChannelsBegin ==
  ASSUME Init
  PROVE  Receiver!Init /\ Transmitter!Init
<1>1. Contents(rx_buf, rx_out, rx_in) = <<>> /\ Contents(tx_buf, tx_out, tx_in) = <<>>
  <2>1. Held(0, 0) = 0
    BY DEF Held
  <2>2. \A b : Contents(b, 0, 0) = <<>>
    BY <2>1 DEF Contents
  <2>. QED
    BY <2>2 DEF Init
<1>2. <<>> \o <<>> = <<>>
  BY EmptySeq, ConcatEmptySeq
<1>. QED
  BY <1>1, <1>2 DEF Init, Receiver!Init, Transmitter!Init

(* Of the steps, only the end of a waiting loop gives up. *)
LEMMA GivesUp ==
  ASSUME DriverInv, [Next]_vars
  PROVE  /\ pc = "write_spin" /\ pc' = "idle" =>
              Plus(tx_in, 1) = tx_out /\ host_inactive >= timeout
         /\ pc = "read_spin" /\ pc' = "read_end" =>
              rx_in = rx_out /\ host_inactive >= timeout
<1>1. CASE WriteSpin
  <2>1. Plus(tx_in, 1) = out
    <3>1. pc = "write_spin"
      BY <1>1 DEF WriteSpin
    <3>2. Stuck
      BY DriverTypes
    <3>. QED
      BY <3>1, <3>2 DEF Stuck
  <2>. QED
    BY <1>1, <2>1 DEF WriteSpin
<1>2. CASE ReadSpin
  BY <1>2, DriverTypes DEF ReadSpin, Stuck
<1>3. CASE ~(WriteSpin \/ ReadSpin)
  <2>1. pc \in {"write_spin", "read_spin"} => UNCHANGED pc
    <3>. USE DEF program
    <3>1. CASE Handler
      BY <3>1 DEF Handler, Interrupt, ReadControl, Receive, ReceiveNothing,
         ReceiveFull, Transmit, TransmitEnd
    <3>2. CASE Timeout
      BY <3>2 DEF Timeout
    <3>3. CASE Step
      BY <1>3, <3>3 DEF Step, ReadSnap, ReadCopy, ReadPublish, ReadEnd, WriteSnap,
         WriteCopy, WritePublish, WriteEnable, Close
    <3>4. CASE Request
      BY <3>4 DEF Request, ReadCall, WriteCall, CloseCall, Call, SetTimeout
    <3>5. CASE HostSend \/ HostTake \/ HostPause \/ HostPlug
      BY <3>5 DEF HostSend, HostTake, HostPause, HostPlug, DeviceOnly
    <3>6. CASE UNCHANGED vars
      BY <3>6 DEF vars
    <3>. QED
      BY <1>3, <3>1, <3>2, <3>3, <3>4, <3>5, <3>6 DEF Next
  <2>. QED
    BY <2>1
<1>. QED
  BY <1>1, <1>2, <1>3

-----------------------------------------------------------------------------
(***************************************************************************)
(* Every index, counter and FIFO keeps within its range; in particular the *)
(* handler never writes more into the device than there is room for, and   *)
(* the FIFOs never overflow (altera_avalon_jtag_uart_irq).                 *)
(***************************************************************************)
THEOREM TypeCorrect == Spec => []TypeOK
<1>1. DriverInv => TypeOK
  BY DEF DriverInv
<1>. QED
  BY <1>1, DriverInvHolds, PTL

(***************************************************************************)
(* Each direction of the driver implements a channel that loses, repeats   *)
(* and reorders nothing and holds no more than the buffer and the FIFO     *)
(* (altera_avalon_jtag_uart_read, _write and the handler, whose indices    *)
(* are shared without a lock).                                             *)
(***************************************************************************)
THEOREM ChannelsKept == Spec => BytesInOrder
<1>1. Init => Receiver!Init /\ Transmitter!Init
  BY ChannelsBegin
<1>2. DriverInv /\ DriverInv' /\ [Next]_vars =>
        [Receiver!Next]_(Receiver!vars) /\ [Transmitter!Next]_(Transmitter!vars)
  BY ReceiverStep, TransmitterStep
<1>. QED
  BY <1>1, <1>2, DriverInvHolds, PTL
     DEF Spec, BytesInOrder, Receiver!Spec, Transmitter!Spec

(***************************************************************************)
(* A call that gives up found its buffer full, or empty, and still so, and *)
(* the host inactive for the time-out (the ends of the waiting loops of    *)
(* altera_avalon_jtag_uart_write and _read).                               *)
(***************************************************************************)
THEOREM GivesUpStuck == Spec => GivesUpOnlyWhenStuck
<1>1. DriverInv /\ [Next]_vars =>
        [/\ pc = "write_spin" /\ pc' = "idle" =>
              Plus(tx_in, 1) = tx_out /\ host_inactive >= timeout
         /\ pc = "read_spin" /\ pc' = "read_end" =>
              rx_in = rx_out /\ host_inactive >= timeout]_vars
  BY GivesUp
<1>. QED
  BY <1>1, DriverInvHolds, PTL DEF Spec, GivesUpOnlyWhenStuck

=============================================================================
