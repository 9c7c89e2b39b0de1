----------------------------- MODULE ByteChannel -----------------------------
(***************************************************************************)
(* What each direction of the interrupt driven JTAG UART driver promises:  *)
(* the bytes come out in the order in which they went in, none of them     *)
(* lost, repeated or changed, and there are never more of them under way   *)
(* than the buffers hold.  Byte number k carries the value k.              *)
(***************************************************************************)
EXTENDS Naturals, Sequences

CONSTANTS Capacity,  (* bytes the software buffer and the device FIFO hold   *)
          Limit      (* bound on the bytes of a behaviour                    *)

VARIABLES produced,  (* number of bytes put in                               *)
          queue,     (* bytes under way, oldest first                        *)
          consumed   (* bytes that came out, in order                        *)

vars == <<produced, queue, consumed>>

-----------------------------------------------------------------------------
Init == produced = 0 /\ queue = <<>> /\ consumed = <<>>

(* A producer adds n bytes at once. *)
Put(n) ==
    /\ Len(queue) + n <= Capacity
    /\ produced' = produced + n
    /\ queue' = queue \o [i \in 1..n |-> produced + i]
    /\ UNCHANGED consumed

(* A consumer takes the n oldest bytes. *)
Get(n) ==
    /\ n <= Len(queue)
    /\ queue' = SubSeq(queue, n + 1, Len(queue))
    /\ consumed' = consumed \o SubSeq(queue, 1, n)
    /\ UNCHANGED produced

Next == \E n \in 1..Limit : Put(n) \/ Get(n)

Spec == Init /\ [][Next]_vars

=============================================================================
