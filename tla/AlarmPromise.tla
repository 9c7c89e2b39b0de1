---------------------------- MODULE AlarmPromise ----------------------------
(***************************************************************************)
(* What the alarms of the HAL promise: an alarm is called in the tick in   *)
(* which its time is over, no earlier, no later and not twice, whatever    *)
(* the value of the tick counter, until it is stopped or its callback      *)
(* returns 0.                                                              *)
(***************************************************************************)
EXTENDS Naturals

CONSTANTS Alarms, MaxTicks

VARIABLES active,  \* the alarms that are registered
          left     \* ticks until each of them is called

vars == <<active, left>>

-----------------------------------------------------------------------------
Init == active = {} /\ left = [a \in Alarms |-> 0]

(* alt_alarm_start counts the ticks from the next one on. *)
Start(a, n) ==
  /\ a \notin active
  /\ active' = active \cup {a}
  /\ left' = [left EXCEPT ![a] = n + 1]

Stop(a) ==
  /\ a \in active
  /\ active' = active \ {a}
  /\ left' = [left EXCEPT ![a] = 0]

(* No alarm is left uncalled when the next tick comes. *)
Tick ==
  /\ \A a \in active : left[a] > 0
  /\ left' = [a \in Alarms |-> IF a \in active THEN left[a] - 1 ELSE 0]
  /\ UNCHANGED active

(* The callback asks to be called again after n ticks. *)
Call(a, n) ==
  /\ a \in active /\ left[a] = 0
  /\ left' = [left EXCEPT ![a] = n]
  /\ UNCHANGED active

(* The callback asks not to be called again. *)
CallLast(a) == left[a] = 0 /\ Stop(a)

Next ==
  \/ Tick
  \/ \E a \in Alarms :
       \/ Stop(a) \/ CallLast(a)
       \/ \E n \in 0..MaxTicks : Start(a, n)
       \/ \E n \in 1..MaxTicks : Call(a, n)

Spec == Init /\ [][Next]_vars
=============================================================================
