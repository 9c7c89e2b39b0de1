------------------------------ MODULE AlarmList ------------------------------
(***************************************************************************)
(* The alarms of the HAL: a circular list that alt_tick goes through at    *)
(* interrupt level, calling the alarms whose time has come, while threads  *)
(* and the callbacks themselves register and remove alarms.  Times are     *)
(* compared as unsigned numbers, with a roll-over flag for those that lie  *)
(* behind the wrap of the tick counter.                                    *)
(***************************************************************************)
EXTENDS Integers

CONSTANTS
  Alarms,      \* the alarm structures of the program
  Head,        \* alt_alarm_list
  Modulus,     \* alt_u32 counts modulo this
  StartTicks,  \* arguments of alt_alarm_start
  Periods,     \* values that callbacks return
  StopAny      \* callbacks may stop the alarm that alt_tick goes to next

ASSUME AlarmListAssumption ==
  /\ Head \notin Alarms
  /\ Modulus \in Nat \ {0, 1}
  /\ StartTicks \subseteq 0..(Modulus - 2) /\ Periods \subseteq 0..(Modulus - 1)
  /\ StopAny \in BOOLEAN

Entries == Alarms \cup {Head}

VARIABLES
  _alt_nticks,
  next, previous,  \* of every list entry
  time, rollover,  \* of every alarm
  pc,              \* alt_tick: "idle", "visit" or "callback"
  alarm, saved     \* its variables alarm and next

list == <<next, previous>>
vars == <<_alt_nticks, list, time, rollover, pc, alarm, saved>>

-----------------------------------------------------------------------------
Plus(x, y) == IF x + y >= Modulus THEN x + y - Modulus ELSE x + y

Listed == {a \in Alarms : next[a] # a}

(* Mutant: the entry that was first keeps its link back to the head. *)
InsertOneWay(e) ==
  /\ next' = [next EXCEPT ![e] = next[Head], ![Head] = e]
  /\ previous' = [previous EXCEPT ![e] = Head, ![Head] = e]

alt_llist_insert(e) ==
  /\ next' = [next EXCEPT ![e] = next[Head], ![Head] = e]
  /\ previous' = [previous EXCEPT ![e] = Head, ![next[Head]] = e]

(* The entry is left pointing to itself. *)
alt_llist_remove(e) ==
  /\ next' = [[next EXCEPT ![previous[e]] = next[e]] EXCEPT ![e] = e]
  /\ previous' = [[previous EXCEPT ![next[e]] = previous[e]] EXCEPT ![e] = e]

-----------------------------------------------------------------------------
(* An alarm that was never started is as one that was stopped. *)
Init ==
  /\ _alt_nticks = 0
  /\ next = [e \in Entries |-> e] /\ previous = [e \in Entries |-> e]
  /\ time = [a \in Alarms |-> 0] /\ rollover = [a \in Alarms |-> FALSE]
  /\ pc = "idle" /\ alarm = Head /\ saved = Head

(* Mutant: a time that wraps to 0 is not taken for one that wraps. *)
StartPastZero(a, nticks) ==
  /\ a \notin Listed
  /\ time' = [time EXCEPT ![a] = Plus(nticks, Plus(_alt_nticks, 1))]
  /\ rollover' = [rollover EXCEPT ![a] = 0 < time'[a] /\ time'[a] < _alt_nticks]
  /\ alt_llist_insert(a)
  /\ UNCHANGED <<_alt_nticks, pc, alarm, saved>>

alt_alarm_start(a, nticks) ==
  /\ a \notin Listed
  /\ time' = [time EXCEPT ![a] = Plus(nticks, Plus(_alt_nticks, 1))]
  /\ rollover' = [rollover EXCEPT ![a] = time'[a] < _alt_nticks]
  /\ alt_llist_insert(a)
  /\ UNCHANGED <<_alt_nticks, pc, alarm, saved>>

alt_alarm_stop(a) ==
  /\ a \in Listed
  /\ alt_llist_remove(a)
  /\ UNCHANGED <<_alt_nticks, time, rollover, pc, alarm, saved>>

(* alt_tick begins. *)
Tick ==
  /\ pc = "idle"
  /\ _alt_nticks' = Plus(_alt_nticks, 1)
  /\ alarm' = next[Head] /\ pc' = "visit"
  /\ UNCHANGED <<list, time, rollover, saved>>

(* It looks at an alarm, and calls it if its time has come. *)
Visit ==
  /\ pc = "visit" /\ alarm # Head
  /\ saved' = next[alarm]
  /\ rollover' = [rollover EXCEPT ![alarm] = @ /\ _alt_nticks # 0]
  /\ IF time[alarm] <= _alt_nticks /\ ~rollover'[alarm]
     THEN pc' = "callback" /\ UNCHANGED alarm
     ELSE alarm' = saved' /\ UNCHANGED pc
  /\ UNCHANGED <<_alt_nticks, list, time>>

(* Mutant: the list goes on from the alarm after its callback. *)
ReturnAndFollow(n) ==
  /\ pc = "callback"
  /\ IF n = 0
     THEN alt_llist_remove(alarm) /\ UNCHANGED <<time, rollover>>
     ELSE /\ time' = [time EXCEPT ![alarm] = Plus(@, n)]
          /\ rollover' = [rollover EXCEPT ![alarm] = @ \/ time'[alarm] < _alt_nticks]
          /\ UNCHANGED list
  /\ alarm' = next'[alarm] /\ pc' = "visit"
  /\ UNCHANGED <<_alt_nticks, saved>>

(* The callback returns: the alarm is removed or set to its next time. *)
Return(n) ==
  /\ pc = "callback"
  /\ IF n = 0
     THEN alt_llist_remove(alarm) /\ UNCHANGED <<time, rollover>>
     ELSE /\ time' = [time EXCEPT ![alarm] = Plus(@, n)]
          /\ rollover' = [rollover EXCEPT ![alarm] = @ \/ time'[alarm] < _alt_nticks]
          /\ UNCHANGED list
  /\ alarm' = saved /\ pc' = "visit"
  /\ UNCHANGED <<_alt_nticks, saved>>

(* alt_tick is through. *)
TickEnd ==
  /\ pc = "visit" /\ alarm = Head
  /\ pc' = "idle"
  /\ UNCHANGED <<_alt_nticks, list, time, rollover, alarm, saved>>

(* A thread, between two ticks. *)
Thread ==
  /\ pc = "idle"
  /\ \E a \in Alarms :
       alt_alarm_stop(a) \/ \E n \in StartTicks : alt_alarm_start(a, n)

(* A callback.  It starts no alarm that is registered, nor its own. *)
Callback ==
  /\ pc = "callback"
  /\ \/ \E a \in Alarms \ (IF StopAny THEN {} ELSE {saved}) : alt_alarm_stop(a)
     \/ \E a \in Alarms \ {alarm}, n \in StartTicks : alt_alarm_start(a, n)

Interrupt == Visit \/ TickEnd \/ \E n \in Periods : Return(n)

Next == Tick \/ Interrupt \/ Thread \/ Callback

Spec == Init /\ [][Next]_vars

(* alt_tick runs to its end, and callbacks return. *)
FairSpec ==
  Spec /\ WF_vars(Visit \/ TickEnd) /\ SF_vars(\E n \in Periods : Return(n))

-----------------------------------------------------------------------------
(***************************************************************************)
(* In every list the links back undo the links forth, whatever threads and *)
(* callbacks insert and remove: an entry that was removed is in no list.   *)
(***************************************************************************)
TypeOK ==
  /\ _alt_nticks \in 0..(Modulus - 1)
  /\ next \in [Entries -> Entries] /\ previous \in [Entries -> Entries]
  /\ \A e \in Entries : previous[next[e]] = e
  /\ time \in [Alarms -> 0..(Modulus - 1)] /\ rollover \in [Alarms -> BOOLEAN]
  /\ pc \in {"idle", "visit", "callback"}
  /\ alarm \in Entries /\ saved \in Entries

(***************************************************************************)
(* Alarms are called in their tick: never early for a counter that wrapped *)
(* meanwhile, never skipped because the list changed under alt_tick, never *)
(* twice.  The ticks that are left follow from time and counter; what the  *)
(* roll-over flag adds is that the comparison agrees with them.            *)
(***************************************************************************)
Left(a) ==
  IF a \notin Listed THEN 0
  ELSE IF time[a] >= _alt_nticks THEN time[a] - _alt_nticks
  ELSE time[a] - _alt_nticks + Modulus

Promise == INSTANCE AlarmPromise WITH
  active <- Listed, left <- [a \in Alarms |-> Left(a)], MaxTicks <- Modulus - 1

ImplementsAlarms == Promise!Spec

(***************************************************************************)
(* alt_tick, which runs with interrupts disabled, comes to its end.        *)
(***************************************************************************)
TickEnds == pc # "idle" ~> pc = "idle"
=============================================================================
