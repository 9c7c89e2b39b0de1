--------------------------- MODULE AlarmListProofs ---------------------------
(***************************************************************************)
(* For any number of alarms and any width of the counter: the links of the *)
(* list stay consistent, whichever alarms threads and callbacks start and  *)
(* stop, and alt_tick calls every alarm in its tick.                       *)
(***************************************************************************)
EXTENDS AlarmList, TLAPS

Linked ==
  /\ next \in [Entries -> Entries] /\ previous \in [Entries -> Entries]
  /\ \A e \in Entries : previous[next[e]] = e

(* Times stay in the range of the counter. *)
LEMMA PlusTyped ==
  ASSUME NEW x \in 0..(Modulus - 1), NEW y \in 0..(Modulus - 1)
  PROVE  Plus(x, y) \in 0..(Modulus - 1)
BY AlarmListAssumption DEF Plus

(* An entry in no list is linked in behind the head. *)
LEMMA InsertKeepsLinks ==
  ASSUME Linked, NEW e \in Alarms, next[e] = e, alt_llist_insert(e)
  PROVE  Linked'
<1>1. e \in Entries /\ Head \in Entries /\ e # Head
  BY AlarmListAssumption DEF Entries
<1>2. previous[e] = e /\ next[Head] # e
  BY <1>1 DEF Linked
<1>3. next' \in [Entries -> Entries] /\ previous' \in [Entries -> Entries]
  BY <1>1 DEF Linked, alt_llist_insert
<1>4. ASSUME NEW x \in Entries
      PROVE  previous'[next'[x]] = x
  <2>1. CASE x = e
    BY <1>1, <1>2, <2>1 DEF Linked, alt_llist_insert
  <2>2. CASE x = Head
    BY <1>1, <1>2, <2>2 DEF Linked, alt_llist_insert
  <2>3. CASE x # e /\ x # Head
    <3>1. next'[x] = next[x] /\ next[x] \in Entries
      BY <1>1, <2>3 DEF Linked, alt_llist_insert
    <3>2. next[x] # e /\ next[x] # next[Head]
      BY <1>1, <1>2, <2>3 DEF Linked
    <3> QED
      BY <1>1, <3>1, <3>2 DEF Linked, alt_llist_insert
  <2> QED
    BY <2>1, <2>2, <2>3
<1> QED
  BY <1>3, <1>4 DEF Linked

(* An entry is taken out, whether it is in a list or alone. *)
LEMMA RemoveKeepsLinks ==
  ASSUME Linked, NEW e \in Entries, alt_llist_remove(e)
  PROVE  Linked'
<1>1. next[e] \in Entries /\ previous[e] \in Entries /\ previous[next[e]] = e
  BY DEF Linked
<1>2. next' \in [Entries -> Entries] /\ previous' \in [Entries -> Entries]
  BY <1>1 DEF Linked, alt_llist_remove
<1>3. next'[e] = e /\ previous'[e] = e
  BY <1>1 DEF Linked, alt_llist_remove
<1>4. ASSUME NEW x \in Entries, x # e
      PROVE  previous'[next'[x]] = x
  <2>1. CASE x = previous[e]
    <3>1. next[e] # e
      BY <1>1, <1>4, <2>1
    <3>2. next'[x] = next[e] /\ previous'[next[e]] = previous[e]
      BY <1>1, <1>4, <2>1, <3>1 DEF Linked, alt_llist_remove
    <3> QED
      BY <2>1, <3>2
  <2>2. CASE x # previous[e]
    <3>1. next'[x] = next[x] /\ next[x] \in Entries
      BY <1>1, <1>4, <2>2 DEF Linked, alt_llist_remove
    <3>2. next[x] # e /\ next[x] # next[e] /\ previous[next[x]] = x
      BY <1>1, <1>4, <2>2 DEF Linked
    <3> QED
      BY <1>1, <3>1, <3>2 DEF Linked, alt_llist_remove
  <2> QED
    BY <2>1, <2>2
<1> QED
  BY <1>2, <1>3, <1>4 DEF Linked

(***************************************************************************)
(* The list of alarms is linked consistently in both directions at all     *)
(* times, and no time leaves the range of the counter.                     *)
(***************************************************************************)
THEOREM LinksConsistent == Spec => []TypeOK
<1>1. Init => TypeOK
  <2>1. Head \in Entries /\ 0 \in 0..(Modulus - 1)
    BY AlarmListAssumption DEF Entries
  <2> QED
    BY <2>1 DEF Init, TypeOK
<1>2. TypeOK /\ [Next]_vars => TypeOK'
  <2> SUFFICES ASSUME TypeOK, [Next]_vars PROVE TypeOK'
    OBVIOUS
  <2> USE DEF list
  <2>1. Linked /\ 1 \in 0..(Modulus - 1)
    BY AlarmListAssumption DEF TypeOK, Linked
  <2>2. ASSUME NEW a \in Alarms, NEW n \in StartTicks, alt_alarm_start(a, n)
        PROVE  TypeOK'
    <3>1. next[a] = a
      BY <2>2 DEF alt_alarm_start, Listed
    <3>2. Linked'
      BY <2>1, <2>2, <3>1, InsertKeepsLinks DEF alt_alarm_start
    <3>3. Plus(_alt_nticks, 1) \in 0..(Modulus - 1) /\ n \in 0..(Modulus - 1)
      BY <2>1, PlusTyped, AlarmListAssumption DEF TypeOK
    <3>4. Plus(n, Plus(_alt_nticks, 1)) \in 0..(Modulus - 1)
      BY <3>3, PlusTyped
    <3> QED
      BY <2>2, <3>2, <3>4 DEF alt_alarm_start, TypeOK, Linked
  <2>3. ASSUME NEW a \in Alarms, alt_alarm_stop(a)
        PROVE  TypeOK'
    <3>1. Linked'
      BY <2>1, <2>3, RemoveKeepsLinks DEF alt_alarm_stop, Entries
    <3> QED
      BY <2>3, <3>1 DEF alt_alarm_stop, TypeOK, Linked
  <2>4. CASE Tick
    <3>1. Plus(_alt_nticks, 1) \in 0..(Modulus - 1)
      BY <2>1, PlusTyped DEF TypeOK
    <3> QED
      BY <2>4, <3>1 DEF Tick, TypeOK, Entries
  <2>5. CASE Visit
    <3>1. alarm \in Alarms
      BY <2>5 DEF Visit, TypeOK, Entries
    <3> QED
      BY <2>5, <3>1 DEF Visit, TypeOK
  <2>6. CASE TickEnd
    BY <2>6 DEF TickEnd, TypeOK
  <2>7. ASSUME NEW n \in Periods, Return(n)
        PROVE  TypeOK'
    <3>1. CASE n = 0
      <4>1. Linked'
        BY <2>1, <2>7, <3>1, RemoveKeepsLinks DEF Return, TypeOK
      <4> QED
        BY <2>7, <3>1, <4>1 DEF Return, TypeOK, Linked
    <3>2. CASE n # 0
      <4>1. n \in 0..(Modulus - 1)
        BY AlarmListAssumption
      <4>2. \A a \in Alarms : Plus(time[a], n) \in 0..(Modulus - 1)
        BY <4>1, PlusTyped DEF TypeOK
      <4>3. time' \in [Alarms -> 0..(Modulus - 1)]
        BY <2>7, <3>2, <4>2 DEF Return, TypeOK
      <4>4. rollover' \in [Alarms -> BOOLEAN]
        BY <2>7, <3>2 DEF Return, TypeOK
      <4> QED
        BY <2>7, <3>2, <4>3, <4>4 DEF Return, TypeOK
    <3> QED
      BY <3>1, <3>2
  <2>8. CASE UNCHANGED vars
    BY <2>8 DEF vars, TypeOK
  <2>9. CASE Thread
    BY <2>2, <2>3, <2>9 DEF Thread
  <2>10. CASE Callback
    BY <2>2, <2>3, <2>10 DEF Callback
  <2> QED
    BY <2>4, <2>5, <2>6, <2>7, <2>8, <2>9, <2>10 DEF Next, Interrupt
<1> QED
  BY <1>1, <1>2, PTL DEF Spec

-----------------------------------------------------------------------------
(* The order of the list, and what alt_tick has still to visit.            *)

LinkedBack == \A e \in Entries : next[previous[e]] = e

(***************************************************************************)
(* A rank for each alarm makes the list one line from the head back to the *)
(* head: next goes to the least rank above.  Without it two alarms might   *)
(* point at each other, and alt_tick would pass them by.                   *)
(***************************************************************************)
Ordered(rank) ==
  /\ rank \in [Alarms -> Int]
  /\ \A a \in Listed : next[Head] # Head /\ rank[next[Head]] <= rank[a]
  /\ \A a \in Listed : next[a] # Head => rank[a] < rank[next[a]]
  /\ \A a, b \in Listed : rank[a] < rank[b] => next[a] # Head /\ rank[next[a]] <= rank[b]
  /\ \A a, b \in Listed : rank[a] = rank[b] => a = b

(* Where alt_tick goes on, and whether it will come by an alarm. *)
From == IF pc = "callback" THEN saved ELSE alarm
ToVisit(rank, a) == pc # "idle" /\ From # Head /\ rank[From] <= rank[a]

Walk ==
  /\ pc # "idle" => From \in Listed \cup {Head}
  /\ pc = "callback" => alarm \in Alarms /\ alarm # saved

(***************************************************************************)
(* The roll-over flag is what the comparison of times needs, until alt_tick*)
(* comes by in tick 0; and an alarm that is due is visited in this tick.   *)
(***************************************************************************)
Timed(rank) ==
  /\ \A a \in Listed :
       /\ time[a] < _alt_nticks => rollover[a]
       /\ rollover[a] => time[a] < _alt_nticks \/ (_alt_nticks = 0 /\ ToVisit(rank, a))
       /\ time[a] = _alt_nticks => ToVisit(rank, a) \/ (pc = "callback" /\ a = alarm)
  /\ pc = "callback" /\ alarm \in Listed => time[alarm] = _alt_nticks /\ ~rollover[alarm]

OnTime == \E rank \in [Alarms -> Int] : Ordered(rank) /\ Timed(rank)

WalkInv == LinkedBack /\ Walk /\ OnTime

LEMMA NextListed ==
  ASSUME Linked, NEW e \in Listed \cup {Head}
  PROVE  next[e] \in Listed \cup {Head}
<1>1. e \in Entries /\ next[e] \in Entries /\ Head \notin Alarms
  BY AlarmListAssumption DEF Linked, Listed, Entries
<1>2. CASE next[e] = Head
  BY <1>2
<1>3. CASE next[e] # Head
  <2>1. next[e] \in Alarms /\ next[e] # e
    BY <1>1, <1>3 DEF Entries, Listed
  <2>2. next[next[e]] # next[e]
    BY <1>1, <2>1 DEF Linked
  <2> QED
    BY <2>1, <2>2 DEF Listed
<1> QED
  BY <1>2, <1>3

(* The list after an insertion, along next. *)
LEMMA Inserted ==
  ASSUME Linked, LinkedBack, NEW e \in Alarms, e \notin Listed, alt_llist_insert(e)
  PROVE  /\ LinkedBack'
         /\ Listed' = Listed \cup {e}
         /\ next'[Head] = e /\ next'[e] = next[Head]
         /\ \A x \in Listed : next'[x] = next[x]
<1>1. e \in Entries /\ Head \in Entries /\ e # Head /\ next[e] = e
  BY AlarmListAssumption DEF Entries, Listed
<1>2. previous[e] = e /\ next[Head] # e /\ next[Head] \in Entries
  BY <1>1 DEF Linked
<1>3. next'[Head] = e /\ next'[e] = next[Head]
      /\ \A x \in Entries \ {e, Head} : next'[x] = next[x]
  BY <1>1 DEF alt_llist_insert, Linked
<1>4. previous'[e] = Head /\ previous'[next[Head]] = e
      /\ \A x \in Entries \ {e, next[Head]} : previous'[x] = previous[x]
  BY <1>1, <1>2 DEF alt_llist_insert, Linked
<1>5. ASSUME NEW x \in Entries PROVE next'[previous'[x]] = x
  <2>1. CASE x = e \/ x = next[Head]
    BY <1>3, <1>4, <2>1
  <2>2. CASE x # e /\ x # next[Head]
    <3>1. previous'[x] = previous[x] /\ previous[x] \in Entries
      BY <1>4, <2>2 DEF Linked
    <3>2. next[previous[x]] = x
      BY DEF LinkedBack
    <3>3. previous[x] # e /\ previous[x] # Head
      BY <1>1, <2>2, <3>2
    <3> QED
      BY <1>3, <3>1, <3>2, <3>3
  <2> QED
    BY <2>1, <2>2
<1>6. \A x \in Alarms : x # e => x \in Entries \ {e, Head}
  BY AlarmListAssumption DEF Entries
<1>7. Listed' = Listed \cup {e}
  BY <1>1, <1>2, <1>3, <1>6 DEF Listed
<1> QED
  BY <1>1, <1>3, <1>5, <1>6, <1>7 DEF LinkedBack, Listed

(* The list after a removal, along next. *)
LEMMA Removed ==
  ASSUME Linked, LinkedBack, NEW e \in Alarms, alt_llist_remove(e)
  PROVE  /\ LinkedBack'
         /\ next'[e] = e
         /\ \A x \in Entries \ {e} : next'[x] = IF next[x] = e THEN next[e] ELSE next[x]
<1>1. e \in Entries /\ next[e] \in Entries /\ previous[e] \in Entries
      /\ previous[next[e]] = e /\ next[previous[e]] = e
  BY DEF Entries, Linked, LinkedBack
<1>2. next'[e] = e /\ previous'[e] = e
  BY <1>1 DEF Linked, alt_llist_remove
<1>3. ASSUME NEW x \in Entries \ {e}
      PROVE  next'[x] = IF next[x] = e THEN next[e] ELSE next[x]
  <2>1. x = previous[e] <=> next[x] = e
    BY <1>1 DEF Linked
  <2> QED
    BY <1>1, <2>1 DEF Linked, alt_llist_remove
<1>4. ASSUME NEW x \in Entries \ {e}
      PROVE  previous'[x] = IF previous[x] = e THEN previous[e] ELSE previous[x]
  <2>1. x = next[e] <=> previous[x] = e
    BY <1>1 DEF LinkedBack
  <2> QED
    BY <1>1, <2>1 DEF Linked, alt_llist_remove
<1>5. ASSUME NEW x \in Entries PROVE next'[previous'[x]] = x
  <2>1. CASE x = e
    BY <1>2, <2>1
  <2>2. CASE x # e /\ previous[x] = e
    <3>1. previous'[x] = previous[e] /\ next[e] = x
      BY <1>4, <2>2 DEF LinkedBack
    <3>2. previous[e] # e
      BY <1>1, <2>2, <3>1
    <3> QED
      BY <1>1, <1>3, <3>1, <3>2
  <2>3. CASE x # e /\ previous[x] # e
    <3>1. previous'[x] = previous[x] /\ previous[x] \in Entries /\ next[previous[x]] = x
      BY <1>4, <2>3 DEF Linked, LinkedBack
    <3> QED
      BY <1>3, <2>3, <3>1
  <2> QED
    BY <2>1, <2>2, <2>3
<1> QED
  BY <1>2, <1>3, <1>5 DEF LinkedBack

(* An insertion keeps the order: what comes behind the head is least. *)
LEMMA InsertKeepsOrder ==
  ASSUME Linked, LinkedBack, NEW e \in Alarms, e \notin Listed, alt_llist_insert(e),
         NEW rank, Ordered(rank)
  PROVE  \E new \in [Alarms -> Int] :
           Ordered(new)' /\ \A a \in Listed : new[a] = rank[a]
<1> DEFINE first == next[Head]
           least == IF first = Head THEN 0 ELSE rank[first] - 1
           raised == [rank EXCEPT ![e] = least]
<1>1. /\ Listed' = Listed \cup {e}
      /\ next'[Head] = e /\ next'[e] = first
      /\ \A x \in Listed : next'[x] = next[x]
  BY Inserted
<1>2. first \in Listed \cup {Head} /\ e # Head /\ Head \notin Listed
      /\ \A x \in Listed : next[x] \in Listed \cup {Head}
  BY NextListed, AlarmListAssumption DEF Listed
<1>3. \A a \in Listed : first # Head /\ rank[first] <= rank[a]
  BY DEF Ordered
<1>4. least \in Int /\ raised \in [Alarms -> Int] /\ rank \in [Alarms -> Int]
  BY <1>2 DEF Ordered, Listed
<1>5. PICK new : new = raised
  OBVIOUS
<1>6. new \in [Alarms -> Int] /\ new[e] = least /\ \A a \in Alarms : a # e => new[a] = rank[a]
  BY <1>4, <1>5
<1>7. ASSUME NEW a \in Listed
      PROVE  a \in Alarms /\ new[a] = rank[a] /\ new[e] < new[a] /\ new[a] \in Int
  <2>1. a \in Alarms /\ a # e /\ first \in Alarms /\ first # Head
    BY <1>2, <1>3 DEF Listed
  <2>2. rank[a] \in Int /\ rank[first] \in Int /\ rank[first] <= rank[a]
    BY <1>3, <1>4, <2>1
  <2>3. new[e] = rank[first] - 1 /\ new[a] = rank[a]
    BY <1>6, <2>1
  <2> HIDE DEF first
  <2> QED
    BY <2>1, <2>2, <2>3
<1> HIDE DEF least, raised
<1>8. \A a \in Listed' : next'[Head] # Head /\ new[next'[Head]] <= new[a]
  BY <1>1, <1>2, <1>4, <1>6, <1>7
<1>9. ASSUME NEW a \in Listed', next'[a] # Head PROVE new[a] < new[next'[a]]
  <2>1. CASE a = e
    BY <1>1, <1>2, <1>7, <1>9, <2>1
  <2>2. CASE a # e
    BY <1>1, <1>2, <1>7, <1>9, <2>2 DEF Ordered
  <2> QED
    BY <2>1, <2>2
<1>10. ASSUME NEW a \in Listed', NEW b \in Listed', new[a] < new[b]
       PROVE  next'[a] # Head /\ new[next'[a]] <= new[b]
  <2>1. b \in Listed
    BY <1>1, <1>4, <1>6, <1>7, <1>10
  <2>2. CASE a = e
    BY <1>1, <1>2, <1>3, <1>7, <2>1, <2>2
  <2>3. CASE a # e
    BY <1>1, <1>2, <1>7, <1>10, <2>1, <2>3 DEF Ordered
  <2> QED
    BY <2>2, <2>3
<1>11. ASSUME NEW a \in Listed', NEW b \in Listed', new[a] = new[b]
       PROVE  a = b
  BY <1>1, <1>4, <1>6, <1>7, <1>11 DEF Ordered
<1>12. Ordered(new)'
  BY <1>6, <1>8, <1>9, <1>10, <1>11 DEF Ordered
<1> QED
  BY <1>6, <1>7, <1>12

(* A removal takes one alarm off the list, and none with it. *)
LEMMA RemoveKeepsOrder ==
  ASSUME Linked, LinkedBack, NEW e \in Alarms, alt_llist_remove(e), NEW rank, Ordered(rank)
  PROVE  Ordered(rank)' /\ Listed' = Listed \ {e}
<1>1. /\ next'[e] = e
      /\ \A x \in Entries \ {e} : next'[x] = IF next[x] = e THEN next[e] ELSE next[x]
  BY Removed
<1>2. /\ Head \in Entries \ {e}
      /\ \A x \in Alarms : x # e => x \in Entries \ {e}
      /\ Head \notin Listed
  BY AlarmListAssumption DEF Entries, Listed
<1>3. /\ rank \in [Alarms -> Int]
      /\ \A a \in Listed : next[Head] # Head /\ rank[next[Head]] <= rank[a]
      /\ \A a \in Listed : next[a] # Head => rank[a] < rank[next[a]]
      /\ \A a, b \in Listed : rank[a] < rank[b] => next[a] # Head /\ rank[next[a]] <= rank[b]
      /\ \A a, b \in Listed : rank[a] = rank[b] => a = b
  BY DEF Ordered
<1>4. \A a \in Listed : a \in Alarms /\ rank[a] \in Int
  BY <1>3 DEF Listed
<1>5. \A x \in Listed \cup {Head} : next[x] \in Listed \cup {Head}
  BY NextListed
<1>6. ASSUME NEW a \in Alarms, a # e PROVE a \in Listed' <=> a \in Listed
  <2>1. CASE next[a] # e
    BY <1>1, <1>2, <1>6, <2>1 DEF Listed
  <2>2. CASE next[a] = e
    <3>1. a \in Listed /\ next'[a] = next[e]
      BY <1>1, <1>2, <1>6, <2>2 DEF Listed
    <3>2. e \in Listed /\ e # Head
      BY <1>2, <1>5, <2>2, <3>1
    <3>3. rank[a] < rank[e] /\ (next[e] # Head => rank[e] < rank[next[e]])
      BY <1>3, <2>2, <3>1, <3>2
    <3>4. next[e] # a
      BY <1>2, <1>4, <3>1, <3>2, <3>3
    <3> QED
      BY <3>1, <3>4 DEF Listed
  <2> QED
    BY <2>1, <2>2
<1>7. Listed' = Listed \ {e}
  BY <1>1, <1>6 DEF Listed
<1>8. ASSUME NEW b \in Listed', NEW x \in Listed' \cup {Head},
             x # Head => rank[x] < rank[b]
      PROVE  next'[x] # Head /\ rank[next'[x]] <= rank[b]
  <2>1. x \in Listed \cup {Head} /\ x \in Entries \ {e} /\ b \in Listed /\ b # e
    BY <1>2, <1>4, <1>7
  <2>2. next[x] # Head /\ rank[next[x]] <= rank[b]
    BY <1>3, <1>8, <2>1
  <2>3. CASE next[x] = e
    <3>1. e \in Listed
      BY <1>2, <1>5, <2>1, <2>2, <2>3
    <3>2. rank[e] < rank[b]
      BY <1>3, <1>4, <2>1, <2>2, <2>3, <3>1
    <3> QED
      BY <1>1, <1>3, <2>1, <2>3, <3>1, <3>2
  <2>4. CASE next[x] # e
    BY <1>1, <2>1, <2>2, <2>4
  <2> QED
    BY <2>3, <2>4
<1>9. ASSUME NEW a \in Listed', next'[a] # Head PROVE rank[a] < rank[next'[a]]
  <2>1. a \in Listed /\ a \in Entries \ {e}
    BY <1>2, <1>4, <1>7
  <2>2. CASE next[a] = e
    <3>1. e \in Listed /\ e # Head /\ next'[a] = next[e]
      BY <1>1, <1>2, <1>5, <2>1, <2>2
    <3>2. rank[a] < rank[e] /\ rank[e] < rank[next[e]]
      BY <1>3, <1>9, <2>1, <2>2, <3>1
    <3>3. next[e] \in Listed
      BY <1>5, <1>9, <3>1
    <3> QED
      BY <1>4, <2>1, <3>1, <3>2, <3>3
  <2>3. CASE next[a] # e
    BY <1>1, <1>3, <1>9, <2>1, <2>3
  <2> QED
    BY <2>2, <2>3
<1> QED
  BY <1>2, <1>3, <1>7, <1>8, <1>9 DEF Ordered

(* The ticks left are those of the time, and it is reached only at 0. *)
LEMMA StartTime ==
  ASSUME TypeOK, NEW n \in StartTicks
  PROVE  LET t == Plus(n, Plus(_alt_nticks, 1))
         IN  /\ t \in 0..(Modulus - 1) /\ t # _alt_nticks
             /\ n + 1 = IF t >= _alt_nticks THEN t - _alt_nticks ELSE t - _alt_nticks + Modulus
<1>1. /\ _alt_nticks \in 0..(Modulus - 1) /\ n \in 0..(Modulus - 2)
      /\ Modulus \in Nat \ {0, 1}
  BY AlarmListAssumption DEF TypeOK
<1> QED
  BY <1>1 DEF Plus

LEMMA PeriodTime ==
  ASSUME TypeOK, NEW n \in Periods, n # 0
  PROVE  LET t == Plus(_alt_nticks, n)
         IN  /\ t \in 0..(Modulus - 1) /\ t # _alt_nticks
             /\ n = IF t >= _alt_nticks THEN t - _alt_nticks ELSE t - _alt_nticks + Modulus
<1>1. /\ _alt_nticks \in 0..(Modulus - 1) /\ n \in 0..(Modulus - 1)
      /\ Modulus \in Nat \ {0, 1}
  BY AlarmListAssumption DEF TypeOK
<1> QED
  BY <1>1 DEF Plus

(* A new alarm is not due, and alt_tick goes on where it was to. *)
LEMMA StartKept ==
  ASSUME TypeOK, TypeOK', WalkInv, NEW a \in Alarms, NEW n \in StartTicks,
         alt_alarm_start(a, n), pc = "callback" => a # alarm
  PROVE  WalkInv'
<1>1. PICK rank \in [Alarms -> Int] : Ordered(rank) /\ Timed(rank)
  BY DEF WalkInv, OnTime
<1>2. /\ Linked /\ LinkedBack /\ Walk /\ a \notin Listed /\ alt_llist_insert(a)
      /\ UNCHANGED <<_alt_nticks, pc, alarm, saved>>
  BY DEF TypeOK, Linked, WalkInv, alt_alarm_start
<1>3. LinkedBack' /\ Listed' = Listed \cup {a}
  BY <1>2, Inserted
<1>4. PICK new \in [Alarms -> Int] : Ordered(new)' /\ \A b \in Listed : new[b] = rank[b]
  BY <1>1, <1>2, InsertKeepsOrder
<1>5. From' = From /\ (pc # "idle" => From # a /\ From \in Listed \cup {Head})
  <2>1. From' = From
    BY <1>2 DEF From
  <2>2. a # Head
    BY AlarmListAssumption
  <2> QED
    BY <1>2, <2>1, <2>2 DEF Walk
<1>6. Walk'
  BY <1>2, <1>3, <1>5 DEF Walk
<1>7. \A b \in Listed : ToVisit(rank, b) => ToVisit(new, b)'
  BY <1>2, <1>4, <1>5 DEF ToVisit
<1>8. /\ time'[a] \in 0..(Modulus - 1) /\ time'[a] # _alt_nticks
      /\ rollover'[a] = (time'[a] < _alt_nticks)
      /\ \A b \in Listed : time'[b] = time[b] /\ rollover'[b] = rollover[b]
  <2>1. time'[a] = Plus(n, Plus(_alt_nticks, 1))
    BY DEF alt_alarm_start, TypeOK
  <2>2. rollover'[a] = (time'[a] < _alt_nticks)
    BY DEF alt_alarm_start, TypeOK
  <2>3. \A b \in Listed : time'[b] = time[b] /\ rollover'[b] = rollover[b]
    BY DEF alt_alarm_start, TypeOK, Listed
  <2> QED
    BY <2>1, <2>2, <2>3, StartTime
<1>9. Timed(new)'
  <2>1. ASSUME NEW b \in Listed'
        PROVE  /\ time'[b] < _alt_nticks' => rollover'[b]
               /\ rollover'[b] =>
                    time'[b] < _alt_nticks' \/ (_alt_nticks' = 0 /\ ToVisit(new, b)')
               /\ time'[b] = _alt_nticks' =>
                    ToVisit(new, b)' \/ (pc' = "callback" /\ b = alarm')
    <3>1. CASE b = a
      BY <1>2, <1>8, <3>1
    <3>2. CASE b \in Listed
      BY <1>1, <1>2, <1>7, <1>8, <3>2 DEF Timed
    <3> QED
      BY <1>3, <3>1, <3>2
  <2>2. pc' = "callback" /\ alarm' \in Listed' =>
          time'[alarm'] = _alt_nticks' /\ ~rollover'[alarm']
    BY <1>1, <1>2, <1>3, <1>8 DEF Timed
  <2> QED
    BY <2>1, <2>2 DEF Timed
<1> QED
  BY <1>3, <1>4, <1>6, <1>9 DEF WalkInv, OnTime

(* An alarm that is stopped is not the one alt_tick goes on with. *)
LEMMA StopKept ==
  ASSUME TypeOK, WalkInv, pc \in {"idle", "callback"},
         NEW a \in Alarms, pc = "callback" => a # saved, alt_alarm_stop(a)
  PROVE  WalkInv'
<1>1. PICK rank \in [Alarms -> Int] : Ordered(rank) /\ Timed(rank)
  BY DEF WalkInv, OnTime
<1>2. /\ Linked /\ LinkedBack /\ Walk /\ alt_llist_remove(a)
      /\ UNCHANGED <<_alt_nticks, time, rollover, pc, alarm, saved>>
  BY DEF TypeOK, Linked, WalkInv, alt_alarm_stop
<1>3. LinkedBack' /\ Ordered(rank)' /\ Listed' = Listed \ {a}
  BY <1>1, <1>2, Removed, RemoveKeepsOrder
<1>4. From' = From
  BY <1>2 DEF From
<1>5. Walk'
  BY <1>2, <1>3, <1>4 DEF Walk, From
<1>6. \A b \in Listed : ToVisit(rank, b) => ToVisit(rank, b)'
  BY <1>2, <1>4 DEF ToVisit
<1>7. Timed(rank)'
  BY <1>1, <1>2, <1>3, <1>6 DEF Timed
<1> QED
  BY <1>3, <1>5, <1>7 DEF WalkInv, OnTime

(* In a new tick every alarm is still to be visited. *)
LEMMA TickKept ==
  ASSUME TypeOK, WalkInv, Tick
  PROVE  WalkInv'
<1>1. PICK rank \in [Alarms -> Int] : Ordered(rank) /\ Timed(rank)
  BY DEF WalkInv, OnTime
<1>2. /\ Linked /\ LinkedBack /\ pc = "idle" /\ pc' = "visit" /\ alarm' = next[Head]
      /\ _alt_nticks' = Plus(_alt_nticks, 1)
      /\ next' = next /\ previous' = previous /\ time' = time /\ rollover' = rollover
  BY DEF TypeOK, Linked, WalkInv, Tick, list
<1>3. Listed' = Listed /\ LinkedBack' /\ Ordered(rank)'
  BY <1>1, <1>2 DEF Listed, LinkedBack, Ordered
<1>4. Walk'
  <2>1. From' = next[Head]
    BY <1>2 DEF From
  <2> QED
    BY <1>2, <1>3, <2>1, NextListed DEF Walk
<1>5. \A b \in Listed : ToVisit(rank, b)'
  BY <1>1, <1>2 DEF ToVisit, From, Ordered
<1>6. ASSUME NEW b \in Listed, time[b] < _alt_nticks' PROVE rollover[b]
  <2>1. time[b] \in Nat /\ _alt_nticks \in 0..(Modulus - 1) /\ Modulus \in Nat \ {0, 1}
    BY AlarmListAssumption DEF TypeOK, Listed
  <2>2. time[b] # _alt_nticks /\ (time[b] < _alt_nticks => rollover[b])
    BY <1>1, <1>2 DEF Timed, ToVisit
  <2>3. CASE _alt_nticks + 1 >= Modulus
    BY <1>2, <1>6, <2>1, <2>3 DEF Plus
  <2>4. CASE ~(_alt_nticks + 1 >= Modulus)
    BY <1>2, <1>6, <2>1, <2>2, <2>4 DEF Plus
  <2> QED
    BY <2>3, <2>4
<1>7. ASSUME NEW b \in Listed, rollover[b]
      PROVE  time[b] < _alt_nticks' \/ _alt_nticks' = 0
  <2>1. time[b] \in Nat /\ _alt_nticks \in 0..(Modulus - 1) /\ Modulus \in Nat \ {0, 1}
    BY AlarmListAssumption DEF TypeOK, Listed
  <2>2. time[b] < _alt_nticks
    BY <1>1, <1>2, <1>7 DEF Timed, ToVisit
  <2> QED
    BY <1>2, <2>1, <2>2 DEF Plus
<1>8. Timed(rank)'
  BY <1>2, <1>3, <1>5, <1>6, <1>7 DEF Timed
<1> QED
  BY <1>3, <1>4, <1>8 DEF WalkInv, OnTime

(* A visit calls an alarm exactly when it is due. *)
LEMMA VisitDue ==
  ASSUME TypeOK, WalkInv, Visit
  PROVE  /\ alarm \in Listed /\ saved' = next[alarm] /\ saved' # alarm
         /\ pc' \in {"visit", "callback"}
         /\ pc' = "callback" <=> time[alarm] = _alt_nticks
         /\ pc' = "callback" => alarm' = alarm /\ ~rollover'[alarm]
         /\ pc' = "visit" => alarm' = next[alarm]
         /\ rollover' \in [Alarms -> BOOLEAN]
         /\ rollover'[alarm] <=> rollover[alarm] /\ _alt_nticks # 0
         /\ \A b \in Alarms : b # alarm => rollover'[b] = rollover[b]
         /\ UNCHANGED <<_alt_nticks, next, previous, time>>
<1>1. PICK rank \in [Alarms -> Int] : Ordered(rank) /\ Timed(rank)
  BY DEF WalkInv, OnTime
<1>2. alarm \in Listed /\ alarm \in Alarms /\ next[alarm] # alarm
  BY DEF WalkInv, Walk, From, Visit, Listed
<1>3. /\ time[alarm] \in Nat /\ _alt_nticks \in Nat /\ rollover[alarm] \in BOOLEAN
      /\ rollover \in [Alarms -> BOOLEAN]
  BY <1>2, AlarmListAssumption DEF TypeOK
<1>4. rollover'[alarm] = (rollover[alarm] /\ _alt_nticks # 0)
      /\ rollover' \in [Alarms -> BOOLEAN]
      /\ \A b \in Alarms : b # alarm => rollover'[b] = rollover[b]
  BY <1>2, <1>3 DEF Visit
<1>5. /\ time[alarm] < _alt_nticks => rollover[alarm]
      /\ rollover[alarm] => time[alarm] < _alt_nticks \/ _alt_nticks = 0
  BY <1>1, <1>2 DEF Timed
<1>6. time[alarm] <= _alt_nticks /\ ~rollover'[alarm] <=> time[alarm] = _alt_nticks
  BY <1>3, <1>4, <1>5
<1>7. /\ pc = "visit" /\ saved' = next[alarm] /\ UNCHANGED <<_alt_nticks, next, previous, time>>
      /\ IF time[alarm] <= _alt_nticks /\ ~rollover'[alarm]
         THEN pc' = "callback" /\ alarm' = alarm
         ELSE alarm' = saved' /\ pc' = pc
  BY DEF Visit, list
<1> QED
  BY <1>2, <1>4, <1>6, <1>7

LEMMA VisitKept ==
  ASSUME TypeOK, WalkInv, Visit
  PROVE  WalkInv'
<1>1. PICK rank \in [Alarms -> Int] : Ordered(rank) /\ Timed(rank)
  BY DEF WalkInv, OnTime
<1>2. /\ alarm \in Listed /\ saved' = next[alarm] /\ saved' # alarm
      /\ pc' \in {"visit", "callback"}
      /\ pc' = "callback" <=> time[alarm] = _alt_nticks
      /\ pc' = "callback" => alarm' = alarm /\ ~rollover'[alarm]
      /\ pc' = "visit" => alarm' = next[alarm]
      /\ rollover'[alarm] <=> rollover[alarm] /\ _alt_nticks # 0
      /\ \A b \in Alarms : b # alarm => rollover'[b] = rollover[b]
      /\ UNCHANGED <<_alt_nticks, next, previous, time>>
  BY VisitDue
<1>3. Linked /\ LinkedBack /\ pc = "visit" /\ alarm # Head /\ alarm \in Alarms
  BY <1>2 DEF TypeOK, Linked, WalkInv, Visit, Listed
<1>4. Listed' = Listed /\ LinkedBack' /\ Ordered(rank)'
  BY <1>1, <1>2, <1>3 DEF Listed, LinkedBack, Ordered
<1>5. From' = next[alarm] /\ From = alarm
  BY <1>2, <1>3 DEF From
<1>6. Walk'
  BY <1>2, <1>3, <1>4, <1>5, NextListed DEF Walk
<1>7. ASSUME NEW b \in Listed, b # alarm, ToVisit(rank, b)
      PROVE  ToVisit(rank, b)'
  <2>1. rank[alarm] \in Int /\ rank[b] \in Int /\ rank[alarm] <= rank[b]
    BY <1>2, <1>5, <1>7 DEF Listed, ToVisit
  <2>2. rank[alarm] # rank[b]
    BY <1>1, <1>2, <1>7 DEF Ordered
  <2>3. next[alarm] # Head /\ rank[next[alarm]] <= rank[b]
    BY <1>1, <1>2, <2>1, <2>2 DEF Ordered
  <2> QED
    BY <1>2, <1>5, <2>3 DEF ToVisit
<1>8. /\ time[alarm] < _alt_nticks => rollover[alarm]
      /\ rollover[alarm] => time[alarm] < _alt_nticks \/ _alt_nticks = 0
      /\ time[alarm] < _alt_nticks => _alt_nticks # 0
  <2>1. time[alarm] \in Nat
    BY <1>3, AlarmListAssumption DEF TypeOK
  <2> QED
    BY <1>1, <1>2, <2>1 DEF Timed
<1>9. Timed(rank)'
  <2>1. ASSUME NEW b \in Listed
        PROVE  /\ time[b] < _alt_nticks => rollover'[b]
               /\ rollover'[b] =>
                    time[b] < _alt_nticks \/ (_alt_nticks = 0 /\ ToVisit(rank, b)')
               /\ time[b] = _alt_nticks => ToVisit(rank, b)' \/ (pc' = "callback" /\ b = alarm')
    <3>1. CASE b = alarm
      BY <1>2, <1>8, <3>1
    <3>2. CASE b # alarm
      <4>1. rollover'[b] = rollover[b]
        BY <1>2, <3>2 DEF Listed
      <4> QED
        BY <1>1, <1>3, <1>7, <3>2, <4>1 DEF Timed
    <3> QED
      BY <3>1, <3>2
  <2> QED
    BY <1>2, <1>4, <2>1 DEF Timed
<1> QED
  BY <1>4, <1>6, <1>9 DEF WalkInv, OnTime

(* The alarm that was called is off the list, or not due again in its tick. *)
LEMMA ReturnKept ==
  ASSUME TypeOK, WalkInv, NEW n \in Periods, Return(n)
  PROVE  WalkInv'
<1>1. PICK rank \in [Alarms -> Int] : Ordered(rank) /\ Timed(rank)
  BY DEF WalkInv, OnTime
<1>2. /\ Linked /\ LinkedBack /\ Walk /\ pc = "callback" /\ pc' = "visit" /\ alarm' = saved
      /\ alarm \in Alarms /\ alarm # saved /\ saved \in Listed \cup {Head}
      /\ _alt_nticks' = _alt_nticks
  BY DEF TypeOK, Linked, WalkInv, Walk, From, Return
<1>3. From' = From /\ From = saved
  BY <1>2 DEF From
<1>4. \A b \in Listed : ToVisit(rank, b) => ToVisit(rank, b)'
  BY <1>2, <1>3 DEF ToVisit
<1>5. CASE n = 0
  <2>1. alt_llist_remove(alarm) /\ UNCHANGED <<time, rollover>>
    BY <1>5 DEF Return
  <2>2. LinkedBack' /\ Ordered(rank)' /\ Listed' = Listed \ {alarm}
    BY <1>1, <1>2, <2>1, Removed, RemoveKeepsOrder
  <2>3. Walk'
    BY <1>2, <1>3, <2>2 DEF Walk
  <2>4. Timed(rank)'
    BY <1>1, <1>2, <1>4, <2>1, <2>2 DEF Timed
  <2> QED
    BY <2>2, <2>3, <2>4 DEF WalkInv, OnTime
<1>6. CASE n # 0
  <2>1. /\ time' = [time EXCEPT ![alarm] = Plus(time[alarm], n)]
        /\ rollover' = [rollover EXCEPT ![alarm] = rollover[alarm] \/ time'[alarm] < _alt_nticks]
        /\ next' = next /\ previous' = previous
    BY <1>6 DEF Return, list
  <2>2. Listed' = Listed /\ LinkedBack' /\ Ordered(rank)'
    BY <1>1, <1>2, <2>1 DEF Listed, LinkedBack, Ordered
  <2>3. Walk'
    BY <1>2, <1>3, <2>2 DEF Walk
  <2>4. ASSUME NEW b \in Listed
        PROVE  /\ time'[b] < _alt_nticks => rollover'[b]
               /\ rollover'[b] =>
                    time'[b] < _alt_nticks \/ (_alt_nticks = 0 /\ ToVisit(rank, b)')
               /\ time'[b] = _alt_nticks => ToVisit(rank, b)'
    <3>1. CASE b = alarm
      <4>1. time[alarm] = _alt_nticks /\ ~rollover[alarm]
        BY <1>1, <1>2, <2>4, <3>1 DEF Timed
      <4>2. time'[alarm] = Plus(_alt_nticks, n)
        BY <1>2, <2>1, <4>1 DEF TypeOK
      <4>3. rollover'[alarm] = (rollover[alarm] \/ time'[alarm] < _alt_nticks)
        BY <1>2, <2>1 DEF TypeOK
      <4> QED
        BY <1>6, <3>1, <4>1, <4>2, <4>3, PeriodTime
    <3>2. CASE b # alarm
      <4>1. time'[b] = time[b] /\ rollover'[b] = rollover[b]
        BY <2>1, <3>2 DEF TypeOK, Listed
      <4> QED
        BY <1>1, <1>4, <3>2, <4>1 DEF Timed
    <3> QED
      BY <3>1, <3>2
  <2>5. Timed(rank)'
    BY <1>2, <2>2, <2>4 DEF Timed
  <2> QED
    BY <2>2, <2>3, <2>5 DEF WalkInv, OnTime
<1> QED
  BY <1>5, <1>6

LEMMA TickEndKept ==
  ASSUME TypeOK, WalkInv, TickEnd
  PROVE  WalkInv'
<1>1. PICK rank \in [Alarms -> Int] : Ordered(rank) /\ Timed(rank)
  BY DEF WalkInv, OnTime
<1>2. /\ LinkedBack /\ pc = "visit" /\ alarm = Head /\ pc' = "idle"
      /\ UNCHANGED <<_alt_nticks, next, previous, time, rollover>>
  BY DEF WalkInv, TickEnd, list
<1>3. Listed' = Listed /\ LinkedBack' /\ Ordered(rank)' /\ Walk'
  BY <1>1, <1>2 DEF Listed, LinkedBack, Ordered, Walk
<1>4. \A b \in Listed : ~ToVisit(rank, b)
  BY <1>2 DEF ToVisit, From
<1>5. Timed(rank)'
  BY <1>1, <1>2, <1>3, <1>4 DEF Timed
<1> QED
  BY <1>3, <1>5 DEF WalkInv, OnTime

(***************************************************************************)
(* The walk of alt_tick keeps its order: the list is one line from the     *)
(* head back to the head, whatever threads and callbacks insert and remove,*)
(* and an alarm that is due in this tick is still ahead, or in its call.   *)
(* That needs callbacks to leave alone the alarm alt_tick goes to next.    *)
(***************************************************************************)
THEOREM WalkKept ==
  ASSUME StopAny = FALSE
  PROVE  Spec => []WalkInv
<1>1. Init => WalkInv
  <2> SUFFICES ASSUME Init PROVE WalkInv
    OBVIOUS
  <2> DEFINE rank == [a \in Alarms |-> 0]
  <2>1. Listed = {} /\ pc = "idle"
    BY DEF Init, Listed, Entries
  <2>2. rank \in [Alarms -> Int] /\ Ordered(rank) /\ Timed(rank)
    BY <2>1 DEF Ordered, Timed
  <2>3. LinkedBack
    BY DEF Init, LinkedBack
  <2> QED
    BY <2>1, <2>2, <2>3 DEF WalkInv, Walk, OnTime
<1>2. TypeOK /\ TypeOK' /\ WalkInv /\ [Next]_vars => WalkInv'
  <2> SUFFICES ASSUME TypeOK, TypeOK', WalkInv, [Next]_vars PROVE WalkInv'
    OBVIOUS
  <2>1. CASE Tick
    BY <2>1, TickKept
  <2>2. CASE Interrupt
    BY <2>2, VisitKept, TickEndKept, ReturnKept DEF Interrupt
  <2>3. CASE Thread
    BY <2>3, StartKept, StopKept DEF Thread
  <2>4. CASE Callback
    BY <2>4, StartKept, StopKept DEF Callback
  <2>5. CASE UNCHANGED vars
    <3>1. PICK rank \in [Alarms -> Int] : Ordered(rank) /\ Timed(rank)
      BY DEF WalkInv, OnTime
    <3>2. /\ UNCHANGED <<_alt_nticks, next, previous, time, rollover, pc, alarm, saved>>
          /\ Listed' = Listed
      BY <2>5 DEF vars, list, Listed
    <3>3. Ordered(rank)'
      BY <3>1, <3>2 DEF Ordered
    <3>4. Timed(rank)'
      BY <3>1, <3>2 DEF Timed, ToVisit, From
    <3>5. LinkedBack' /\ Walk'
      BY <3>2 DEF WalkInv, LinkedBack, Walk, From
    <3> QED
      BY <3>3, <3>4, <3>5 DEF WalkInv, OnTime
  <2> QED
    BY <2>1, <2>2, <2>3, <2>4, <2>5 DEF Next
<1> QED
  BY <1>1, <1>2, LinksConsistent, PTL DEF Spec

-----------------------------------------------------------------------------
(* Each step of the list is a step of the promise, or none.                *)

Remaining == [a \in Alarms |-> Left(a)]

LEMMA StartPromised ==
  ASSUME TypeOK, WalkInv, NEW a \in Alarms, NEW n \in StartTicks, alt_alarm_start(a, n)
  PROVE  Promise!Start(a, n)
<1>1. /\ Linked /\ LinkedBack /\ a \notin Listed /\ alt_llist_insert(a)
      /\ _alt_nticks' = _alt_nticks
      /\ time' = [time EXCEPT ![a] = Plus(n, Plus(_alt_nticks, 1))]
  BY DEF TypeOK, Linked, WalkInv, alt_alarm_start
<1>2. Listed' = Listed \cup {a}
  BY <1>1, Inserted
<1>3. time'[a] = Plus(n, Plus(_alt_nticks, 1))
  BY <1>1 DEF TypeOK
<1>4. Left(a)' = n + 1
  BY <1>1, <1>2, <1>3, StartTime DEF Left
<1>5. \A b \in Alarms : b # a => Left(b)' = Left(b)
  BY <1>1, <1>2 DEF Left, TypeOK
<1>6. Remaining' = [Remaining EXCEPT ![a] = n + 1]
  BY <1>4, <1>5 DEF Remaining
<1> QED
  BY <1>1, <1>2, <1>6 DEF Promise!Start, Remaining

(* A listed alarm is taken off. *)
LEMMA RemovePromised ==
  ASSUME TypeOK, WalkInv, NEW a \in Listed, alt_llist_remove(a),
         UNCHANGED <<_alt_nticks, time>>
  PROVE  Promise!Stop(a)
<1>1. Linked /\ LinkedBack /\ a \in Alarms
  BY DEF TypeOK, Linked, WalkInv, Listed
<1>2. Listed' = Listed \ {a}
  BY <1>1, RemoveKeepsOrder DEF WalkInv, OnTime
<1>3. Left(a)' = 0 /\ \A b \in Alarms : b # a => Left(b)' = Left(b)
  BY <1>2 DEF Left
<1>4. Remaining' = [Remaining EXCEPT ![a] = 0]
  BY <1>1, <1>3 DEF Remaining
<1> QED
  BY <1>2, <1>4 DEF Promise!Stop, Remaining

(* When a tick begins, no alarm was left uncalled in the last one. *)
LEMMA TickPromised ==
  ASSUME TypeOK, WalkInv, Tick
  PROVE  Promise!Tick
<1>1. PICK rank \in [Alarms -> Int] : Timed(rank)
  BY DEF WalkInv, OnTime
<1>2. /\ pc = "idle" /\ _alt_nticks' = Plus(_alt_nticks, 1)
      /\ next' = next /\ time' = time
  BY DEF Tick, list
<1>3. Listed' = Listed
  BY <1>2 DEF Listed
<1>4. ASSUME NEW a \in Listed
      PROVE  Left(a) > 0 /\ Left(a)' = Left(a) - 1
  <2>1. time[a] # _alt_nticks
    BY <1>1, <1>2 DEF Timed, ToVisit
  <2>2. time[a] \in 0..(Modulus - 1) /\ _alt_nticks \in 0..(Modulus - 1)
        /\ Modulus \in Nat \ {0, 1}
    BY AlarmListAssumption DEF TypeOK, Listed
  <2>3. Left(a) = IF time[a] >= _alt_nticks THEN time[a] - _alt_nticks
                  ELSE time[a] - _alt_nticks + Modulus
    BY DEF Left
  <2>4. Left(a)' = IF time[a] >= Plus(_alt_nticks, 1) THEN time[a] - Plus(_alt_nticks, 1)
                   ELSE time[a] - Plus(_alt_nticks, 1) + Modulus
    BY <1>2, <1>3 DEF Left
  <2> QED
    BY <2>1, <2>2, <2>3, <2>4 DEF Plus
<1>5. \A a \in Alarms : a \notin Listed => Left(a)' = 0
  BY <1>3 DEF Left
<1>6. Remaining' = [a \in Alarms |-> IF a \in Listed THEN Remaining[a] - 1 ELSE 0]
  BY <1>4, <1>5 DEF Remaining
<1>7. \A a \in Listed : Remaining[a] > 0
  BY <1>4 DEF Remaining, Listed
<1> QED
  BY <1>3, <1>6, <1>7 DEF Promise!Tick, Remaining

(* The callback returns, in the tick that its alarm was set to. *)
LEMMA ReturnPromised ==
  ASSUME TypeOK, WalkInv, NEW n \in Periods, Return(n)
  PROVE  \/ \E a \in Alarms : Promise!CallLast(a)
         \/ \E a \in Alarms, t \in 1..(Modulus - 1) : Promise!Call(a, t)
         \/ Listed' = Listed /\ Remaining' = Remaining
<1>1. PICK rank \in [Alarms -> Int] : Timed(rank)
  BY DEF WalkInv, OnTime
<1>2. PICK a \in Alarms : pc = "callback" /\ _alt_nticks' = _alt_nticks /\ alarm = a
  BY DEF Return, WalkInv, Walk
<1>3. a \in Listed => time[a] = _alt_nticks /\ Left(a) = 0
  <2>1. a \in Listed => time[a] = _alt_nticks
    BY <1>1, <1>2 DEF Timed
  <2> QED
    BY <2>1, AlarmListAssumption DEF Left, TypeOK
<1>4. CASE n = 0
  <2>1. alt_llist_remove(a) /\ time' = time
    BY <1>2, <1>4 DEF Return
  <2>2. CASE a \in Listed
    <3>1. Promise!Stop(a)
      BY <1>2, <2>1, <2>2, RemovePromised
    <3> QED
      BY <1>2, <1>3, <2>2, <3>1 DEF Promise!CallLast
  <2>3. CASE a \notin Listed
    <3>1. Listed' = Listed
      <4>1. Linked /\ LinkedBack
        BY DEF TypeOK, Linked, WalkInv
      <4> QED
        BY <2>1, <2>3, <4>1, RemoveKeepsOrder DEF WalkInv, OnTime
    <3> QED
      BY <1>2, <2>1, <3>1 DEF Remaining, Left
  <2> QED
    BY <2>2, <2>3
<1>5. CASE n # 0
  <2>1. time' = [time EXCEPT ![a] = Plus(time[a], n)] /\ Listed' = Listed
    BY <1>2, <1>5 DEF Return, list, Listed
  <2>2. \A b \in Alarms : b # a => Left(b)' = Left(b)
    BY <1>2, <2>1 DEF Left, TypeOK
  <2>3. CASE a \in Listed
    <3>1. time'[a] = Plus(_alt_nticks, n)
      BY <1>2, <1>3, <2>1, <2>3 DEF TypeOK
    <3>2. Left(a)' = n
      BY <1>2, <1>5, <2>1, <2>3, <3>1, PeriodTime DEF Left
    <3>3. Remaining' = [Remaining EXCEPT ![a] = n]
      BY <1>2, <2>2, <3>2 DEF Remaining
    <3>4. n \in 1..(Modulus - 1)
      BY <1>5, AlarmListAssumption
    <3>5. Remaining[a] = 0
      BY <1>2, <1>3, <2>3 DEF Remaining
    <3>6. Promise!Call(a, n)
      BY <2>1, <2>3, <3>3, <3>5 DEF Promise!Call, Remaining
    <3> QED
      BY <1>2, <3>4, <3>6
  <2>4. CASE a \notin Listed
    <3>1. Left(a)' = Left(a)
      BY <2>1, <2>4 DEF Left
    <3> QED
      BY <2>1, <2>2, <3>1 DEF Remaining
  <2> QED
    BY <2>3, <2>4
<1> QED
  BY <1>4, <1>5

(***************************************************************************)
(* Alarms are called in their tick, no earlier, no later and not twice,    *)
(* across every wrap of the counter and every change of the list during    *)
(* alt_tick, for any number of alarms and any width of the counter: when   *)
(* callbacks leave alone the alarm that alt_tick goes to next.             *)
(***************************************************************************)
THEOREM AlarmsOnTime ==
  ASSUME StopAny = FALSE
  PROVE  Spec => ImplementsAlarms
<1>1. Init => Promise!Init
  <2> SUFFICES ASSUME Init PROVE Promise!Init
    OBVIOUS
  <2>1. Listed = {}
    BY DEF Init, Listed, Entries
  <2> QED
    BY <2>1 DEF Promise!Init, Left
<1>2. TypeOK /\ WalkInv /\ [Next]_vars => [Promise!Next]_(Promise!vars)
  <2> SUFFICES ASSUME TypeOK, WalkInv, [Next]_vars
               PROVE  Promise!Next \/ (Listed' = Listed /\ Remaining' = Remaining)
    BY DEF Promise!vars, Remaining
  <2>1. CASE Tick
    BY <2>1, TickPromised DEF Promise!Next
  <2>2. CASE Visit
    BY <2>2 DEF Visit, list, Listed, Remaining, Left
  <2>3. CASE TickEnd
    BY <2>3 DEF TickEnd, list, Listed, Remaining, Left
  <2>4. ASSUME NEW n \in Periods, Return(n)
        PROVE  Promise!Next \/ (Listed' = Listed /\ Remaining' = Remaining)
    BY <2>4, ReturnPromised DEF Promise!Next
  <2>5. ASSUME NEW a \in Alarms, NEW n \in StartTicks, alt_alarm_start(a, n)
        PROVE  Promise!Next
    <3>1. n \in 0..(Modulus - 1)
      BY AlarmListAssumption
    <3> QED
      BY <2>5, <3>1, StartPromised DEF Promise!Next
  <2>6. ASSUME NEW a \in Alarms, alt_alarm_stop(a)
        PROVE  Promise!Next
    <3>1. Promise!Stop(a)
      BY <2>6, RemovePromised DEF alt_alarm_stop
    <3> QED
      BY <3>1 DEF Promise!Next
  <2>7. CASE UNCHANGED vars
    BY <2>7 DEF vars, list, Listed, Remaining, Left
  <2> QED
    BY <2>1, <2>2, <2>3, <2>4, <2>5, <2>6, <2>7 DEF Next, Interrupt, Thread, Callback
<1> QED
  BY <1>1, <1>2, LinksConsistent, WalkKept, PTL DEF Spec, ImplementsAlarms, Promise!Spec

=============================================================================
