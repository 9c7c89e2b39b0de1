---------------------------- MODULE MCAlarmList ----------------------------
(***************************************************************************)
(* Three alarms and a tick counter of five values.                         *)
(***************************************************************************)
EXTENDS AlarmList

CONSTANTS a1, a2, a3

const_Alarms == {a1, a2, a3}
const_StartTicks == {0, 3}
const_Periods == {0, 1, 4}
=============================================================================
