---------------------------- MODULE BurstMaster ----------------------------
(***************************************************************************)
(* What the read master and the write master of the memory tester promise  *)
(* their environment: the words of a command are moved in order, each of   *)
(* them exactly once, in bursts that never run past the end of the command *)
(* and, when realignment is on, never cross a burst boundary; the next     *)
(* command is taken only when every word of the present one has been moved.*)
(*                                                                         *)
(* The promise is the one of the headers of mtm_pattern_reader.v and       *)
(* mtm_pattern_writer.v; PatternReader and PatternWriter implement it.     *)
(***************************************************************************)
EXTENDS Integers

CONSTANTS
  MaxBurst,   \* longest burst, in words
  Realigned,  \* TRUE iff no burst may cross a multiple of MaxBurst
  Commands    \* the commands a master may be given

VARIABLES
  job,    \* the command being executed
  moved,  \* how many of its words have been requested or written
  burst   \* the burst posted last: its address and its number of words

vars == <<job, moved, burst>>

(***************************************************************************)
(* The command a master holds when it comes out of reset.                  *)
(***************************************************************************)
NoCommand == [address |-> 0, length |-> 0]

Init ==
  /\ job = NoCommand
  /\ moved = 0
  /\ burst = [address |-> 0, count |-> 0]

Accept ==
  /\ moved = job.length
  /\ job' \in Commands
  /\ moved' = 0
  /\ UNCHANGED burst

Post ==
  /\ \E n \in 1..MaxBurst :
       /\ moved + n <= job.length
       /\ Realigned => ((job.address + moved) % MaxBurst) + n <= MaxBurst
       /\ burst' = [address |-> job.address + moved, count |-> n]
       /\ moved' = moved + n
  /\ UNCHANGED job

Next == Accept \/ Post

Spec == Init /\ [][Next]_vars /\ WF_vars(Post)
=============================================================================
