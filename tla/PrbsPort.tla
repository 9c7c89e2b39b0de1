------------------------------ MODULE PrbsPort ------------------------------
(***************************************************************************)
(* What the PRBS generator and the PRBS checker share: the shift register  *)
(* with feedback that makes the sequence, and the registers of the control *)
(* port.  A word is a function from its bits to BOOLEAN.                   *)
(***************************************************************************)
EXTENDS Integers, Sequences

CONSTANTS
  WIDTH,        \* bits of a word (16 to 128)
  POLYNOMIAL,   \* the bits that take the feedback
  SEED_VALUE,   \* first word of the sequence
  LENGTH_WRAP   \* values of the payload counter, in words

Bits  == 0..(WIDTH - 1)
Words == [Bits -> BOOLEAN]
Zero  == [d \in Bits |-> FALSE]

ASSUME PrbsAssumption ==
  /\ WIDTH \in Nat \ {0} /\ LENGTH_WRAP \in Nat \ {0}
  /\ POLYNOMIAL \in Words
  /\ SEED_VALUE \in Words \ {Zero}

(* Mutant: the highest bit is not fed back. *)
ShiftOnly(pipeline) ==
  [d \in Bits |-> IF d = WIDTH - 1 THEN FALSE
                  ELSE pipeline[d + 1] # (pipeline[0] /\ POLYNOMIAL[d])]

(* The word after this one: the highest bit takes the feedback always. *)
pipeline_input(pipeline) ==
  [d \in Bits |-> IF d = WIDTH - 1 THEN pipeline[0]
                  ELSE pipeline[d + 1] # (pipeline[0] /\ POLYNOMIAL[d])]

NoWrite == [reg |-> "none", value |-> 0]
Write(reg, value) == [reg |-> reg, value |-> value]
Load(write, reg, old) == IF write.reg = reg THEN write.value ELSE old

(* A core is seeded as long as the bit is set; starting it clears the bit. *)
Seeded(write, seed) ==
  IF write.reg = "start" /\ seed THEN FALSE ELSE Load(write, "seed", seed)

(* The pipeline of a core that may be seeded and may have a word to do. *)
Pipeline(core, pipeline_enable) ==
  IF core.seed THEN SEED_VALUE
  ELSE IF pipeline_enable THEN pipeline_input(core.pipeline) ELSE core.pipeline

(* The word the core will send or expect when it goes on. *)
NextWord(core) == IF core.seed THEN SEED_VALUE ELSE core.pipeline
=============================================================================
