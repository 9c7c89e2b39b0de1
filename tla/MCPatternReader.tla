-------------------------- MODULE MCPatternReader --------------------------
(***************************************************************************)
(* The read master on transfers of up to MaxWords words.                   *)
(***************************************************************************)
EXTENDS PatternReader, BlockPlan

CONSTANTS Bases, Lengths, BlockSizes

(***************************************************************************)
(* The base, the block size and the length being multiples of the burst    *)
(* length is the usual case; CompatiblePlans has some others too.          *)
(***************************************************************************)
AllPlans == {Blocks(b, l, s) : b \in Bases, l \in Lengths, s \in BlockSizes}

CompatiblePlans == {plan \in AllPlans : Compatible(plan)}
=============================================================================
