-------------------------- MODULE MCPatternWriter --------------------------
(***************************************************************************)
(* The write master on the tests of a small set of bases, lengths and block*)
(* sizes, with the payload as long as the transfer.                        *)
(***************************************************************************)
EXTENDS PatternWriter, BlockPlan

CONSTANTS Bases, Lengths, BlockSizes

WriteCommands(blocks) ==
  [i \in DOMAIN blocks |->
     [address |-> blocks[i].address, length |-> blocks[i].length]]

AllTests ==
  {[commands |-> WriteCommands(Blocks(base, length, block)), payload |-> length] :
     base \in Bases, length \in Lengths, block \in BlockSizes}

AlignedTests ==
  {test \in AllTests : \A i \in DOMAIN test.commands : EndsInFullBurst(test.commands[i])}
=============================================================================
