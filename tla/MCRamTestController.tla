------------------------ MODULE MCRamTestController ------------------------
(***************************************************************************)
(* The test controller under a small set of control register writes.       *)
(***************************************************************************)
EXTENDS RamTestController

CONSTANTS Bases, Lengths, BlockSizes, Trails, Concurrent

(***************************************************************************)
(* What the software writes: every register of the test, and the start bit.*)
(***************************************************************************)
TestWrites ==
       [reg : {"base_address"}, value : Bases]
  \cup [reg : {"length"}, value : Lengths]
  \cup [reg : {"block_size"}, value : BlockSizes]
  \cup [reg : {"block_trail"}, value : Trails]
  \cup [reg : {"concurrent"}, value : Concurrent]
  \cup [reg : {"start"}, value : BOOLEAN]
=============================================================================
