------------------------ MODULE MCPartitionAllocator ------------------------
(***************************************************************************)
(* PartitionAllocator for TLC: the threads are interchangeable, and so are  *)
(* the blocks, which no action tells apart.                                *)
(***************************************************************************)
EXTENDS PartitionAllocator, TLC

Symmetry == Permutations(Threads) \cup Permutations(Blocks)

=============================================================================
