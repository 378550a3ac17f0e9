--------------------------- MODULE MCPartitionRoot ---------------------------
(***************************************************************************)
(* PartitionRoot for TLC.  The constants are given in the .cfg files; this *)
(* module adds the symmetry of the threads, which the safety runs use.     *)
(***************************************************************************)
EXTENDS PartitionRoot, TLC

\* Threads are interchangeable: no action tells one thread from another.
ThreadSymmetry == Permutations(Threads)

=============================================================================
