------------------------- MODULE MCSlotSpanLifeCycle -------------------------
(***************************************************************************)
(* SlotSpanLifeCycle for model checking: buckets and regions are           *)
(* interchangeable.                                                        *)
(***************************************************************************)
EXTENDS SlotSpanLifeCycle, TLC

Symmetry == Permutations(Buckets) \cup Permutations(DirectMaps)
=============================================================================
