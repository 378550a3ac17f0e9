-------------------------- MODULE PartitionRootHeap --------------------------
(***************************************************************************)
(* PartitionRoot implements Heap.  A slot is the application's from the    *)
(* step that takes it off a freelist or out of a thread cache bin (the     *)
(* rest of AllocFlagsNoHooks() only carries it to the caller) until        *)
(* FreeNoHooks() is entered; it is retired while the quarantine, a Free()  *)
(* in progress or a deferred free holds it; it is the allocator's while it *)
(* is on a freelist, in a bin or not provisioned.  A direct-mapped region   *)
(* is the allocator's while it is not reserved, and retired from Free()    *)
(* until deferred_unmap.Run() gives it back.                               *)
(***************************************************************************)
EXTENDS PartitionRoot, TLC

ThreadSymmetry == Permutations(Threads)

\* Whose slot it is, by the place that holds it: a frame carries it to the
\* caller ("ret") or away from the caller (the labels of Free).
OwnerAt(p) ==
    CASE p[1] = "live" -> "application"
      [] p[1] = "quarantine" -> "retired"
      [] p[1] = "frame" -> IF stack[p[2]][p[3]].pc = "ret"
                           THEN "application" ELSE "retired"
      [] p[1] \in {"freelist", "bin"} -> "allocator"

\* What the abstract heap hands out: the slots and the direct-mapped regions.
Regions == Slots \cup DirectMaps

\* A region has no reference count (AllocFlagsNoHooks() constructs none).
Pins(s) == IF is_direct_mapped(s) THEN 0 ELSE checked[s]

\* Held by nobody and rightly so: a slot that is not provisioned or whose
\* free is deferred, a region that is not reserved.
Unused(s) == IF is_direct_mapped(s) THEN s \notin mapped ELSE Unprovisioned(s)
Awaited(s) == ~is_direct_mapped(s) /\ Deferred(s)

\* A slot in two places, or one that is nowhere for no reason, has no owner
\* the abstract heap knows.
OwnerOf(s) ==
    CASE Cardinality(Places(s)) = 1 -> OwnerAt(CHOOSE p \in Places(s) : TRUE)
      [] Places(s) = {} /\ Awaited(s) -> "retired"
      [] Places(s) = {} /\ Unused(s) -> "allocator"
      [] OTHER -> "nobody"

Abstract == INSTANCE Heap WITH Slots   <- Regions,
                               owner   <- [s \in Regions |-> OwnerOf(s)],
                               pins    <- [s \in Regions |-> Pins(s)],
                               MaxPins <- MaxRefs

\* Every step of the root, of any thread and at any depth of the thread cache,
\* is a step of the abstract heap or leaves it unchanged: Alloc() only hands
\* out what the allocator owns, and nothing that was freed is handed out
\* again before it was reclaimed with no CheckedPtr left
\* (FreeNoHooksImmediate() returning early, PartitionAllocFreeForRefCounting()
\* finishing the free).
ImplementsHeap == Abstract!Spec

=============================================================================
