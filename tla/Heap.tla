-------------------------------- MODULE Heap --------------------------------
(***************************************************************************)
(* What one partition promises its callers, with the buckets, the spans,   *)
(* the lock and the thread caches left out: a slot belongs to the          *)
(* allocator, to the application, or it is retired (freed by the           *)
(* application and not yet reusable, because the PCScan quarantine or a    *)
(* CheckedPtr holds it back).  PartitionRootHeap shows that PartitionRoot  *)
(* implements this specification.                                          *)
(***************************************************************************)
EXTENDS Naturals

CONSTANTS
    Slots,     \* the slots of the partition
    MaxPins    \* bound on the CheckedPtrs to one slot

VARIABLES
    owner,     \* per slot: who may use its memory
    pins       \* per slot: the CheckedPtrs that point at it

vars == <<owner, pins>>

Owners == {"allocator", "application", "retired"}

TypeOK == owner \in [Slots -> Owners] /\ pins \in [Slots -> 0..MaxPins]

Init == owner = [s \in Slots |-> "allocator"] /\ pins = [s \in Slots |-> 0]

Move(s, from, to) ==
    /\ owner[s] = from
    /\ owner' = [owner EXCEPT ![s] = to]
    /\ UNCHANGED pins

\* Alloc() hands a slot of the allocator to the application.
Take(s) == Move(s, "allocator", "application")

\* Free() takes it from the application; it is not reusable yet.
Retire(s) == Move(s, "application", "retired")

\* Only a retired slot that no CheckedPtr points at goes back to the allocator.
Reclaim(s) == pins[s] = 0 /\ Move(s, "retired", "allocator")

\* A CheckedPtr is made from a pointer the application owns, or from another
\* CheckedPtr.
Pin(s) ==
    /\ owner[s] = "application" \/ pins[s] > 0
    /\ pins[s] < MaxPins
    /\ pins' = [pins EXCEPT ![s] = @ + 1]
    /\ UNCHANGED owner

Unpin(s) ==
    /\ pins[s] > 0
    /\ pins' = [pins EXCEPT ![s] = @ - 1]
    /\ UNCHANGED owner

Next == \E s \in Slots : Take(s) \/ Retire(s) \/ Reclaim(s) \/ Pin(s) \/ Unpin(s)

Spec == Init /\ [][Next]_vars

=============================================================================
