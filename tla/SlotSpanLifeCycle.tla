-------------------------- MODULE SlotSpanLifeCycle --------------------------
(***************************************************************************)
(* The life of a slot span (active, full, empty, decommitted), the ring of *)
(* empty slot spans and the three bookkeeping counters of PartitionRoot.   *)
(* Every operation runs under lock_, so an operation is one step that      *)
(* changes the metadata; the calls it makes to the page allocator and the  *)
(* updates of the counters follow one by one (todo), because               *)
(* get_total_size_of_committed_pages() reads the counters without lock_.   *)
(* The updates are relaxed: the counters are what such a reader sees, each *)
(* counter in the order of its updates, two counters in any order.         *)
(* The counters and the four helpers that move them are translated from    *)
(* partition_root.h; the span lists, the ring and PurgeMemory() live in    *)
(* files outside the repository and follow the specification.             *)
(***************************************************************************)
EXTENDS Integers, FiniteSets, SequencesExt

CONSTANTS
    Buckets,            \* the size classes that take part
    DirectMaps,         \* the regions the direct map can reserve
    MaxSpans,           \* bound: slot spans the address space has room for
    SlotsPerSpan,       \* slots of a slot span
    kMaxFreeableSpans,  \* length of global_empty_slot_span_ring
    kSuperPageSize,     \* pages of a super page, metadata included
    SpansPerSuperPage,  \* slot spans carved from one super page
    SpanBytes,          \* pages of a slot span
    DirectBytes,        \* pages of the slot of a direct-mapped region
    DirectGuard,        \* pages a region reserves around its slot
    SizeT,              \* 2^(bits of size_t): fetch_add and fetch_sub wrap
    Null

ASSUME /\ SpansPerSuperPage * SpanBytes < kSuperPageSize
       /\ DirectGuard > 0 /\ kMaxFreeableSpans > 0 /\ SlotsPerSpan > 0

VARIABLES
    state,              \* of a slot span; "none" before it is carved
    bucket_of,          \* slot_span->bucket
    allocated,          \* slot_span->num_allocated_slots
    active,             \* bucket->active_slot_spans_head, as a list
    global_empty_slot_span_ring,
    global_empty_slot_span_ring_index,
    direct_map_list,
    deferred_unmap,     \* regions unlinked and not yet given back
    resident,           \* what the page allocator holds committed
    total_size_of_committed_pages,
    total_size_of_super_pages,
    total_size_of_direct_mapped_pages,
    todo                \* the calls the holder of lock_ has still to make

lists == <<state, bucket_of, allocated, active>>
ring == <<global_empty_slot_span_ring, global_empty_slot_span_ring_index>>
counters == <<total_size_of_committed_pages, total_size_of_super_pages,
              total_size_of_direct_mapped_pages>>
vars == <<lists, ring, direct_map_list, deferred_unmap, resident, counters,
          todo>>

Spans == 1..MaxSpans
RingSlots == 0..(kMaxFreeableSpans - 1)

PartitionPurgeFlags ==
    {"PartitionPurgeDecommitEmptySlotSpans",
     "PartitionPurgeDiscardUnusedSystemPages", "PartitionPurgeForceAllFreed"}

Call(op, at, len) == [op |-> op, at |-> at, len |-> len]

\* Fault: the counter is moved the wrong way.
DecreaseCommittedPagesAdds(len) ==
    (total_size_of_committed_pages + len) % SizeT

IncreaseCommittedPages(len) == (total_size_of_committed_pages + len) % SizeT

DecreaseCommittedPages(len) ==
    (total_size_of_committed_pages + SizeT - len) % SizeT

DecommitSystemPagesForData(address, length) ==
    <<Call("DecommitSystemPages", address, length),
      Call("DecreaseCommittedPages", address, length)>>

\* Fault: the pages are committed again and the counter is not raised.
RecommitSystemPagesForDataNoCount(address, length) ==
    <<Call("RecommitSystemPages", address, length)>>

RecommitSystemPagesForData(address, length) ==
    <<Call("RecommitSystemPages", address, length),
      Call("IncreaseCommittedPages", address, length)>>

get_total_size_of_committed_pages == total_size_of_committed_pages

Init ==
    /\ state = [s \in Spans |-> "none"]
    /\ bucket_of = [s \in Spans |-> Null]
    /\ allocated = [s \in Spans |-> 0]
    /\ active = [b \in Buckets |-> <<>>]
    /\ global_empty_slot_span_ring = [i \in RingSlots |-> Null]
    /\ global_empty_slot_span_ring_index = 0
    /\ direct_map_list = {}
    /\ deferred_unmap = {}
    /\ resident = {}
    /\ total_size_of_committed_pages = 0
    /\ total_size_of_super_pages = 0
    /\ total_size_of_direct_mapped_pages = 0
    /\ todo = <<>>

SpansIn(b, st) == {s \in Spans : state[s] = st /\ bucket_of[s] = b}
Carved == Cardinality({s \in Spans : state[s] # "none"})

\* A slot of span s goes to the caller: s is the head of the active list of
\* b, or leaves the list when its last slot is taken.
TakeSlot(b, s) ==
    LET full == allocated[s] + 1 = SlotsPerSpan
        rest == SelectSeq(active[b], LAMBDA x : x # s)
    IN  /\ allocated' = [allocated EXCEPT ![s] = @ + 1]
        /\ state' = [state EXCEPT ![s] = IF full THEN "full" ELSE "active"]
        /\ active' = [active EXCEPT ![b] = IF full THEN rest ELSE <<s>> \o rest]
        /\ bucket_of' = [bucket_of EXCEPT ![s] = b]

\* The allocation path prefers the head of the active list.
AllocFromActive(b) ==
    /\ todo = <<>> /\ active[b] # <<>>
    /\ TakeSlot(b, Head(active[b]))
    /\ UNCHANGED <<ring, direct_map_list, deferred_unmap, resident, counters,
                   todo>>

\* Fault: the span that is used again stays in the ring.
ReAdoptKeepsRingEntry(b) ==
    /\ todo = <<>> /\ active[b] = <<>>
    /\ \E s \in SpansIn(b, "empty") : TakeSlot(b, s)
    /\ UNCHANGED <<ring, direct_map_list, deferred_unmap, resident, counters,
                   todo>>

\* Empty -> Active: an empty span is taken out of the ring and used again;
\* its pages never left.
ReAdopt(b) ==
    /\ todo = <<>> /\ active[b] = <<>>
    /\ \E s \in SpansIn(b, "empty") :
        /\ TakeSlot(b, s)
        /\ global_empty_slot_span_ring' =
              [i \in RingSlots |-> IF global_empty_slot_span_ring[i] = s
                                   THEN Null ELSE global_empty_slot_span_ring[i]]
    /\ UNCHANGED <<global_empty_slot_span_ring_index, direct_map_list,
                   deferred_unmap, resident, counters, todo>>

\* Decommitted -> Active: only when the bucket has no empty span.
RecommitSpan(b) ==
    /\ todo = <<>> /\ active[b] = <<>> /\ SpansIn(b, "empty") = {}
    /\ \E s \in SpansIn(b, "decommitted") :
        /\ TakeSlot(b, s)
        /\ todo' = RecommitSystemPagesForData(s, SpanBytes)
    /\ UNCHANGED <<ring, direct_map_list, deferred_unmap, resident, counters>>

\* A new span is carved from the current super page, or from a super page
\* reserved for it when that one is used up.
CarveSpan(b) ==
    /\ todo = <<>> /\ active[b] = <<>> /\ Carved < MaxSpans
    /\ SpansIn(b, "empty") = {} /\ SpansIn(b, "decommitted") = {}
    /\ TakeSlot(b, Carved + 1)
    /\ todo' = (IF Carved % SpansPerSuperPage = 0
                THEN <<Call("total_size_of_super_pages", Null, kSuperPageSize)>>
                ELSE <<>>)
               \o RecommitSystemPagesForData(Carved + 1, SpanBytes)
    /\ UNCHANGED <<ring, direct_map_list, deferred_unmap, resident, counters>>

\* A slot comes back and others of the span are still allocated: a full
\* span becomes the head of the active list again.
FreeToActive(s) ==
    /\ todo = <<>> /\ allocated[s] > 1
    /\ allocated' = [allocated EXCEPT ![s] = @ - 1]
    /\ state' = [state EXCEPT ![s] = "active"]
    /\ active' = [active EXCEPT ![bucket_of[s]] =
                     IF state[s] = "full" THEN <<s>> \o @ ELSE @]
    /\ UNCHANGED <<bucket_of, ring, direct_map_list, deferred_unmap, resident,
                   counters, todo>>

\* Fault: the index runs past the end of the ring.
NextRingIndexNoWrap == global_empty_slot_span_ring_index + 1

NextRingIndex == (global_empty_slot_span_ring_index + 1) % kMaxFreeableSpans

\* Active -> Empty: the span whose last slot came back takes the place of
\* the oldest entry of the ring, and that one is decommitted.
FreeToEmpty(s) ==
    LET evicted == global_empty_slot_span_ring[global_empty_slot_span_ring_index]
    IN  /\ todo = <<>> /\ allocated[s] = 1
        /\ allocated' = [allocated EXCEPT ![s] = 0]
        /\ active' = [active EXCEPT ![bucket_of[s]] =
                         SelectSeq(@, LAMBDA x : x # s)]
        /\ state' = [x \in Spans |-> IF x = s THEN "empty"
                                     ELSE IF x = evicted THEN "decommitted"
                                     ELSE state[x]]
        /\ global_empty_slot_span_ring' =
              [global_empty_slot_span_ring
                  EXCEPT ![global_empty_slot_span_ring_index] = s]
        /\ global_empty_slot_span_ring_index' = NextRingIndex
        /\ todo' = IF evicted = Null THEN <<>>
                   ELSE DecommitSystemPagesForData(evicted, SpanBytes)
        /\ UNCHANGED <<bucket_of, direct_map_list, deferred_unmap, resident,
                       counters>>

\* The spans of the ring, oldest slot first.
RingEntries ==
    SelectSeq([i \in 1..kMaxFreeableSpans |-> global_empty_slot_span_ring[i - 1]],
              LAMBDA x : x # Null)

DecommitEmptySlotSpans ==
    FlattenSeq([i \in 1..Len(RingEntries) |->
                   DecommitSystemPagesForData(RingEntries[i], SpanBytes)])

\* PurgeMemory(flags): with PartitionPurgeDecommitEmptySlotSpans every span
\* of the ring is decommitted.  Discarding pages of free slots and forcing
\* deferred frees change nothing this module keeps.
PurgeMemory(flags) ==
    /\ todo = <<>> /\ "PartitionPurgeDecommitEmptySlotSpans" \in flags
    /\ state' = [s \in Spans |-> IF s \in ToSet(RingEntries)
                                 THEN "decommitted" ELSE state[s]]
    /\ global_empty_slot_span_ring' = [i \in RingSlots |-> Null]
    /\ todo' = DecommitEmptySlotSpans
    /\ UNCHANGED <<bucket_of, allocated, active,
                   global_empty_slot_span_ring_index, direct_map_list,
                   deferred_unmap, resident, counters>>

\* The direct map reserves a region, guard pages included, and commits the
\* pages of its slot.
AllocDirect(d) ==
    /\ todo = <<>> /\ d \notin direct_map_list \cup deferred_unmap
    /\ direct_map_list' = direct_map_list \cup {d}
    /\ todo' = <<Call("total_size_of_direct_mapped_pages", d,
                      DirectBytes + DirectGuard)>>
               \o RecommitSystemPagesForData(d, DirectBytes)
    /\ UNCHANGED <<lists, ring, deferred_unmap, resident, counters>>

\* Free of a region: unlinked and taken off the counters under lock_, given
\* back to the system by deferred_unmap.Run() after the lock is released.
FreeDirect(d) ==
    /\ todo = <<>> /\ d \in direct_map_list
    /\ direct_map_list' = direct_map_list \ {d}
    /\ deferred_unmap' = deferred_unmap \cup {d}
    /\ todo' = <<Call("DecreaseCommittedPages", d, DirectBytes),
                 Call("total_size_of_direct_mapped_pages", d,
                      SizeT - (DirectBytes + DirectGuard))>>
    /\ UNCHANGED <<lists, ring, resident, counters>>

DeferredUnmapRun(d) ==
    /\ d \in deferred_unmap /\ \A i \in DOMAIN todo : todo[i].at # d
    /\ deferred_unmap' = deferred_unmap \ {d}
    /\ resident' = resident \ {d}
    /\ UNCHANGED <<lists, ring, direct_map_list, counters, todo>>

\* What a call acts on: the page allocator, or one of the atomic counters.
Target(c) ==
    CASE c.op \in {"RecommitSystemPages", "DecommitSystemPages"} -> "resident"
      [] c.op \in {"IncreaseCommittedPages", "DecreaseCommittedPages"} ->
            "total_size_of_committed_pages"
      [] OTHER -> c.op

\* std::memory_order_relaxed: a thread that holds no lock sees the updates
\* of one counter in program order, and those of different counters in any
\* order.  The call todo[i] can be the next to take effect when no call
\* before it has the same target.
Eligible(i) == \A j \in 1..(i - 1) : Target(todo[j]) # Target(todo[i])

\* The holder of lock_ makes its next call to the page allocator.
SystemPagesStep ==
    /\ \E i \in DOMAIN todo :
        /\ Eligible(i)
        /\ \/ todo[i].op = "RecommitSystemPages"
              /\ resident' = resident \cup {todo[i].at}
           \/ todo[i].op = "DecommitSystemPages"
              /\ resident' = resident \ {todo[i].at}
        /\ todo' = RemoveAt(todo, i)
    /\ UNCHANGED <<lists, ring, direct_map_list, deferred_unmap, counters>>

\* The next relaxed update of a counter becomes visible.
CounterStep ==
    /\ \E i \in DOMAIN todo :
        /\ Eligible(i)
        /\ \/ /\ todo[i].op = "IncreaseCommittedPages"
              /\ total_size_of_committed_pages' =
                    IncreaseCommittedPages(todo[i].len)
              /\ UNCHANGED <<total_size_of_super_pages,
                             total_size_of_direct_mapped_pages>>
           \/ /\ todo[i].op = "DecreaseCommittedPages"
              /\ total_size_of_committed_pages' =
                    DecreaseCommittedPages(todo[i].len)
              /\ UNCHANGED <<total_size_of_super_pages,
                             total_size_of_direct_mapped_pages>>
           \/ /\ todo[i].op = "total_size_of_super_pages"
              /\ total_size_of_super_pages' =
                    (total_size_of_super_pages + todo[i].len) % SizeT
              /\ UNCHANGED <<total_size_of_committed_pages,
                             total_size_of_direct_mapped_pages>>
           \/ /\ todo[i].op = "total_size_of_direct_mapped_pages"
              /\ total_size_of_direct_mapped_pages' =
                    (total_size_of_direct_mapped_pages + todo[i].len) % SizeT
              /\ UNCHANGED <<total_size_of_committed_pages,
                             total_size_of_super_pages>>
        /\ todo' = RemoveAt(todo, i)
    /\ UNCHANGED <<lists, ring, direct_map_list, deferred_unmap, resident>>

Next ==
    \/ \E b \in Buckets : AllocFromActive(b)
    \/ \E b \in Buckets : ReAdopt(b)
    \/ \E b \in Buckets : RecommitSpan(b)
    \/ \E b \in Buckets : CarveSpan(b)
    \/ \E s \in Spans : FreeToActive(s)
    \/ \E s \in Spans : FreeToEmpty(s)
    \/ \E flags \in SUBSET PartitionPurgeFlags : PurgeMemory(flags)
    \/ \E d \in DirectMaps : AllocDirect(d)
    \/ \E d \in DirectMaps : FreeDirect(d)
    \/ \E d \in DirectMaps : DeferredUnmapRun(d)
    \/ SystemPagesStep
    \/ CounterStep

Spec == Init /\ [][Next]_vars

-----------------------------------------------------------------------------
BytesOf(S) == SpanBytes * Cardinality(S \cap Spans)
              + DirectBytes * Cardinality(S \cap DirectMaps)
Quiescent == todo = <<>>

TypeOK ==
    /\ state \in [Spans -> {"none", "active", "full", "empty", "decommitted"}]
    /\ bucket_of \in [Spans -> Buckets \cup {Null}]
    /\ allocated \in [Spans -> 0..SlotsPerSpan]
    /\ \A b \in Buckets : ToSet(active[b]) \subseteq Spans
    /\ global_empty_slot_span_ring \in [RingSlots -> Spans \cup {Null}]
    /\ global_empty_slot_span_ring_index \in RingSlots
    /\ direct_map_list \subseteq DirectMaps
    /\ deferred_unmap \subseteq DirectMaps
    /\ resident \subseteq Spans \cup DirectMaps
    /\ \A c \in {total_size_of_committed_pages, total_size_of_super_pages,
                 total_size_of_direct_mapped_pages} : c \in 0..(SizeT - 1)

\* The address space the root has reserved: its super pages, and its
\* direct-mapped regions with their guard pages until deferred_unmap.Run()
\* has given them back.
Reservation ==
    kSuperPageSize * ((Carved + SpansPerSuperPage - 1) \div SpansPerSuperPage)
    + (DirectBytes + DirectGuard)
        * Cardinality(direct_map_list \cup deferred_unmap)

CounterMatchesPages ==
    Quiescent =>
        /\ total_size_of_committed_pages = BytesOf(resident \ deferred_unmap)
        /\ \A s \in Spans : allocated[s] > 0 => s \in resident
        /\ direct_map_list \subseteq resident

\* The ring holds exactly the empty spans, each once: a span that is used
\* again has left it, so the oldest entry that FreeToEmpty() evicts is
\* never a span in use, and at most kMaxFreeableSpans empty spans keep
\* their pages.
RingIsTheEmptySpans ==
    /\ ToSet(RingEntries) = {s \in Spans : state[s] = "empty"}
    /\ Len(RingEntries) = Cardinality(ToSet(RingEntries))

\* Free(Alloc(n)) followed by PurgeMemory() returns the committed size to
\* what it was: once the ring is empty, the committed pages are those of the
\* spans and regions that hold an allocation, whatever was allocated and
\* freed before.
PurgedFootprintIsLiveFootprint ==
    Quiescent /\ RingEntries = <<>> =>
        total_size_of_committed_pages =
            BytesOf({s \in Spans : allocated[s] > 0} \cup direct_map_list)
=============================================================================
