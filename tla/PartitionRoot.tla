---------------------------- MODULE PartitionRoot ----------------------------
(***************************************************************************)
(* One thread-safe PartitionRoot (base/allocator/partition_allocator/      *)
(* partition_root.h): the central allocator behind lock_, the per-thread   *)
(* cache in front of it, the PCScan quarantine and the per-slot reference  *)
(* count behind Free.                                                      *)
(*                                                                         *)
(* A thread executes an allocator call as a frame on its stack; every      *)
(* action is one step of the top frame and touches shared state at most    *)
(* once outside lock_.  The stack is deeper than one frame only while      *)
(* ThreadCache::Create() runs: libc may allocate to set up the TLS slot,   *)
(* which re-enters AllocFlagsNoHooks() on the same thread.                 *)
(*                                                                         *)
(* Data is abstracted to slot identity: a slot is <<span, index>>, sizes   *)
(* are bucket names, the in-slot freelist is a sequence whose head is      *)
(* freelist_head.  A request above kMaxBucketed names the sentinel bucket  *)
(* and is served by a region of its own from the direct-map pool.          *)
(* Cookies, memset patterns and hooks are left out.                        *)
(***************************************************************************)
EXTENDS Integers, Sequences, FiniteSets, SequencesExt

CONSTANTS
    Threads,          \* the threads that call into the root
    NoThread,         \* lock_ is free
    Buckets,          \* the size classes in use
    sentinel_bucket,  \* the bucket of the direct-mapped requests
    DirectMaps,       \* regions the direct-map pool has room for
    NumSpans,         \* slot spans the super page has room for
    SlotsPerSpan,     \* slots of one span
    ProvisionBatch,   \* slots a span provisions at a time
    BinLimit,         \* a thread cache bin is cleared when it holds this many
    MaxRefs,          \* bound on the CheckedPtr references to one slot
    MaxDepth,         \* bound on the frames of one thread's stack
    WithThreadCache,  \* PartitionOptions::ThreadCache is kEnabled
    Scannable,        \* PartitionOptions::PCScan is not kAlwaysDisabled
    AllowRefCount,    \* PartitionOptions::RefCount is kEnabled
    TlsAllocates,     \* libc allocates when a TLS variable is first set
    ThreadsExit,      \* threads end while the root is in use
    Null,             \* nullptr
    NoCache           \* ThreadCache::Get() of a thread that has none

ASSUME /\ NumSpans \in Nat \ {0} /\ SlotsPerSpan \in Nat \ {0}
       /\ ProvisionBatch \in 1..SlotsPerSpan
       /\ BinLimit \in Nat \ {0, 1} /\ MaxRefs \in Nat /\ MaxDepth \in Nat \ {0}
       /\ {WithThreadCache, Scannable, AllowRefCount, TlsAllocates,
           ThreadsExit} \subseteq BOOLEAN

VARIABLES
    lock,                    \* lock_: the thread inside a ScopedGuard
    with_thread_cache,       \* read and written without lock_
    pcscan_mode,             \* written under lock_, read without it
    slot_span,               \* per span: bucket, freelist, the two counters
    active_slot_spans_head,  \* per bucket: its list of active spans
    next_partition_page,     \* spans carved so far from the super page
    direct_map_list,         \* the direct-mapped regions of the root
    mapped,                  \* regions reserved from the direct-map pool
    tcache,                  \* per thread: NoCache or a bin per bucket
    quarantine,              \* slots PCScan holds back
    ref_count,               \* PartitionRefCount of each slot
    checked,                 \* CheckedPtr references the application holds
    zapped,                  \* slots overwritten with kQuarantinedByte
    live,                    \* pointers the application holds
    stack                    \* per thread: the frames of its allocator calls

heap   == <<slot_span, active_slot_spans_head, next_partition_page,
           direct_map_list>>
shared == <<lock, with_thread_cache, pcscan_mode>>
refs   == <<ref_count, checked, zapped>>
vars   == <<heap, shared, refs, tcache, quarantine, mapped, live, stack>>

Spans == 1..NumSpans
Slots == Spans \X (1..SlotsPerSpan)

PCScanModes == {"kNonScannable", "kDisabled", "kEnabled"}

\* Where a frame is: in AllocFlagsNoHooks, in ThreadCache::Create, in Free.
AllocPCs  == {"tc_off", "tc_create", "tc_tls", "tc_set", "tc_on", "get_cache",
              "raw_alloc", "bucket", "pop", "slow", "ret"}
CreatePCs == {"tc_create", "tc_tls", "tc_set"}
FreePCs   == {"has_one_ref", "release", "put", "clear", "clearing", "raw_free",
              "span_free", "unmap"}
ExitPCs   == {"purge", "purging"}
LockedPCs == {"bucket", "pop", "slow", "clearing", "purging", "span_free"}

Frame == [pc : AllocPCs \cup FreePCs \cup ExitPCs, bucket : Buckets \cup {sentinel_bucket},
          span : Spans \cup {Null}, ptr : Slots \cup DirectMaps \cup {Null}]

NewFrame(label, b, p) == [pc |-> label, bucket |-> b, span |-> Null, ptr |-> p]

Top(t)       == Last(stack[t])
Idle(t)      == stack[t] = <<>>
At(t, label) == ~Idle(t) /\ Top(t).pc = label

\* The top frame moves on, a call pushes a frame, a return pops it.
Step(t, f)  == stack' = [stack EXCEPT ![t] = Front(@) \o <<f>>]
Goto(t, l)  == Step(t, [Top(t) EXCEPT !.pc = l])
Call(t, f)  == stack' = [stack EXCEPT ![t] = Append(@, f)]
Return(t)   == stack' = [stack EXCEPT ![t] = Front(@)]

Acquire(t)  == lock = NoThread /\ lock' = t
Release     == lock' = NoThread

-----------------------------------------------------------------------------
(* Slot spans *)

is_direct_mapped(s) == s \in DirectMaps

BucketOf(s) == IF is_direct_mapped(s) THEN sentinel_bucket
               ELSE slot_span[s[1]].bucket

\* A span the bucket can still allocate from.
HasRoom(sp) ==
    slot_span[sp].freelist # <<>> \/ slot_span[sp].num_unprovisioned_slots > 0

FreshSpan(b) == [bucket |-> b, freelist |-> <<>>, num_allocated_slots |-> 0,
                 num_unprovisioned_slots |-> SlotsPerSpan]

\* Provisioning: the next batch of slots leaves the unprovisioned tail; the
\* first is handed out, the others form the freelist.
Provision(sp, m) ==
    LET first == SlotsPerSpan - m.num_unprovisioned_slots + 1
        n     == IF m.num_unprovisioned_slots < ProvisionBatch
                 THEN m.num_unprovisioned_slots ELSE ProvisionBatch
    IN  [ret  |-> <<sp, first>>,
         span |-> [m EXCEPT !.freelist = [i \in 1..(n - 1) |-> <<sp, first + i>>],
                            !.num_unprovisioned_slots = @ - n,
                            !.num_allocated_slots = @ + 1]]

\* One slot taken from a span that has room: the freelist head, else a
\* newly provisioned slot.
TakeSlot(sp, m) ==
    IF m.freelist # <<>>
    THEN [ret  |-> Head(m.freelist),
          span |-> [m EXCEPT !.freelist = Tail(@), !.num_allocated_slots = @ + 1]]
    ELSE Provision(sp, m)

\* Fault: a span that was full is not put back on the active list.
SlotSpanFreeNoRelink(s) ==
    /\ slot_span' = [slot_span EXCEPT ![s[1]].freelist = <<s>> \o @,
                                      ![s[1]].num_allocated_slots = @ - 1]
    /\ UNCHANGED <<active_slot_spans_head, next_partition_page,
                   direct_map_list>>

\* SlotSpanMetadata::Free(): the slot becomes the freelist head; a span that
\* was full and unlinked goes back to the head of its bucket's active list.
SlotSpanFree(s) ==
    LET sp == s[1]
        b  == slot_span[sp].bucket
    IN  /\ slot_span' = [slot_span EXCEPT ![sp].freelist = <<s>> \o @,
                                          ![sp].num_allocated_slots = @ - 1]
        /\ active_slot_spans_head' =
               [active_slot_spans_head EXCEPT
                    ![b] = IF Contains(@, sp) THEN @ ELSE <<sp>> \o @]
        /\ UNCHANGED <<next_partition_page, direct_map_list>>

\* PartitionDirectUnmap(): SlotSpanMetadata::Free() of a direct-mapped region
\* unlinks it and leaves the unmapping to the caller, as a DeferredUnmap.
PartitionDirectUnmap(d) ==
    /\ direct_map_list' = direct_map_list \ {d}
    /\ UNCHANGED <<slot_span, active_slot_spans_head, next_partition_page>>

-----------------------------------------------------------------------------
(* AllocFlagsNoHooks *)

\* The branch on with_thread_cache and ThreadCache::Get() that opens
\* AllocFlagsNoHooks: where a new frame starts.
AllocEntry(t) ==
    IF ~with_thread_cache THEN "raw_alloc"
    ELSE IF tcache[t] = NoCache THEN "tc_off" ELSE "get_cache"

AllocFlagsNoHooks(t, b) ==
    /\ Idle(t)
    /\ Call(t, NewFrame(AllocEntry(t), b, Null))
    /\ UNCHANGED <<heap, shared, refs, tcache, quarantine, mapped, live>>

\* Fault: the flag is left set while the cache is created.
TcDisableForgets(t) ==
    /\ At(t, "tc_off")
    /\ Goto(t, "tc_create")
    /\ UNCHANGED <<heap, shared, refs, tcache, quarantine, mapped, live>>

\* with_thread_cache = false, so that an allocation made inside
\* ThreadCache::Create() does not create a thread cache in turn.
TcDisable(t) ==
    /\ At(t, "tc_off")
    /\ with_thread_cache' = FALSE
    /\ Goto(t, "tc_create")
    /\ UNCHANGED <<heap, lock, pcscan_mode, refs, tcache, quarantine, mapped,
                   live>>

\* ThreadCache::Create() takes the storage of the cache from RawAlloc(); its
\* size class is none of Buckets, so of that call only lock_ is seen.
TcCreateStorage(t) ==
    /\ At(t, "tc_create")
    /\ lock = NoThread
    /\ Goto(t, "tc_tls")
    /\ UNCHANGED <<heap, shared, refs, tcache, quarantine, mapped, live>>

\* Setting the TLS variable makes libc allocate: AllocFlagsNoHooks is entered
\* again on this thread, below the frame that is creating the cache.
TcReenter(t, b) ==
    /\ TlsAllocates
    /\ At(t, "tc_tls")
    /\ Len(stack[t]) < MaxDepth
    /\ stack' = [stack EXCEPT ![t] = Front(@) \o
                    <<[Top(t) EXCEPT !.pc = "tc_set"],
                      NewFrame(AllocEntry(t), b, Null)>>]
    /\ UNCHANGED <<heap, shared, refs, tcache, quarantine, mapped, live>>

\* The new, empty cache becomes the thread's cache.
TcTlsSet(t) ==
    /\ At(t, "tc_tls") \/ At(t, "tc_set")
    /\ tcache' = [tcache EXCEPT ![t] = [b \in Buckets |-> <<>>]]
    /\ Goto(t, "tc_on")
    /\ UNCHANGED <<heap, shared, refs, quarantine, mapped, live>>

\* with_thread_cache = true; the allocation goes on to the new cache.
TcEnable(t) ==
    /\ At(t, "tc_on")
    /\ with_thread_cache' = TRUE
    /\ Goto(t, "get_cache")
    /\ UNCHANGED <<heap, lock, pcscan_mode, refs, tcache, quarantine, mapped,
                   live>>

\* ThreadCache::GetFromCache(): the head of the bucket's bin, or a miss that
\* falls through to RawAlloc(); the sentinel bucket has no bin.
GetFromCache(t) ==
    /\ At(t, "get_cache")
    /\ LET b == Top(t).bucket
       IN  IF b = sentinel_bucket \/ tcache[t][b] = <<>>
           THEN Goto(t, "raw_alloc") /\ UNCHANGED tcache
           ELSE /\ tcache' = [tcache EXCEPT ![t][b] = Tail(@)]
                /\ Step(t, [Top(t) EXCEPT !.pc = "ret",
                                          !.ptr = Head(tcache[t][b])])
    /\ UNCHANGED <<heap, shared, refs, quarantine, mapped, live>>

\* Fault: RawAlloc() without the ScopedGuard.
RawAllocUnguarded(t) ==
    /\ At(t, "raw_alloc")
    /\ Goto(t, "bucket")
    /\ UNCHANGED <<heap, shared, refs, tcache, quarantine, mapped, live>>

\* RawAlloc(): the ScopedGuard takes lock_.
RawAlloc(t) ==
    /\ At(t, "raw_alloc")
    /\ Acquire(t)
    /\ Goto(t, "bucket")
    /\ UNCHANGED <<heap, with_thread_cache, pcscan_mode, refs, tcache,
                   quarantine, mapped, live>>

\* AllocFromBucket() reads the head of the active list and its freelist head.
\* An empty list stands for the sentinel span, whose freelist is empty.
AllocFromBucket(t) ==
    /\ At(t, "bucket")
    /\ LET act == IF Top(t).bucket = sentinel_bucket
                  THEN <<>> ELSE active_slot_spans_head[Top(t).bucket]
       IN  IF act # <<>> /\ slot_span[Head(act)].freelist # <<>>
           THEN Step(t, [Top(t) EXCEPT !.pc = "pop", !.span = Head(act),
                            !.ptr = Head(slot_span[Head(act)].freelist)])
           ELSE Goto(t, "slow")
    /\ UNCHANGED <<heap, shared, refs, tcache, quarantine, mapped, live>>

\* Fault: the fast path forgets num_allocated_slots++.
AllocFromBucketFastMiscount(t) ==
    /\ At(t, "pop")
    /\ slot_span[Top(t).span].freelist # <<>>
    /\ slot_span' = [slot_span EXCEPT ![Top(t).span].freelist = Tail(@)]
    /\ Release
    /\ Goto(t, "ret")
    /\ UNCHANGED <<active_slot_spans_head, next_partition_page, direct_map_list,
                   with_thread_cache, pcscan_mode, refs, tcache, quarantine,
                   mapped, live>>

\* The fast path: the freelist head moves to its successor (GetNext() of a
\* null head faults), the span counts one more slot, the guard is released.
AllocFromBucketFast(t) ==
    /\ At(t, "pop")
    /\ LET sp == Top(t).span
       IN  /\ slot_span[sp].freelist # <<>>
           /\ slot_span' = [slot_span EXCEPT ![sp].freelist = Tail(@),
                                             ![sp].num_allocated_slots = @ + 1]
    /\ Release
    /\ Goto(t, "ret")
    /\ UNCHANGED <<active_slot_spans_head, next_partition_page, direct_map_list,
                   with_thread_cache, pcscan_mode, refs, tcache, quarantine,
                   mapped, live>>

\* PartitionBucket::SlowPathAlloc(): the spans at the head of the active list
\* that are full are unlinked; the first span with room serves the request.
SlowPathFromActive(t) ==
    LET b   == Top(t).bucket
        act == active_slot_spans_head[b]
        i   == SelectInSeq(act, HasRoom)
        got == TakeSlot(act[i], slot_span[act[i]])
    IN  /\ b \in Buckets
        /\ i # 0
        /\ slot_span' = [slot_span EXCEPT ![act[i]] = got.span]
        /\ active_slot_spans_head' =
               [active_slot_spans_head EXCEPT ![b] = SubSeq(act, i, Len(act))]
        /\ Step(t, [Top(t) EXCEPT !.pc = "ret", !.ptr = got.ret])
        /\ UNCHANGED <<next_partition_page, direct_map_list, mapped>>

\* No active span has room: a new span is carved from the super page.
SlowPathNewSpan(t) ==
    LET b   == Top(t).bucket
        sp  == next_partition_page + 1
        got == Provision(sp, FreshSpan(b))
    IN  /\ b \in Buckets
        /\ SelectInSeq(active_slot_spans_head[b], HasRoom) = 0
        /\ next_partition_page < NumSpans
        /\ next_partition_page' = sp
        /\ slot_span' = [slot_span EXCEPT ![sp] = got.span]
        /\ active_slot_spans_head' = [active_slot_spans_head EXCEPT ![b] = <<sp>>]
        /\ Step(t, [Top(t) EXCEPT !.pc = "ret", !.ptr = got.ret])
        /\ UNCHANGED <<direct_map_list, mapped>>

\* Nothing left to carve: with PartitionAllocReturnNull the result is nullptr.
SlowPathOutOfMemory(t) ==
    LET b == Top(t).bucket
    IN  /\ b \in Buckets
        /\ SelectInSeq(active_slot_spans_head[b], HasRoom) = 0
        /\ next_partition_page = NumSpans
        /\ active_slot_spans_head' = [active_slot_spans_head EXCEPT ![b] = <<>>]
        /\ Step(t, [Top(t) EXCEPT !.pc = "ret", !.ptr = Null])
        /\ UNCHANGED <<slot_span, next_partition_page, direct_map_list,
                       mapped>>

\* The sentinel bucket: a region is reserved from the direct-map pool and
\* linked into direct_map_list.
SlowPathDirectMap(t) ==
    /\ Top(t).bucket = sentinel_bucket
    /\ \E d \in DirectMaps \ mapped :
          /\ mapped' = mapped \cup {d}
          /\ direct_map_list' = direct_map_list \cup {d}
          /\ Step(t, [Top(t) EXCEPT !.pc = "ret", !.ptr = d])
    /\ UNCHANGED <<slot_span, active_slot_spans_head, next_partition_page>>

\* The pool has no room: with PartitionAllocReturnNull the result is nullptr.
SlowPathDirectMapOutOfMemory(t) ==
    /\ Top(t).bucket = sentinel_bucket
    /\ DirectMaps \subseteq mapped
    /\ Step(t, [Top(t) EXCEPT !.pc = "ret", !.ptr = Null])
    /\ UNCHANGED <<heap, mapped>>

\* Fault: the nullptr return leaves without releasing lock_.
SlowPathAllocKeepsLock(t) ==
    /\ At(t, "slow")
    /\ \/ /\ SlowPathFromActive(t) \/ SlowPathNewSpan(t) \/ SlowPathDirectMap(t)
          /\ Release
       \/ /\ SlowPathOutOfMemory(t) \/ SlowPathDirectMapOutOfMemory(t)
          /\ UNCHANGED lock
    /\ UNCHANGED <<with_thread_cache, pcscan_mode, refs, tcache, quarantine,
                   live>>

\* The slow path of AllocFromBucket(), and the guard released on return.
SlowPathAlloc(t) ==
    /\ At(t, "slow")
    /\ \/ SlowPathFromActive(t) \/ SlowPathNewSpan(t) \/ SlowPathOutOfMemory(t)
       \/ SlowPathDirectMap(t) \/ SlowPathDirectMapOutOfMemory(t)
    /\ Release
    /\ UNCHANGED <<with_thread_cache, pcscan_mode, refs, tcache, quarantine,
                   live>>

\* Fault: the reference count of the slot is not constructed.
AllocReturnNoRefCount(t) ==
    /\ At(t, "ret")
    /\ live' = live \cup ({Top(t).ptr} \ {Null})
    /\ zapped' = zapped \ {Top(t).ptr}
    /\ Return(t)
    /\ UNCHANGED <<heap, shared, ref_count, checked, tcache, quarantine,
                   mapped>>

\* The end of AllocFlagsNoHooks: nullptr is passed on; otherwise the
\* reference count of the slot (a direct-mapped region has none) is
\* constructed and the pointer handed to the caller, who owns the bytes from
\* here on.
AllocReturn(t) ==
    /\ At(t, "ret")
    /\ LET p == Top(t).ptr
       IN  IF p = Null
           THEN UNCHANGED <<live, ref_count, zapped>>
           ELSE /\ live' = live \cup {p}
                /\ zapped' = zapped \ {p}
                /\ ref_count' = IF AllowRefCount /\ ~is_direct_mapped(p)
                                THEN [ref_count EXCEPT ![p] = 1] ELSE ref_count
    /\ Return(t)
    /\ UNCHANGED <<heap, shared, checked, tcache, quarantine, mapped>>

-----------------------------------------------------------------------------
(* Free *)

\* FreeNoHooksImmediate() starts at the reference count, if the slot has one.
FreeEntry(s) ==
    IF AllowRefCount /\ ~is_direct_mapped(s) THEN "has_one_ref" ELSE "put"

\* FreeNoHooks(): with PCScan enabled a pointer into a slot span moves to
\* the quarantine, any other is freed at once.  pcscan_mode is read without
\* lock_.
FreeNoHooks(t, s) ==
    /\ Idle(t)
    /\ s \in live
    /\ live' = live \ {s}
    /\ \/ /\ pcscan_mode = "kEnabled" /\ ~is_direct_mapped(s)
          /\ quarantine' = quarantine \cup {s}
          /\ UNCHANGED stack
       \/ /\ pcscan_mode # "kEnabled" \/ is_direct_mapped(s)
          /\ Call(t, NewFrame(FreeEntry(s), BucketOf(s), s))
          /\ UNCHANGED quarantine
    /\ UNCHANGED <<heap, shared, refs, tcache, mapped>>

\* PCScan frees a quarantined slot through FreeNoHooksImmediate().
Sweep(t, s) ==
    /\ Idle(t)
    /\ s \in quarantine
    /\ quarantine' = quarantine \ {s}
    /\ Call(t, NewFrame(FreeEntry(s), BucketOf(s), s))
    /\ UNCHANGED <<heap, shared, refs, tcache, mapped, live>>

\* Fault: the memory is zapped when the allocator holds the only reference.
HasOneRefInverted(t) ==
    /\ At(t, "has_one_ref")
    /\ zapped' = IF ref_count[Top(t).ptr] = 1
                 THEN zapped \cup {Top(t).ptr} ELSE zapped
    /\ Goto(t, "release")
    /\ UNCHANGED <<heap, shared, ref_count, checked, tcache, quarantine,
                   mapped, live>>

\* FreeNoHooksImmediate() first reads the count: when a CheckedPtr still
\* points at the slot, its memory is overwritten with kQuarantinedByte.
HasOneRef(t) ==
    /\ At(t, "has_one_ref")
    /\ zapped' = IF ref_count[Top(t).ptr] # 1
                 THEN zapped \cup {Top(t).ptr} ELSE zapped
    /\ Goto(t, "release")
    /\ UNCHANGED <<heap, shared, ref_count, checked, tcache, quarantine,
                   mapped, live>>

\* Fault: the result of ReleaseFromAllocator() is ignored.
FreeNoHooksImmediateIgnoresRefs(t) ==
    /\ At(t, "release")
    /\ ref_count' = [ref_count EXCEPT ![Top(t).ptr] = @ - 1]
    /\ Goto(t, "put")
    /\ UNCHANGED <<heap, shared, checked, zapped, tcache, quarantine, mapped,
                   live>>

\* FreeNoHooksImmediate() then gives up the allocator's reference, in a
\* second access to the count (ReleaseFromAllocator()); while others remain
\* the slot is not freed.
FreeNoHooksImmediate(t) ==
    /\ At(t, "release")
    /\ LET s == Top(t).ptr
       IN  /\ ref_count' = [ref_count EXCEPT ![s] = @ - 1]
           /\ IF ref_count[s] = 1 THEN Goto(t, "put") ELSE Return(t)
    /\ UNCHANGED <<heap, shared, checked, zapped, tcache, quarantine, mapped,
                   live>>

\* Fault: the bin is never cleared.
RawFreeWithThreadCacheNoLimit(t) ==
    /\ At(t, "put")
    /\ IF with_thread_cache /\ ~is_direct_mapped(Top(t).ptr) /\ tcache[t] # NoCache
       THEN /\ tcache' = [tcache EXCEPT ![t][Top(t).bucket] = <<Top(t).ptr>> \o @]
            /\ Return(t)
       ELSE Goto(t, "raw_free") /\ UNCHANGED tcache
    /\ UNCHANGED <<heap, shared, refs, quarantine, mapped, live>>

\* RawFreeWithThreadCache(): with a thread cache a slot goes into its
\* bucket's bin (ThreadCache::MaybePutInCache(), which clears half of a bin
\* that reached its limit); without one, and for a direct-mapped region,
\* RawFree() takes it.
RawFreeWithThreadCache(t) ==
    /\ At(t, "put")
    /\ LET s == Top(t).ptr
           b == Top(t).bucket
       IN  IF with_thread_cache /\ ~is_direct_mapped(s) /\ tcache[t] # NoCache
           THEN /\ tcache' = [tcache EXCEPT ![t][b] = <<s>> \o @]
                /\ IF Len(tcache[t][b]) + 1 >= BinLimit
                   THEN Step(t, [Top(t) EXCEPT !.pc = "clear", !.ptr = Null])
                   ELSE Return(t)
           ELSE Goto(t, "raw_free") /\ UNCHANGED tcache
    /\ UNCHANGED <<heap, shared, refs, quarantine, mapped, live>>

\* ThreadCache::ClearBucket() takes lock_ once for the whole batch.
ClearBucket(t) ==
    /\ At(t, "clear")
    /\ Acquire(t)
    /\ Goto(t, "clearing")
    /\ UNCHANGED <<heap, with_thread_cache, pcscan_mode, refs, tcache,
                   quarantine, mapped, live>>

\* The frame of a thread that ends, between two bins.
PurgeFrame == NewFrame("purge", sentinel_bucket, Null)

\* A bin that overflowed is cleared down to half its limit, the bins of a
\* thread that ends are emptied.
Clearing(t) == At(t, "clearing") \/ At(t, "purging")
ClearLimit(t) == IF At(t, "purging") THEN 0 ELSE BinLimit \div 2

\* Fault: the slot is pushed on the freelist without relinking its span.
RawFreeLockedNoRelink(t) ==
    /\ Clearing(t)
    /\ LET b == Top(t).bucket
       IN  /\ Len(tcache[t][b]) > ClearLimit(t)
           /\ SlotSpanFreeNoRelink(Head(tcache[t][b]))
           /\ tcache' = [tcache EXCEPT ![t][b] = Tail(@)]
    /\ UNCHANGED <<shared, refs, quarantine, mapped, live, stack>>

\* RawFreeLocked(): one slot of the batch goes from the bin to its span.
RawFreeLocked(t) ==
    /\ Clearing(t)
    /\ LET b == Top(t).bucket
       IN  /\ Len(tcache[t][b]) > ClearLimit(t)
           /\ SlotSpanFree(Head(tcache[t][b]))
           /\ tcache' = [tcache EXCEPT ![t][b] = Tail(@)]
    /\ UNCHANGED <<shared, refs, quarantine, mapped, live, stack>>

\* The bin is down to its limit: the batch ends and lock_ is released.
ClearBucketDone(t) ==
    /\ Clearing(t)
    /\ Len(tcache[t][Top(t).bucket]) <= ClearLimit(t)
    /\ Release
    /\ IF At(t, "purging") THEN Step(t, PurgeFrame) ELSE Return(t)
    /\ UNCHANGED <<heap, with_thread_cache, pcscan_mode, refs, tcache,
                   quarantine, mapped, live>>

\* The thread ends outside the allocator: the destructor of its TLS slot
\* deletes its thread cache.
ThreadCacheDelete(t) ==
    /\ ThreadsExit
    /\ Idle(t) /\ tcache[t] # NoCache
    /\ Call(t, PurgeFrame)
    /\ UNCHANGED <<heap, shared, refs, tcache, quarantine, mapped, live>>

\* Every bin that holds slots is flushed to the root, one batch under lock_
\* for each.
Purge(t, b) ==
    /\ At(t, "purge") /\ tcache[t][b] # <<>>
    /\ Acquire(t)
    /\ Step(t, [Top(t) EXCEPT !.pc = "purging", !.bucket = b])
    /\ UNCHANGED <<heap, with_thread_cache, pcscan_mode, refs, tcache,
                   quarantine, mapped, live>>

\* The bins are empty: the storage of the cache goes back through RawFree()
\* (as in TcCreateStorage, only lock_ is seen of that call) and the thread
\* has no cache any more.
ThreadCacheGone(t) ==
    /\ At(t, "purge") /\ \A b \in Buckets : tcache[t][b] = <<>>
    /\ lock = NoThread
    /\ tcache' = [tcache EXCEPT ![t] = NoCache]
    /\ Return(t)
    /\ UNCHANGED <<heap, shared, refs, quarantine, mapped, live>>

\* RawFree(): the ScopedGuard takes lock_ ...
RawFreeLock(t) ==
    /\ At(t, "raw_free")
    /\ Acquire(t)
    /\ Goto(t, "span_free")
    /\ UNCHANGED <<heap, with_thread_cache, pcscan_mode, refs, tcache,
                   quarantine, mapped, live>>

\* Fault: the DeferredUnmap is dropped.
RawFreeForgetsUnmap(t) ==
    /\ At(t, "span_free")
    /\ IF is_direct_mapped(Top(t).ptr)
       THEN PartitionDirectUnmap(Top(t).ptr) ELSE SlotSpanFree(Top(t).ptr)
    /\ Release
    /\ Return(t)
    /\ UNCHANGED <<with_thread_cache, pcscan_mode, refs, tcache, quarantine,
                   mapped, live>>

\* ... SlotSpanMetadata::Free() takes the slot back and the guard is
\* released; what Free() left to unmap is unmapped after that.
RawFree(t) ==
    /\ At(t, "span_free")
    /\ IF is_direct_mapped(Top(t).ptr)
       THEN PartitionDirectUnmap(Top(t).ptr) /\ Goto(t, "unmap")
       ELSE SlotSpanFree(Top(t).ptr) /\ Return(t)
    /\ Release
    /\ UNCHANGED <<with_thread_cache, pcscan_mode, refs, tcache, quarantine,
                   mapped, live>>

\* deferred_unmap.Run(), outside lock_: the region goes back to the pool.
DeferredUnmapRun(t) ==
    /\ At(t, "unmap")
    /\ mapped' = mapped \ {Top(t).ptr}
    /\ Return(t)
    /\ UNCHANGED <<heap, shared, refs, tcache, quarantine, live>>

-----------------------------------------------------------------------------
(* PCScan and CheckedPtr *)

\* EnablePCScan(): under lock_, a scannable root becomes a scanned one.
EnablePCScan(t) ==
    /\ Idle(t)
    /\ lock = NoThread
    /\ pcscan_mode # "kNonScannable"
    /\ pcscan_mode' = "kEnabled"
    /\ UNCHANGED <<heap, lock, with_thread_cache, refs, tcache, quarantine, mapped,
                   live, stack>>

\* A CheckedPtr is made from a pointer the application holds, or copied from
\* another CheckedPtr: PartitionRefCount::AddRef().
AcquireRef(t, s) ==
    /\ AllowRefCount
    /\ Idle(t)
    /\ s \in live \/ checked[s] > 0
    /\ checked[s] < MaxRefs
    /\ checked' = [checked EXCEPT ![s] = @ + 1]
    /\ ref_count' = [ref_count EXCEPT ![s] = @ + 1]
    /\ UNCHANGED <<heap, shared, zapped, tcache, quarantine, mapped, live,
                   stack>>

\* PartitionAllocFreeForRefCounting(): the last reference to a slot the
\* allocator has already released frees it, past the quarantine.
PartitionAllocFreeForRefCounting(t, s) ==
    Call(t, NewFrame("put", BucketOf(s), s))

\* A CheckedPtr goes away: PartitionRefCount::Release().
ReleaseRef(t, s) ==
    /\ Idle(t)
    /\ checked[s] > 0
    /\ checked' = [checked EXCEPT ![s] = @ - 1]
    /\ ref_count' = [ref_count EXCEPT ![s] = @ - 1]
    /\ IF ref_count[s] = 1
       THEN PartitionAllocFreeForRefCounting(t, s)
       ELSE UNCHANGED stack
    /\ UNCHANGED <<heap, shared, zapped, tcache, quarantine, mapped, live>>

-----------------------------------------------------------------------------

Init ==
    /\ lock = NoThread
    /\ with_thread_cache = WithThreadCache
    /\ pcscan_mode = IF Scannable THEN "kDisabled" ELSE "kNonScannable"
    /\ slot_span = [sp \in Spans |-> FreshSpan(Null)]
    /\ active_slot_spans_head = [b \in Buckets |-> <<>>]
    /\ next_partition_page = 0
    /\ direct_map_list = {}
    /\ mapped = {}
    /\ tcache = [t \in Threads |-> NoCache]
    /\ quarantine = {}
    /\ ref_count = [s \in Slots |-> 0]
    /\ checked = [s \in Slots |-> 0]
    /\ zapped = {}
    /\ live = {}
    /\ stack = [t \in Threads |-> <<>>]

\* The buckets of the requests: the sentinel bucket only where the pool has
\* regions.
Requests == Buckets \cup IF DirectMaps = {} THEN {} ELSE {sentinel_bucket}

Alloc(t) ==
    \/ \E b \in Requests : AllocFlagsNoHooks(t, b)
    \/ TcDisable(t) \/ TcCreateStorage(t) \/ TcTlsSet(t) \/ TcEnable(t)
    \/ \E b \in Requests : TcReenter(t, b)
    \/ GetFromCache(t) \/ RawAlloc(t) \/ AllocFromBucket(t)
    \/ AllocFromBucketFast(t) \/ SlowPathAlloc(t) \/ AllocReturn(t)

Free(t) ==
    \/ \E s \in Slots \cup DirectMaps : FreeNoHooks(t, s)
    \/ \E s \in Slots : Sweep(t, s)
    \/ HasOneRef(t) \/ FreeNoHooksImmediate(t) \/ RawFreeWithThreadCache(t)
    \/ ClearBucket(t) \/ RawFreeLocked(t) \/ ClearBucketDone(t)
    \/ RawFreeLock(t) \/ RawFree(t) \/ DeferredUnmapRun(t)

Other(t) ==
    \/ EnablePCScan(t)
    \/ \E s \in Slots : AcquireRef(t, s) \/ ReleaseRef(t, s)

Exit(t) ==
    \/ ThreadCacheDelete(t) \/ ThreadCacheGone(t)
    \/ \E b \in Buckets : Purge(t, b)

ThreadStep(t) == Alloc(t) \/ Free(t) \/ Other(t) \/ Exit(t)

Next == \E t \in Threads : ThreadStep(t)

Spec == Init /\ [][Next]_vars

\* A thread inside an allocator call keeps running; nothing makes a thread
\* start a call, and a spinning thread is not promised lock_.
Continue(t) == ~Idle(t) /\ ThreadStep(t)

FairSpec == Spec /\ \A t \in Threads : WF_vars(Continue(t))

-----------------------------------------------------------------------------
(* Properties *)

TypeOK ==
    /\ lock \in Threads \cup {NoThread}
    /\ with_thread_cache \in BOOLEAN
    /\ pcscan_mode \in PCScanModes
    /\ \A sp \in Spans :
          /\ slot_span[sp].bucket \in Buckets \cup {Null}
          /\ slot_span[sp].freelist \in Seq(Slots)
          /\ slot_span[sp].num_allocated_slots \in 0..SlotsPerSpan
          /\ slot_span[sp].num_unprovisioned_slots \in 0..SlotsPerSpan
    /\ \A b \in Buckets : active_slot_spans_head[b] \in Seq(Spans)
    /\ next_partition_page \in 0..NumSpans
    /\ direct_map_list \subseteq DirectMaps /\ mapped \subseteq DirectMaps
    /\ \A t \in Threads :
          \/ tcache[t] = NoCache
          \/ \A b \in Buckets : /\ tcache[t][b] \in Seq(Slots)
                                /\ Len(tcache[t][b]) <= BinLimit
    /\ quarantine \subseteq Slots /\ zapped \subseteq Slots
    /\ live \subseteq Slots \cup DirectMaps
    /\ ref_count \in [Slots -> 0..(MaxRefs + 1)]
    /\ checked \in [Slots -> 0..MaxRefs]
    /\ \A t \in Threads : stack[t] \in Seq(Frame) /\ Len(stack[t]) <= MaxDepth

\* Every place that holds slot s: the application, the quarantine, a call in
\* progress, the freelist of its span, a thread cache bin.  A frame that has
\* only read the freelist head ("pop") does not hold it yet.
Places(s) ==
    {<<"live">> : x \in live \cap {s}}
    \cup {<<"quarantine">> : x \in quarantine \cap {s}}
    \cup {<<"frame", t, i>> : <<t, i>> \in
             {<<t, i>> \in Threads \X (1..MaxDepth) :
                 /\ i \in DOMAIN stack[t]
                 /\ stack[t][i].ptr = s
                 /\ stack[t][i].pc # "pop"}}
    \cup {<<"freelist", i>> : i \in
             IF is_direct_mapped(s) THEN {}
             ELSE {i \in DOMAIN slot_span[s[1]].freelist :
                      slot_span[s[1]].freelist[i] = s}}
    \cup {<<"bin", t, b, i>> : <<t, b, i>> \in
             {<<t, b, i>> \in Threads \X Buckets \X (1..(BinLimit + 1)) :
                 /\ tcache[t] # NoCache
                 /\ i \in DOMAIN tcache[t][b]
                 /\ tcache[t][b][i] = s}}

\* The slot has never been handed to a freelist or a caller.
Unprovisioned(s) ==
    \/ s[1] > next_partition_page
    \/ s[2] > SlotsPerSpan - slot_span[s[1]].num_unprovisioned_slots

\* The application freed the slot while CheckedPtrs still point at it.
Deferred(s) == checked[s] > 0 /\ ref_count[s] = checked[s]

\* Every slot is in exactly one place, however Alloc, Free, the thread
\* caches, the PCScan quarantine and the CheckedPtr releases of several
\* threads interleave: AllocFromBucket() never hands out a slot twice,
\* RawFreeWithThreadCache() and ClearBucket() never free one twice or lose
\* one.  Only a slot that is not provisioned yet, or whose free waits for its
\* last CheckedPtr (FreeNoHooksImmediate() returned early), is nowhere.
SlotConservation ==
    \A s \in Slots :
        Cardinality(Places(s)) = IF Unprovisioned(s) \/ Deferred(s) THEN 0 ELSE 1

\* The counters of every carved span add up to its slots, as partition_root.h
\* expects of num_allocated_slots when AllocFromBucket() and
\* SlotSpanMetadata::Free() update it together with the freelist.
SpanAccounting ==
    \A sp \in 1..next_partition_page :
        slot_span[sp].num_allocated_slots + Len(slot_span[sp].freelist)
            + slot_span[sp].num_unprovisioned_slots = SlotsPerSpan

\* A slot that a CheckedPtr still points at is never available for reuse:
\* FreeNoHooksImmediate() keeps it out of the freelists and the thread caches
\* until PartitionAllocFreeForRefCounting() is called for the last reference.
NoReuseWhileReferenced ==
    \A s \in Slots :
        checked[s] > 0 =>
            \A p \in Places(s) : p[1] \in {"live", "quarantine", "frame"}
                /\ (p[1] = "frame" => stack[p[2]][p[3]].pc \in {"has_one_ref", "release"})

\* A slot whose free is deferred has been overwritten: FreeNoHooksImmediate()
\* reads HasOneRef() and calls ReleaseFromAllocator() in two accesses to the
\* count, and a CheckedPtr of another thread may go away between them; what
\* a dangling CheckedPtr can still read is kQuarantinedByte all the same.
DeferredFreeIsZapped ==
    \A s \in Slots : Deferred(s) => s \in zapped

\* A direct-mapped region is reserved exactly while somebody holds it (the
\* application, or a call that allocates or frees it), and it is linked in
\* direct_map_list from SlowPathDirectMap until RawFree() unlinks it under
\* lock_; between the unlock and deferred_unmap.Run() it is still reserved, so
\* that no other thread is given the address range before it is unmapped.
DirectMapConservation ==
    \A d \in DirectMaps :
        /\ Cardinality(Places(d)) = IF d \in mapped THEN 1 ELSE 0
        /\ d \in direct_map_list <=>
               /\ d \in mapped
               /\ \A t \in Threads : \A i \in DOMAIN stack[t] :
                      stack[t][i].ptr = d => stack[t][i].pc # "unmap"

\* ThreadCache::Create() is never entered while the same thread is already in
\* it: the comment in AllocFlagsNoHooks() says that clearing with_thread_cache
\* keeps an allocation made by libc during Create() away from Create().
NoReentrantCreate ==
    \A t \in Threads :
        Cardinality({i \in DOMAIN stack[t] : stack[t][i].pc \in CreatePCs}) <= 1

\* The span metadata, the active lists and the carving cursor change only in
\* steps of the thread that holds lock_ (EXCLUSIVE_LOCKS_REQUIRED(lock_) on
\* AllocFromBucket() and RawFreeLocked()).
LockDiscipline ==
    [][heap' # heap =>
          \E t \in Threads : /\ lock = t
                             /\ stack'[t] # stack[t] \/ tcache'[t] # tcache[t]]_vars

\* AllocFromBucket() returns nullptr only when the bucket is really out of
\* memory: no span of the bucket has a free or unprovisioned slot and the
\* super page has no room for another span; for the sentinel bucket, the
\* direct-map pool has no region left.  SlowPathAlloc() looks only at the
\* active list, so this depends on Free() relinking every span it refills.
OutOfMemoryIsReal ==
    [][\A t \in Threads :
          (At(t, "slow") /\ (At(t, "ret") /\ Top(t).ptr = Null)') =>
              \/ /\ Top(t).bucket = sentinel_bucket
                 /\ DirectMaps \subseteq mapped
              \/ /\ next_partition_page = NumSpans
                 /\ \A sp \in Spans :
                       slot_span[sp].bucket = Top(t).bucket => ~HasRoom(sp)]_vars

\* lock_ is always released again: no path through RawAlloc(), RawFree() or
\* ClearBucket() keeps it, the nullptr return of AllocFromBucket() included.
LockEventuallyReleased ==
    \A t \in Threads : (lock = t) ~> (lock = NoThread)

=============================================================================
