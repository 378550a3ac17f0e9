------------------------- MODULE PartitionAllocator -------------------------
(***************************************************************************)
(* The entry points of one partition and what surrounds them:              *)
(* PartitionAllocator::init() and the destructor, the process-wide         *)
(* PartitionAllocGlobalInit() and PartitionAllocGlobalUninitForTesting(),  *)
(* EnablePCScan(), and AllocFlags(), Alloc() and Free() with the hooks of  *)
(* PartitionAllocHooks around AllocFlagsNoHooks() and FreeNoHooks(), and   *)
(* Realloc() and TryRealloc(), which allocate, copy and free.              *)
(* What happens below the hooks is the abstract Heap, which PartitionRoot  *)
(* implements: here a block is taken, retired and reclaimed.  Threads call *)
(* concurrently, and the hooks are installed and removed while they do.    *)
(***************************************************************************)
EXTENDS Naturals, FiniteSets

CONSTANTS
    Threads,          \* the threads that call into the partition
    Blocks,           \* what the partition can hand out
    Foreign,          \* what the allocation override hook hands out
    MaxHookChanges,   \* bound on the calls of Set*Hooks
    Null              \* nullptr

ASSUME /\ Blocks \cap Foreign = {} /\ Null \notin Blocks \cup Foreign
       /\ MaxHookChanges \in Nat

VARIABLES
    g_oom_handling_function,   \* TRUE when a handler is set
    aborted,                   \* the process died in OutOfMemory()
    status,                    \* of partition_root_
    partitions,                \* PartitionAllocMemoryReclaimer has the root
    pcscan_mode,               \* PartitionRoot::pcscan_mode
    roots,                     \* PCScan has the root
    quarantine,                \* the blocks PCScan holds
    hooks_enabled,             \* PartitionAllocHooks::hooks_enabled_
    observer, override,        \* the pairs of hooks that are installed
    hook_changes,              \* calls of Set*Hooks so far
    ledger,                    \* what the observer hooks were told is allocated
    missed,                    \* of these, freed while no observer was installed
    foreign,                   \* what the override hooks have handed out
    owner, pins,               \* the heap below the hooks
    live,                      \* what AllocFlags() returned and was not freed
    call                       \* per thread: the call it is in

process == <<g_oom_handling_function, aborted>>
root    == <<status, partitions, pcscan_mode, roots, quarantine>>
hooks   == <<hooks_enabled, observer, override, hook_changes>>
memory  == <<owner, pins>>
observed == <<ledger, missed>>
vars    == <<process, root, hooks, observed, foreign, memory, live, call>>

H == INSTANCE Heap WITH Slots <- Blocks, MaxPins <- 0

\* PartitionOptions, as init() is given them.
PartitionOptions ==
    [alignment    : {"kRegular", "kAlignedAlloc"},
     thread_cache : {"kDisabled", "kEnabled"},
     pcscan       : {"kAlwaysDisabled", "kDisabledByDefault",
                     "kForcedEnabledForTesting"},
     ref_count    : {"kEnabled", "kDisabled"}]

PCs == {"override", "no_hooks", "observe", "realloc", "realloc_return",
        "free_observe", "free_override", "free_no_hooks", "free_immediate"}

\* What a thread inside a call knows: where it is, the hooks_enabled it read,
\* its flag, the pointer it works on and, inside ReallocFlags(), the pointer
\* it was given (old) or the one it will return (ret).
Frame(pc, enabled, return_null, ptr, old, ret) ==
    [pc |-> pc, hooks_enabled |-> enabled, return_null |-> return_null,
     ptr |-> ptr, old |-> old, ret |-> ret]

\* A process that died in OutOfMemory() takes no step.
Running  == ~aborted
Idle(t)  == Running /\ call[t] = Null
Within(t, l) == call[t] # Null /\ call[t].pc = l
At(t, l) == Running /\ Within(t, l)
Goto(t, l)  == call' = [call EXCEPT ![t].pc = l]
Return(t)   == call' = [call EXCEPT ![t] = Null]
\* The end of Free(): back to the caller, which may be ReallocFlags().
Leave(t)    == IF call[t].ret = Null THEN Return(t)
               ELSE Goto(t, "realloc_return")
Holds(t, p) == call' = [call EXCEPT ![t].ptr = p, ![t].pc = "observe"]

IsScannable   == pcscan_mode # "kNonScannable"
IsScanEnabled == pcscan_mode = "kEnabled"

-----------------------------------------------------------------------------
(* The process and the life of the allocator *)

\* PartitionAllocGlobalInit(): past the static assertions (SuperPageLayout
\* has them), the handler is stored.
PartitionAllocGlobalInit ==
    /\ Running
    /\ g_oom_handling_function' = TRUE
    /\ UNCHANGED <<aborted, root, hooks, observed, foreign, memory, live, call>>

\* PartitionAllocGlobalUninitForTesting(): PCScan forgets its roots and the
\* handler is cleared; no root is told.
PartitionAllocGlobalUninitForTesting ==
    /\ Running
    /\ roots' = FALSE
    /\ g_oom_handling_function' = FALSE
    /\ UNCHANGED <<aborted, status, partitions, pcscan_mode, quarantine,
                   hooks, observed, foreign, memory, live, call>>

\* PartitionRoot::Init(), as far as the options reach this module.
RootInit(opts) ==
    /\ Running
    /\ status = "constructed"
    /\ status' = "initialized"
    /\ pcscan_mode' = CASE opts.pcscan = "kAlwaysDisabled" -> "kNonScannable"
                        [] opts.pcscan = "kDisabledByDefault" -> "kDisabled"
                        [] OTHER -> "kEnabled"
    /\ roots' = (roots \/ opts.pcscan = "kForcedEnabledForTesting")

\* PartitionAllocator::init(): the root is initialized and registered with
\* the memory reclaimer.
init(opts) ==
    /\ RootInit(opts)
    /\ partitions' = TRUE
    /\ UNCHANGED <<process, quarantine, hooks, observed, foreign, memory, live,
                   call>>

\* ~PartitionAllocator(), of an allocator no thread is inside of: the root is
\* taken from the memory reclaimer before it goes away.
Destructor ==
    /\ status = "initialized" /\ \A t \in Threads : Idle(t)
    /\ status' = "destroyed"
    /\ partitions' = FALSE
    /\ UNCHANGED <<process, pcscan_mode, roots, quarantine, hooks, observed,
                   foreign, memory, live, call>>

\* EnablePCScan(): a root that scans already is not registered again.
EnablePCScan ==
    /\ Running
    /\ status = "initialized" /\ IsScannable
    /\ ~IsScanEnabled
    /\ roots' = TRUE
    /\ pcscan_mode' = "kEnabled"
    /\ UNCHANGED <<process, status, partitions, quarantine, hooks, observed,
                   foreign, memory, live, call>>

-----------------------------------------------------------------------------
(* PartitionAllocHooks *)

AreHooksEnabled == hooks_enabled

SetHooks(obs, ovr) ==
    /\ Running
    /\ hook_changes < MaxHookChanges
    /\ hook_changes' = hook_changes + 1
    /\ observer' = obs /\ override' = ovr
    /\ hooks_enabled' = (obs \/ ovr)
    /\ UNCHANGED <<process, root, foreign, memory, live, call>>

\* A free of p goes by and the observer hook is not called, because none is
\* installed: the ledger keeps p.
Unheard(p, silent) ==
    missed' = IF silent /\ p \in ledger THEN missed \cup {p} ELSE missed

\* SetObserverHooks(): the observer hooks are installed or removed.
SetObserverHooks == SetHooks(~observer, override) /\ UNCHANGED observed

\* SetOverrideHooks(): whoever overrides allocations keeps the hooks in place
\* while a pointer of theirs is in use.
SetOverrideHooks ==
    /\ override =>
          /\ foreign = {}
          /\ \A t \in Threads : call[t] # Null => call[t].ptr \notin Foreign
    /\ SetHooks(observer, ~override)
    /\ UNCHANGED observed

\* AllocationOverrideHookIfEnabled(): the hook, if one is installed, may
\* answer the request itself.
AllocationOverrideHookIfEnabled(t) ==
    /\ At(t, "override")
    /\ \/ /\ override
          /\ \E f \in Foreign \ foreign :
                foreign' = foreign \cup {f} /\ Holds(t, f)
       \/ Goto(t, "no_hooks") /\ UNCHANGED foreign
    /\ UNCHANGED <<process, root, hooks, observed, memory, live>>

\* FreeObserverHookIfEnabled()
FreeObserverHookIfEnabled(t) ==
    /\ At(t, "free_observe")
    /\ ledger' = IF observer THEN ledger \ {call[t].ptr} ELSE ledger
    /\ Unheard(call[t].ptr, ~observer)
    /\ Goto(t, "free_override")
    /\ UNCHANGED <<process, root, hooks, foreign, memory, live>>

\* FreeOverrideHookIfEnabled(): the hook takes back what it handed out.
FreeOverrideHookIfEnabled(t) ==
    /\ At(t, "free_override")
    /\ IF override /\ call[t].ptr \in Foreign
       THEN foreign' = foreign \ {call[t].ptr} /\ Return(t)
       ELSE Goto(t, "free_no_hooks") /\ UNCHANGED foreign
    /\ UNCHANGED <<process, root, hooks, observed, memory, live>>

-----------------------------------------------------------------------------
(* Alloc *)

\* AllocFlags() of an initialized root: hooks_enabled is read once, for the
\* override hook before the allocation and the observer hook after it.
AllocFlagsFor(t, return_null, old) ==
    /\ status = "initialized"
    /\ call' = [call EXCEPT ![t] =
                   Frame(IF AreHooksEnabled THEN "override" ELSE "no_hooks",
                         AreHooksEnabled, return_null, Null, old, Null)]
    /\ UNCHANGED <<process, root, hooks, observed, foreign, memory>>

AllocFlags(t, return_null) ==
    Idle(t) /\ AllocFlagsFor(t, return_null, Null) /\ UNCHANGED live

\* Alloc() is AllocFlags() with no flag: out of memory is fatal.
Alloc(t) == AllocFlags(t, FALSE)

\* AllocFlagsNoHooks(): a block of the heap, or nullptr with
\* PartitionAllocReturnNull, or the end of the process in OutOfMemory().
AllocFlagsNoHooks(t) ==
    /\ At(t, "no_hooks")
    /\ \/ /\ \E b \in Blocks : H!Take(b) /\ Holds(t, b)
          /\ UNCHANGED aborted
       \/ /\ \A b \in Blocks : owner[b] # "allocator"
          /\ IF call[t].return_null
             THEN Holds(t, Null) /\ UNCHANGED aborted
             ELSE aborted' = TRUE /\ UNCHANGED call
          /\ UNCHANGED memory
    /\ UNCHANGED <<g_oom_handling_function, root, hooks, observed, foreign,
                   live>>

\* The end of AllocFlags(): AllocationObserverHookIfEnabled() is called with
\* ret if hooks were enabled when the call began, and ret is returned,
\* nullptr too: to the application, or to ReallocFlags().
AllocReturn(t) ==
    /\ At(t, "observe")
    /\ IF call[t].hooks_enabled /\ observer
       THEN /\ ledger' = ledger \cup {call[t].ptr}
            /\ missed' = missed \ {call[t].ptr}
       ELSE UNCHANGED observed
    /\ IF call[t].old = Null
       THEN live' = live \cup {call[t].ptr} /\ Return(t)
       ELSE UNCHANGED live /\ Goto(t, "realloc")
    /\ UNCHANGED <<process, root, hooks, foreign, memory>>

\* Free() of a pointer (Free(nullptr) returns at once): with hooks enabled
\* the observer is told, then the override hook asked, before FreeNoHooks().
\* enabled is what the call takes AreHooksEnabled() to be, first the hook it
\* begins with, ret what ReallocFlags() returns after it.
FreeFrom(t, p, enabled, first, ret) ==
    call' = [call EXCEPT ![t] =
                Frame(IF enabled THEN first ELSE "free_no_hooks",
                      enabled, FALSE, p, Null, ret)]

FreeOf(t, p, enabled, first) ==
    /\ Idle(t) /\ p \in live \ {Null}
    /\ live' = live \ {p}
    /\ FreeFrom(t, p, enabled, first, Null)
    /\ Unheard(p, ~enabled)
    /\ UNCHANGED <<process, root, hooks, ledger, foreign, memory>>

\* Fault: the free is not reported to the observer.
FreeSkipsObserver(t, p) == FreeOf(t, p, AreHooksEnabled, "free_override")

\* Fault: the hooks are consulted only when an observer is installed.
FreeAsksObserverOnly(t, p) == FreeOf(t, p, observer, "free_observe")

\* Free() of a pointer the application holds.
Free(t, p) == FreeOf(t, p, AreHooksEnabled, "free_observe")

\* FreeNoHooks(): the root is found from the pointer, which therefore is one
\* of its blocks; a root that scans gives the block to PCScan.
FreeNoHooks(t) ==
    /\ At(t, "free_no_hooks")
    /\ H!Retire(call[t].ptr)
    /\ IF IsScanEnabled
       THEN quarantine' = quarantine \cup {call[t].ptr} /\ Leave(t)
       ELSE Goto(t, "free_immediate") /\ UNCHANGED quarantine
    /\ UNCHANGED <<process, status, partitions, pcscan_mode, roots, hooks,
                   observed, foreign, live>>

\* FreeNoHooksImmediate()
FreeNoHooksImmediate(t) ==
    /\ At(t, "free_immediate")
    /\ H!Reclaim(call[t].ptr)
    /\ Leave(t)
    /\ UNCHANGED <<process, root, hooks, observed, foreign, live>>

-----------------------------------------------------------------------------
(* Realloc *)

\* ReallocFlags() of a block the application holds.  In place (the new size
\* maps to the same bucket, or a direct-mapped region has the room) the same
\* pointer is returned; otherwise a new allocation is made by AllocFlags().
ReallocFlags(t, return_null, p, in_place) ==
    /\ Idle(t) /\ p \in live \cap Blocks
    /\ live' = live \ {p}
    /\ IF in_place
       THEN /\ status = "initialized"
            /\ call' = [call EXCEPT ![t] =
                           Frame("realloc_return", AreHooksEnabled,
                                 return_null, Null, Null, p)]
            /\ UNCHANGED <<process, root, hooks, observed, foreign, memory>>
       ELSE AllocFlagsFor(t, return_null, p)

\* Realloc() passes no flag, TryRealloc() PartitionAllocReturnNull.
Realloc(t, p, in_place) == ReallocFlags(t, FALSE, p, in_place)
TryRealloc(t, p, in_place) == ReallocFlags(t, TRUE, p, in_place)

\* Fault: the old block is freed although no new one was allocated.
ReallocFailedFreesOld(t) ==
    /\ At(t, "realloc") /\ call[t].ptr = Null
    /\ live' = live \cup {call[t].old, Null}
    /\ FreeFrom(t, call[t].old, AreHooksEnabled, "free_observe", Null)
    /\ Unheard(call[t].old, ~AreHooksEnabled)
    /\ UNCHANGED <<process, root, hooks, ledger, foreign, memory>>

\* No new block: nullptr is returned and the pointer remains valid.
ReallocFailed(t) ==
    /\ At(t, "realloc") /\ call[t].ptr = Null
    /\ live' = live \cup {call[t].old, Null}
    /\ Return(t)
    /\ UNCHANGED <<process, root, hooks, observed, foreign, memory>>

\* The contents are copied to the new block and the old one is given to
\* Free(), which reads AreHooksEnabled() again.
ReallocFree(t) ==
    /\ At(t, "realloc") /\ call[t].ptr # Null
    /\ FreeFrom(t, call[t].old, AreHooksEnabled, "free_observe", call[t].ptr)
    /\ Unheard(call[t].old, ~AreHooksEnabled)
    /\ UNCHANGED <<process, root, hooks, ledger, foreign, memory, live>>

\* The pointer ReallocFlags() returns is the application's.
ReallocReturn(t) ==
    /\ At(t, "realloc_return")
    /\ live' = live \cup {call[t].ret}
    /\ Return(t)
    /\ UNCHANGED <<process, root, hooks, observed, foreign, memory>>

\* PCScan sweeps the roots it knows: a quarantined block is freed through
\* FreeNoHooksImmediate().
Sweep(b) ==
    /\ Running
    /\ roots /\ b \in quarantine
    /\ quarantine' = quarantine \ {b}
    /\ H!Reclaim(b)
    /\ UNCHANGED <<process, status, partitions, pcscan_mode, roots, hooks,
                   observed, foreign, live, call>>

-----------------------------------------------------------------------------

Init ==
    /\ g_oom_handling_function = FALSE /\ aborted = FALSE
    /\ status = "constructed" /\ partitions = FALSE
    /\ pcscan_mode = "kNonScannable" /\ roots = FALSE /\ quarantine = {}
    /\ hooks_enabled = FALSE /\ observer = FALSE /\ override = FALSE
    /\ hook_changes = 0
    /\ ledger = {} /\ missed = {} /\ foreign = {} /\ live = {}
    /\ H!Init
    /\ call = [t \in Threads |-> Null]

Process ==
    \/ PartitionAllocGlobalInit \/ PartitionAllocGlobalUninitForTesting
    \/ \E opts \in PartitionOptions : init(opts)
    \/ Destructor \/ EnablePCScan
    \/ SetObserverHooks \/ SetOverrideHooks
    \/ \E b \in Blocks : Sweep(b)

ThreadStep(t) ==
    \/ Alloc(t) \/ AllocFlags(t, TRUE)
    \/ AllocationOverrideHookIfEnabled(t) \/ AllocFlagsNoHooks(t)
    \/ AllocReturn(t)
    \/ \E p \in Blocks \cup Foreign : Free(t, p)
    \/ \E p \in Blocks, in_place \in BOOLEAN :
          Realloc(t, p, in_place) \/ TryRealloc(t, p, in_place)
    \/ ReallocFailed(t) \/ ReallocFree(t) \/ ReallocReturn(t)
    \/ FreeObserverHookIfEnabled(t) \/ FreeOverrideHookIfEnabled(t)
    \/ FreeNoHooks(t) \/ FreeNoHooksImmediate(t)

Next == Process \/ \E t \in Threads : ThreadStep(t)

Spec == Init /\ [][Next]_vars

-----------------------------------------------------------------------------
(* Properties *)

\* The pointers the application side holds through the call of thread t:
\* the one a Realloc() was given or will return, and the one the call works
\* on from its allocation until FreeNoHooks() has retired it.
Held(t) ==
    IF call[t] = Null THEN {}
    ELSE ({call[t].old, call[t].ret}
          \cup (IF call[t].pc \in {"observe", "realloc", "free_observe",
                                   "free_override", "free_no_hooks"}
                THEN {call[t].ptr} ELSE {})) \ {Null}

\* What the observer may have been told of and has not yet been told freed:
\* the pointers of a Realloc(), the result of its AllocFlags() (nullptr too)
\* and the pointer of a Free() that has not called the hook.
Reported(t) ==
    IF call[t] = Null THEN {}
    ELSE ({call[t].old, call[t].ret} \ {Null})
         \cup (IF call[t].pc \in {"realloc", "free_observe"}
               THEN {call[t].ptr} ELSE {})

\* What an installed observer believes allocated is allocated: every address
\* the hooks reported is held by the application, by a Free() that has not
\* told the observer yet, or by a Realloc() on its way, unless its free went
\* by while no observer was installed.  Free() reports before FreeNoHooks()
\* and AllocFlags() after AllocFlagsNoHooks(), so that the observer never
\* hears of a block a second time before it heard of its free, whichever
\* thread gets the block next and whenever the hooks are installed or removed.
ObserverLedgerIsLive ==
    ledger \ missed \subseteq live \cup UNION {Reported(t) : t \in Threads}

\* A pointer of the override hooks never reaches FreeNoHooks(), which would
\* look for span metadata in front of it: Free() asks the override hook
\* whenever AreHooksEnabled(), and hooks are enabled while either pair of
\* hooks is installed.
OverridePointersStayOutside ==
    \A t \in Threads : Within(t, "free_no_hooks") => call[t].ptr \in Blocks

\* "Overload that may return nullptr if reallocation isn't possible.  In
\* this case, |ptr| remains valid": a block is the application's exactly
\* while one party holds it, the application or one call, through every
\* Realloc() and TryRealloc(), whether it moves the block, leaves it in
\* place or fails, and whatever other threads allocate and free meanwhile.
ReallocKeepsOrReplaces ==
    \A b \in Blocks :
        LET holders == {t \in Threads : b \in Held(t)}
        IN  /\ Cardinality(holders) + (IF b \in live THEN 1 ELSE 0)
                  = (IF owner[b] = "application" THEN 1 ELSE 0)
            /\ b \in quarantine => owner[b] = "retired"

=============================================================================
