\* Two threads, a thread cache, the quarantine, one slot with one CheckedPtr
\* and one direct-mapped region: the invariants of the reference count and of
\* the direct map, and the refinement of Heap.
CONSTANTS
    Threads = {t1, t2}
    NoThread = NoThread
    Buckets = {b1}
    sentinel_bucket = sentinel_bucket
    DirectMaps = {d1}
    NumSpans = 1
    SlotsPerSpan = 1
    ProvisionBatch = 1
    BinLimit = 2
    MaxRefs = 1
    MaxDepth = 1
    WithThreadCache = TRUE
    Scannable = TRUE
    AllowRefCount = TRUE
    TlsAllocates = FALSE
    ThreadsExit = TRUE
    Null = Null
    NoCache = NoCache
SYMMETRY ThreadSymmetry
SPECIFICATION Spec
INVARIANTS
    SlotConservation
    NoReuseWhileReferenced
    DeferredFreeIsZapped
    DirectMapConservation
PROPERTIES
    ImplementsHeap
