\* Two threads, one size class, a thread cache and a scannable root.
CONSTANTS
    Threads = {t1, t2}
    NoThread = NoThread
    Buckets = {b1}
    sentinel_bucket = sentinel_bucket
    DirectMaps = {d1}
    NumSpans = 2
    SlotsPerSpan = 2
    ProvisionBatch = 2
    BinLimit = 2
    MaxRefs = 0
    MaxDepth = 1
    WithThreadCache = TRUE
    Scannable = TRUE
    AllowRefCount = FALSE
    TlsAllocates = FALSE
    ThreadsExit = FALSE
    Null = Null
    NoCache = NoCache
SYMMETRY ThreadSymmetry
SPECIFICATION Spec
INVARIANTS
    TypeOK
    SlotConservation
    SpanAccounting
PROPERTIES
    LockDiscipline
    OutOfMemoryIsReal
