CONSTANTS
    Threads = {t1, t2}
    NoThread = NoThread
    Buckets = {b1}
    sentinel_bucket = sentinel_bucket
    DirectMaps = {}
    NumSpans = 1
    SlotsPerSpan = 2
    ProvisionBatch = 2
    BinLimit = 2
    MaxRefs = 0
    MaxDepth = 3
    WithThreadCache = TRUE
    Scannable = FALSE
    AllowRefCount = FALSE
    TlsAllocates = TRUE
    ThreadsExit = FALSE
    Null = Null
    NoCache = NoCache
SPECIFICATION Spec
INVARIANTS
    NoReentrantCreate
