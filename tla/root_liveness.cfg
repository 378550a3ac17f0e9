CONSTANTS
    Threads = {t1, t2}
    NoThread = NoThread
    Buckets = {b1}
    sentinel_bucket = sentinel_bucket
    DirectMaps = {d1}
    NumSpans = 1
    SlotsPerSpan = 2
    ProvisionBatch = 1
    BinLimit = 2
    MaxRefs = 0
    MaxDepth = 1
    WithThreadCache = TRUE
    Scannable = FALSE
    AllowRefCount = FALSE
    TlsAllocates = FALSE
    ThreadsExit = TRUE
    Null = Null
    NoCache = NoCache
SPECIFICATION FairSpec
PROPERTIES
    LockEventuallyReleased
