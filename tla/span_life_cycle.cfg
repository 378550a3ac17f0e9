\* Two buckets share four slot spans of two slots in two super pages and a
\* ring of two: a third empty span evicts the oldest.  Sizes are in system
\* pages, the counters have 6 bits.
CONSTANTS
    Buckets = {b1, b2}
    DirectMaps = {d1, d2}
    MaxSpans = 4
    SlotsPerSpan = 2
    kMaxFreeableSpans = 2
    kSuperPageSize = 5
    SpansPerSuperPage = 2
    SpanBytes = 2
    DirectBytes = 3
    DirectGuard = 1
    SizeT = 64
    Null = Null
SYMMETRY Symmetry
SPECIFICATION Spec
INVARIANTS
    TypeOK
    
    CounterMatchesPages
    RingIsTheEmptySpans
    PurgedFootprintIsLiveFootprint
