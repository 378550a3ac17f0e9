\* A 12-bit size_t: system pages of 16 bytes, partition pages of 64, super
\* pages of 256 whose metadata fills its system page exactly; a root with a
\* reference count in front of the data.
CONSTANTS
    kBitsPerSizeT = 12
    kNumBucketsPerOrderBits = 2
    kMinBucketedOrder = 3
    kMaxBucketedOrder = 7
    SystemPageSize = 16
    kMaxDirectMapped = 2112
    extras_size = 4
    ENABLE_REF_COUNT_FOR_BACKUP_REF_PTR = TRUE
    allow_ref_count = TRUE
    Probes <- BoundarySizes
    Alignments = {4}
    Null = Null
    PartitionPageSize = 64
    kSuperPageSize = 256
    kPageMetadataSize = 4
    kMaxPartitionPagesPerSlotSpan = 4
    PageAllocationGranularity = 64
    kAlignment = 4
    extras_offset = 4
    Has64BitPointers = FALSE
    GigaCageEnabled = FALSE
    SuperPageRoot <- TwoSuperPages
    DirectMapBase = 2048
SPECIFICATION LayoutSpec
INVARIANTS
    RootFoundFromEveryPointer
    SlotStartRecovered
    DirectMapReservationHoldsSlot
