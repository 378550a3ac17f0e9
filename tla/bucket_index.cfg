\* The bucket orders of the code, with size_t narrowed to 24 bits and a
\* reference count in front of the data: every size of the lowest orders
\* and the sizes around every bucket boundary are visited.
CONSTANTS
    kBitsPerSizeT = 24
    kNumBucketsPerOrderBits = 3
    kMinBucketedOrder = 4
    kMaxBucketedOrder = 20
    SystemPageSize = 4096
    kMaxDirectMapped = 8388608
    extras_size = 8
    ENABLE_REF_COUNT_FOR_BACKUP_REF_PTR = TRUE
    Probes <- CodeSizes
    Alignments = {16, 64, 256, 4096}
    Null = Null
SPECIFICATION Spec
INVARIANTS
    TypeOK
    GetIndexIsLeastFit
    UsableSizeCoversRequest
    AlignedSizeKeepsAlignment
PROPERTIES
    BucketIndexMonotonic
