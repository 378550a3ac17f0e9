-------------------------- MODULE BucketIndexLookup --------------------------
(***************************************************************************)
(* The size-class arithmetic of partition_root.h: the tables that          *)
(* BucketIndexLookup builds at compile time, GetIndex(), and the size      *)
(* computations of PartitionRoot that sit on top of it (the extras,        *)
(* ActualSize(), the direct-map sizes, the rounding of AlignedAllocFlags). *)
(*                                                                         *)
(* size_t is kBitsPerSizeT bits wide; arithmetic that can wrap in the code *)
(* wraps here.  The operators are checked against reference definitions by *)
(* a walk over the sizes in Probes.                                        *)
(***************************************************************************)
EXTENDS Integers, FiniteSets, FiniteSetsExt

CONSTANTS
    kBitsPerSizeT,            \* width of size_t
    kNumBucketsPerOrderBits,  \* 3 in the code: 8 buckets per order
    kMinBucketedOrder,        \* order of kSmallestBucket
    kMaxBucketedOrder,        \* order of the largest buckets
    SystemPageSize,           \* a power of two
    kMaxDirectMapped,         \* MaxDirectMapped()
    extras_size,              \* bytes of ref-count and cookies in a slot
    ENABLE_REF_COUNT_FOR_BACKUP_REF_PTR,  \* the build flag
    Probes,                   \* the request sizes the walk visits
    Alignments,               \* the alignments asked of AlignedAllocFlags
    Null                      \* nullptr

ASSUME /\ kNumBucketsPerOrderBits \in Nat
       /\ kNumBucketsPerOrderBits < kMinBucketedOrder
       /\ kMinBucketedOrder <= kMaxBucketedOrder
       /\ kMaxBucketedOrder < kBitsPerSizeT
       /\ Probes \subseteq 0..(2^kBitsPerSizeT - 1) /\ Probes # {}
       /\ extras_size \in Nat
       /\ ENABLE_REF_COUNT_FOR_BACKUP_REF_PTR \in BOOLEAN

VARIABLES
    size,    \* the request at hand
    index    \* SizeToBucketIndex(size)

vars == <<size, index>>

SizeT == 2^kBitsPerSizeT

kNumBucketsPerOrder == 2^kNumBucketsPerOrderBits
kNumBucketedOrders  == kMaxBucketedOrder - kMinBucketedOrder + 1
kNumBuckets         == kNumBucketedOrders * kNumBucketsPerOrder
kSmallestBucket     == 2^(kMinBucketedOrder - 1)
kMaxBucketSpacing   == 2^((kMaxBucketedOrder - 1) - kNumBucketsPerOrderBits)
kMaxBucketed        == 2^(kMaxBucketedOrder - 1)
                          + (kNumBucketsPerOrder - 1) * kMaxBucketSpacing

\* kBitsPerSizeT - CountLeadingZeroBitsSizeT(n): the bits n needs.
Order(n) ==
    CHOOSE o \in 0..kBitsPerSizeT : n < 2^o /\ (o = 0 \/ n >= 2^(o - 1))

OrderIndexShift(order) ==
    IF order < kNumBucketsPerOrderBits + 1
    THEN 0 ELSE order - (kNumBucketsPerOrderBits + 1)

\* Fault: the mask is shifted one bit too far.
OrderSubIndexMaskNarrow(order) ==
    ((2^order - 1) % SizeT) \div 2^(kNumBucketsPerOrderBits + 2)

\* static_cast<size_t>(1) << order.  A shift by the width of size_t is
\* undefined; the shifters of the targets take the count modulo the width.
ShiftLeftOne(order) == 2^(order % kBitsPerSizeT) % SizeT

\* 1 << kBitsPerSizeT cannot be computed in size_t, hence the first case.
OrderSubIndexMask(order) ==
    IF order = kBitsPerSizeT
    THEN (SizeT - 1) \div 2^(kNumBucketsPerOrderBits + 1)
    ELSE ((ShiftLeftOne(order) + SizeT - 1) % SizeT)
            \div 2^(kNumBucketsPerOrderBits + 1)

\* The two tables GetIndex() reads, one entry per order.
kOrderIndexShift   == [order \in 0..kBitsPerSizeT |-> OrderIndexShift(order)]
kOrderSubIndexMask == [order \in 0..kBitsPerSizeT |-> OrderSubIndexMask(order)]

\* InitBucketSizes(): an order starts at a power of two and its sizes grow by
\* the order's increment, which doubles from one order to the next.
bucket_sizes_ ==
    [k \in 0..(kNumBuckets - 1) |->
        (kSmallestBucket
            + (k % kNumBucketsPerOrder) * (kSmallestBucket \div kNumBucketsPerOrder))
        * 2^(k \div kNumBucketsPerOrder)]

\* The inner while loop of the constructor: the first bucket from k on whose
\* size is a multiple of kSmallestBucket.
RECURSIVE ValidBucketIndex(_)
ValidBucketIndex(k) ==
    IF bucket_sizes_[k] % kSmallestBucket = 0 THEN k ELSE ValidBucketIndex(k + 1)

\* Fault: the orders above kMaxBucketedOrder point past the sentinel bucket.
bucket_index_lookup_PastSentinel ==
    [e \in 0..((kBitsPerSizeT + 1) * kNumBucketsPerOrder) |->
        LET order == e \div kNumBucketsPerOrder
        IN  IF order < kMinBucketedOrder THEN 0
            ELSE IF order > kMaxBucketedOrder THEN kNumBuckets + 1
            ELSE ValidBucketIndex(e - kMinBucketedOrder * kNumBucketsPerOrder)]

\* The constructor: a flat table of (kBitsPerSizeT + 1) orders of
\* kNumBucketsPerOrder entries, and one more entry for the roll-over from the
\* last order.
bucket_index_lookup_ ==
    [e \in 0..((kBitsPerSizeT + 1) * kNumBucketsPerOrder) |->
        LET order == e \div kNumBucketsPerOrder
        IN  IF order < kMinBucketedOrder THEN 0
            ELSE IF order > kMaxBucketedOrder THEN kNumBuckets
            ELSE ValidBucketIndex(e - kMinBucketedOrder * kNumBucketsPerOrder)]

\* Fault: the remaining bits are ignored, so a size between two buckets is
\* not bumped up.
GetIndexNoBump(n) ==
    bucket_index_lookup_[Order(n) * kNumBucketsPerOrder
        + ((n \div 2^kOrderIndexShift[Order(n)]) % kNumBucketsPerOrder)]

GetIndex(n) ==
    LET order           == Order(n)
        order_index     == (n \div 2^kOrderIndexShift[order]) % kNumBucketsPerOrder
        sub_order_index == n % (kOrderSubIndexMask[order] + 1)
    IN  bucket_index_lookup_[order * kNumBucketsPerOrder + order_index
                                + (IF sub_order_index # 0 THEN 1 ELSE 0)]

SizeToBucketIndex(n) == GetIndex(n)

\* bucket_at(i).slot_size; the sentinel bucket at kNumBuckets is the
\* direct-mapped one and has no slot size.
SlotSize(i) == IF i = kNumBuckets THEN 0 ELSE bucket_sizes_[i]

-----------------------------------------------------------------------------
(* Sizes in PartitionRoot *)

AdjustSizeForExtrasAdd(n)      == (n + extras_size) % SizeT
AdjustSizeForExtrasSubtract(n) == (n - extras_size) % SizeT

\* bits::Align(raw_size, SystemPageSize())
GetDirectMapSlotSize(raw_size) ==
    (((raw_size + SystemPageSize - 1) % SizeT) \div SystemPageSize) * SystemPageSize

\* Fault: a zero-sized request is not raised to one byte.
RawSizeKeepsZero(requested_size) == AdjustSizeForExtrasAdd(requested_size)

\* The head of AllocFlagsNoHooks(): the size the bucket is chosen for.
RawSize(requested_size) ==
    AdjustSizeForExtrasAdd(
        IF ENABLE_REF_COUNT_FOR_BACKUP_REF_PTR /\ requested_size = 0
        THEN 1 ELSE requested_size)

\* PA_CHECK(raw_size >= requested_size) lets the request through.
RawSizeAccepted(requested_size) == RawSize(requested_size) >= requested_size

ActualSize(n) ==
    LET raw  == AdjustSizeForExtrasAdd(n)
        slot == SlotSize(SizeToBucketIndex(raw))
    IN  AdjustSizeForExtrasSubtract(
            IF SizeToBucketIndex(raw) # kNumBuckets THEN slot
            ELSE IF raw > kMaxDirectMapped THEN raw
            ELSE GetDirectMapSlotSize(raw))

\* Fault: the request is rounded up to the alignment only.
AlignedRequestedSizeNoRound(alignment, n) ==
    IF n < alignment THEN alignment ELSE n

\* AlignedAllocFlags(): the size it allocates for alignment and n, nullptr
\* when rounding n up to a power of two overflows.  The shift by
\* kBitsPerSizeT that the code makes for n above half the range yields 0 or 1,
\* depending on the target; either is below n.
AlignedRequestedSize(alignment, n) ==
    IF n < alignment THEN alignment
    ELSE IF Order(n - 1) = kBitsPerSizeT THEN Null
    ELSE 2^Order(n - 1)

-----------------------------------------------------------------------------
(* The walk over the probes *)

FirstProbe == Min(Probes)
LastProbe  == Max(Probes)

\* The probe that follows p.
Successor(p) ==
    IF p = LastProbe THEN FirstProbe
    ELSE CHOOSE q \in Probes : q > p /\ \A r \in Probes : r > p => r >= q

Init ==
    /\ size = FirstProbe
    /\ index = SizeToBucketIndex(size)

\* The next larger request.
NextSize ==
    /\ size # LastProbe
    /\ size' = Successor(size)
    /\ index' = SizeToBucketIndex(size')

\* After the largest request the walk starts over.
Restart ==
    /\ size = LastProbe
    /\ size' = Successor(size)
    /\ index' = SizeToBucketIndex(size')

Next == NextSize \/ Restart

Spec == Init /\ [][Next]_vars

-----------------------------------------------------------------------------
(* Properties *)

TypeOK == size \in Probes /\ index \in 0..kNumBuckets

\* The buckets a request may be served from: real ones (no pseudo bucket)
\* that are large enough.
Fits(n) ==
    {k \in 0..(kNumBuckets - 1) :
        bucket_sizes_[k] % kSmallestBucket = 0 /\ bucket_sizes_[k] >= n}

\* GetIndex() finds the smallest bucket that fits, and the sentinel bucket
\* exactly for the sizes above kMaxBucketed: the shift, the mask, the bump by
\* !!sub_order_index and the roll-over into the next order's entries of the
\* lookup table agree with the definition of the size classes.
GetIndexIsLeastFit ==
    index = IF Fits(size) = {} THEN kNumBuckets ELSE Min(Fits(size))

\* A larger request never gets a smaller bucket.
BucketIndexMonotonic ==
    [][size' >= size => index' >= index]_vars

\* What ActualSize() promises and GetUsableSize() reports is at least what
\* was asked for, for every request that passes the overflow check of
\* AllocFlagsNoHooks() and is not too large to allocate; a zero-sized
\* request of a build with the reference count still gets room behind its
\* extras.  PA_CHECK(raw_size >= requested_size) stops exactly the requests
\* whose raw size wrapped: none that wrapped passes (its slot would not
\* cover it), and none that fits in size_t is stopped.
UsableSizeCoversRequest ==
    /\ ~RawSizeAccepted(size) => size + extras_size >= SizeT
    /\ (RawSizeAccepted(size) /\ RawSize(size) <= kMaxDirectMapped) =>
        LET slot == IF SizeToBucketIndex(RawSize(size)) # kNumBuckets
                    THEN SlotSize(SizeToBucketIndex(RawSize(size)))
                    ELSE GetDirectMapSlotSize(RawSize(size))
        IN  /\ slot >= extras_size + size
            /\ ENABLE_REF_COUNT_FOR_BACKUP_REF_PTR => slot > extras_size
            /\ size > 0 => ActualSize(size) >= size

\* AlignedAllocFlags() relies on slots of a power-of-two size being aligned
\* on their size: the size it asks for covers the request and lands in a
\* bucket whose slots are exactly that size or a multiple of the alignment.
AlignedSizeKeepsAlignment ==
    \A a \in Alignments :
        LET r == AlignedRequestedSize(a, size)
        IN  (r # Null /\ r <= kMaxBucketed) =>
                /\ r >= size
                /\ SlotSize(SizeToBucketIndex(r)) % a = 0

=============================================================================
