--------------------------- MODULE SuperPageLayout ---------------------------
(***************************************************************************)
(* From a pointer back to its slot, its slot span and its root: the        *)
(* address arithmetic of partition_root.h over the layout that             *)
(* PartitionAllocGlobalInit() asserts (partition_alloc.cc).                *)
(*                                                                         *)
(* Addresses are numbers below SizeT.  A super page starts with a          *)
(* partition page that is guard pages around one system page of metadata   *)
(* and ends with a guard partition page; the pages between them are carved *)
(* into slot spans.  The walk allocates one request after the other, the   *)
(* way a root fills spans and super pages, and looks at the pointer that   *)
(* AllocFlagsNoHooks() returns for each.                                   *)
(***************************************************************************)
EXTENDS BucketIndexLookup

CONSTANTS
    PartitionPageSize,              \* PartitionPageSize()
    kSuperPageSize,
    kPageMetadataSize,              \* bytes of metadata per partition page
    kMaxPartitionPagesPerSlotSpan,
    PageAllocationGranularity,
    kAlignment,
    extras_offset,                  \* bytes of extras in front of the data
    Has64BitPointers,               \* PA_HAS_64_BITS_POINTERS
    GigaCageEnabled,                \* features::IsPartitionAllocGigaCageEnabled()
    allow_ref_count,                \* the option of the root
    SuperPageRoot,                  \* super page |-> the root in its extent entry
    DirectMapBase                   \* where a direct-map reservation starts

VARIABLES
    span,    \* the slot span in use: super page, first page, pages, bucket
    slot,    \* the slot of the span that was handed out last
    ret      \* what AllocFlagsNoHooks() returned for size

layout_vars == <<size, index, span, slot, ret>>

NumPartitionPagesPerSuperPage  == kSuperPageSize \div PartitionPageSize
NumSystemPagesPerPartitionPage == PartitionPageSize \div SystemPageSize
MaxSystemPagesPerSlotSpan ==
    NumSystemPagesPerPartitionPage * kMaxPartitionPagesPerSlotSpan

\* What PartitionAllocGlobalInit() checks before it installs the handler.
\* (x & (x - 1)) == 0 holds of the powers of two and of 0; the largest bucket
\* is the literal 983040 for the orders of the code.
StaticAsserts ==
    /\ SystemPageSize \in {0} \cup {2^k : k \in 0..kBitsPerSizeT}
    /\ PartitionPageSize * 4 <= kSuperPageSize
    /\ kSuperPageSize % PartitionPageSize = 0
    /\ SystemPageSize * 4 <= PartitionPageSize
    /\ PartitionPageSize % SystemPageSize = 0
    /\ kPageMetadataSize * NumPartitionPagesPerSuperPage <= SystemPageSize
    /\ kMaxDirectMapped <= 2^(kBitsPerSizeT - 1) + PageAllocationGranularity
    /\ kSmallestBucket = kAlignment
    /\ kMaxBucketedOrder = 20 /\ kNumBucketsPerOrderBits = 3 =>
           kMaxBucketed = 983040
    /\ MaxSystemPagesPerSlotSpan < 2^8

\* bits::Align() and the masks, in size_t.
Align(n, alignment) == (((n + alignment - 1) % SizeT) \div alignment) * alignment
BaseOf(addr, unit)  == addr - (addr % unit)
Inverted(addr)      == SizeT - 1 - addr

-----------------------------------------------------------------------------
(* Direct map sizes *)

UsesGigaCage ==
    GigaCageEnabled /\ (ENABLE_REF_COUNT_FOR_BACKUP_REF_PTR => allow_ref_count)

GetDirectMapMetadataAndGuardPagesSize ==
    PartitionPageSize + (IF Has64BitPointers THEN 0 ELSE SystemPageSize)

\* Fault: the partition page of metadata and the guard page are forgotten.
GetDirectMapReservedSizeNoGuard(raw_size) ==
    Align(raw_size,
          IF Has64BitPointers /\ UsesGigaCage
          THEN kSuperPageSize ELSE PageAllocationGranularity)

GetDirectMapReservedSize(raw_size) ==
    Align((raw_size + GetDirectMapMetadataAndGuardPagesSize) % SizeT,
          IF Has64BitPointers /\ UsesGigaCage
          THEN kSuperPageSize ELSE PageAllocationGranularity)

\* CHECK_MAX_SIZE_OR_RETURN_NULLPTR
TooLarge(n) == n > kMaxDirectMapped

-----------------------------------------------------------------------------
(* The metadata of a super page *)

PartitionSuperPageToMetadataArea(super_page) == super_page + SystemPageSize

\* extent_entry->root as read at addr: the root of the super page whose
\* metadata area starts there, nothing of use anywhere else.
ExtentRoot(addr) ==
    IF addr - SystemPageSize \in DOMAIN SuperPageRoot
    THEN SuperPageRoot[addr - SystemPageSize] ELSE Null

\* root->inverted_self, set by Init() of a root and 0 before.
inverted_self(root) ==
    IF \E sp \in DOMAIN SuperPageRoot : SuperPageRoot[sp] = root
    THEN Inverted(root) ELSE 0

\* slot_span_metadata_offset of partition page i: its distance from the
\* first page of its slot span.
slot_span_metadata_offset(super_page, i) ==
    IF super_page = span.super_page /\ i \in span.page..(span.page + span.pages - 1)
    THEN i - span.page ELSE 0

\* SlotSpanMetadata::FromPointerNoAlignmentCheck(): the metadata of the
\* first partition page of the span that holds ptr.
FromPointerNoAlignmentCheck(ptr) ==
    LET super_page == BaseOf(ptr, kSuperPageSize)
        i          == (ptr - super_page) \div PartitionPageSize
    IN  PartitionSuperPageToMetadataArea(super_page)
            + (i - slot_span_metadata_offset(super_page, i)) * kPageMetadataSize

\* SlotSpanMetadata::ToPointer(): where the span of this metadata starts.
ToPointer(slot_span) ==
    LET super_page == BaseOf(slot_span, kSuperPageSize)
    IN  super_page + PartitionPageSize *
            ((slot_span - PartitionSuperPageToMetadataArea(super_page))
                 \div kPageMetadataSize)

SlotSpanStart == span.super_page + span.page * PartitionPageSize

\* slot_span->bucket->slot_size: only the first page of a span has a bucket.
BucketSlotSize(slot_span) ==
    IF slot_span = FromPointerNoAlignmentCheck(SlotSpanStart)
    THEN SlotSize(span.bucket) ELSE 0

GetUtilizedSlotSize(slot_span) == BucketSlotSize(slot_span)

\* Fault: the metadata address is masked down to its partition page.
FromSlotSpanPartitionPageMask(slot_span) ==
    ExtentRoot(BaseOf(slot_span, PartitionPageSize))

FromSlotSpan(slot_span) == ExtentRoot(BaseOf(slot_span, SystemPageSize))

IsValidSlotSpan(slot_span) ==
    LET root == FromSlotSpan(slot_span)
    IN  root # Null /\ inverted_self(root) = Inverted(root)

FromSuperPage(super_page) ==
    ExtentRoot(PartitionSuperPageToMetadataArea(super_page))

FromPointerInNormalBucketPool(ptr) == FromSuperPage(BaseOf(ptr, kSuperPageSize))

-----------------------------------------------------------------------------
(* From a pointer to its slot *)

AdjustPointerForExtrasAdd(ptr)      == (ptr + extras_offset) % SizeT
AdjustPointerForExtrasSubtract(ptr) == (ptr - extras_offset) % SizeT

PartitionAllocGetSlotSpanForSizeQuery(ptr) == FromPointerNoAlignmentCheck(ptr)

\* PartitionBucket::GetSlotNumber() and GetSlotOffset(); a page without a
\* bucket has no slots.
GetSlotNumber(slot_size, offset_in_slot_span) ==
    IF slot_size = 0 THEN 0 ELSE offset_in_slot_span \div slot_size
GetSlotOffset(slot_size, offset_in_slot_span) ==
    offset_in_slot_span - slot_size * GetSlotNumber(slot_size, offset_in_slot_span)

PartitionAllocGetSlotOffset(ptr) ==
    LET slot_span == PartitionAllocGetSlotSpanForSizeQuery(ptr)
    IN  GetSlotOffset(BucketSlotSize(slot_span), ptr - ToPointer(slot_span))

PartitionAllocGetSlotStart(ptr) ==
    LET slot_span == PartitionAllocGetSlotSpanForSizeQuery(ptr)
    IN  ToPointer(slot_span) + BucketSlotSize(slot_span)
            * GetSlotNumber(BucketSlotSize(slot_span), ptr - ToPointer(slot_span))

DCheckGetSlotOffsetIsZero(ptr) == PartitionAllocGetSlotOffset(ptr) = 0

GetUsableSize(ptr) ==
    AdjustSizeForExtrasSubtract(
        GetUtilizedSlotSize(FromPointerNoAlignmentCheck(ptr)))

GetSize(ptr) ==
    AdjustSizeForExtrasSubtract(
        BucketSlotSize(PartitionAllocGetSlotSpanForSizeQuery(
                           AdjustPointerForExtrasSubtract(ptr))))

-----------------------------------------------------------------------------
(* The walk: one request after the other *)

FirstPage == 1
LastPage  == NumPartitionPagesPerSuperPage - 2

\* The sizes a span of bucket i may have.
SpanPages(i) ==
    {n \in 1..kMaxPartitionPagesPerSlotSpan : n * PartitionPageSize >= SlotSize(i)}

SlotsPerSpan == (span.pages * PartitionPageSize) \div SlotSize(span.bucket)
SlotStart    == SlotSpanStart + slot * SlotSize(span.bucket)

Request(n) == size' = n /\ index' = SizeToBucketIndex(RawSize(n))

Bucketed(n) == RawSizeAccepted(n) /\ SizeToBucketIndex(RawSize(n)) # kNumBuckets

\* The current span serves the request: same bucket, a slot left.
SpanServes(n) ==
    SizeToBucketIndex(RawSize(n)) = span.bucket /\ slot + 1 < SlotsPerSpan

\* PA_CHECK(raw_size >= requested_size) fails, or the size is beyond
\* MaxDirectMapped().
AllocRefused(n) ==
    /\ ~RawSizeAccepted(n) \/ TooLarge(RawSize(n))
    /\ Request(n)
    /\ ret' = Null
    /\ UNCHANGED <<span, slot>>

\* The sentinel bucket: the slot lies behind the metadata partition page of
\* a reservation of its own.
AllocDirectMapped(n) ==
    /\ RawSizeAccepted(n) /\ ~Bucketed(n) /\ ~TooLarge(RawSize(n))
    /\ Request(n)
    /\ ret' = AdjustPointerForExtrasAdd(DirectMapBase + PartitionPageSize)
    /\ UNCHANGED <<span, slot>>

AllocFromSpan(n) ==
    /\ Bucketed(n) /\ SpanServes(n)
    /\ Request(n)
    /\ UNCHANGED span
    /\ slot' = slot + 1
    /\ ret' = AdjustPointerForExtrasAdd(SlotStart')

\* A new span of the request's bucket, behind the current one or, when the
\* super page has no room for it, at the start of another super page.
AllocNewSpan(n, pages) ==
    LET fits == span.page + span.pages + pages - 1 <= LastPage
    IN  /\ Bucketed(n) /\ ~SpanServes(n)
        /\ Request(n)
        /\ pages \in SpanPages(index') /\ pages <= LastPage - FirstPage + 1
        /\ \E sp \in DOMAIN SuperPageRoot :
              /\ fits <=> sp = span.super_page
              /\ span' = [super_page |-> sp,
                          page       |-> IF fits THEN span.page + span.pages
                                                 ELSE FirstPage,
                          pages      |-> pages,
                          bucket     |-> index']
        /\ slot' = 0
        /\ ret' = AdjustPointerForExtrasAdd(SlotStart')

LayoutInit ==
    /\ size = FirstProbe
    /\ index = SizeToBucketIndex(RawSize(size))
    /\ \E sp \in DOMAIN SuperPageRoot :
          span = [super_page |-> sp, page |-> FirstPage,
                  pages |-> Min(SpanPages(index)), bucket |-> index]
    /\ slot = 0
    /\ ret = AdjustPointerForExtrasAdd(SlotStart)

LayoutNext ==
    \E n \in Probes :
        \/ AllocRefused(n) \/ AllocDirectMapped(n) \/ AllocFromSpan(n)
        \/ \E pages \in 1..kMaxPartitionPagesPerSlotSpan : AllocNewSpan(n, pages)

LayoutSpec == LayoutInit /\ [][LayoutNext]_layout_vars

-----------------------------------------------------------------------------
(* Properties *)

InSlot == ret # Null /\ index # kNumBuckets

\* From every byte of a slot the lock-free lookups arrive at the root that
\* owns its super page: FromPointerNoAlignmentCheck() finds the metadata of
\* the span's first page, also from a later page of the span, and
\* FromSlotSpan() finds the extent entry by masking that address down to its
\* system page, which needs the metadata of all partition pages to fit in
\* one system page, as PartitionAllocGlobalInit() asserts.
RootFoundFromEveryPointer ==
    InSlot =>
        \A p \in SlotStart..(SlotStart + SlotSize(span.bucket) - 1) :
            LET slot_span == FromPointerNoAlignmentCheck(p)
            IN  /\ IsValidSlotSpan(slot_span)
                /\ FromSlotSpan(slot_span) = SuperPageRoot[span.super_page]
                /\ FromPointerInNormalBucketPool(p) = SuperPageRoot[span.super_page]

\* The pointer AllocFlagsNoHooks() returns lies inside its slot, for a
\* zero-sized request too: FreeNoHooksImmediate() gets back to the slot start
\* from it, and PartitionAllocGetSlotStart() and PartitionAllocGetSlotOffset()
\* do so from every byte the caller may use (GetUsableSize()), never taking
\* it for a byte of the next slot.
SlotStartRecovered ==
    InSlot =>
        /\ AdjustPointerForExtrasSubtract(ret) = SlotStart
        /\ DCheckGetSlotOffsetIsZero(SlotStart)
        /\ PartitionAllocGetSlotStart(ret) = SlotStart
        /\ GetUsableSize(ret) >= size /\ GetSize(ret) = GetUsableSize(ret)
        /\ \A o \in 0..(GetUsableSize(ret) - 1) :
              /\ PartitionAllocGetSlotStart(ret + o) = SlotStart
              /\ PartitionAllocGetSlotOffset(ret + o) = extras_offset + o

\* What GetDirectMapReservedSize() reserves for a direct-mapped request holds
\* the partition page of metadata, the guard page and the slot of
\* GetDirectMapSlotSize(), and is a multiple of the allocation granularity;
\* nothing wraps for a size up to MaxDirectMapped().
DirectMapReservationHoldsSlot ==
    (ret # Null /\ index = kNumBuckets) =>
        LET reserved == GetDirectMapReservedSize(RawSize(size))
        IN  /\ reserved % PageAllocationGranularity = 0
            /\ reserved >= GetDirectMapMetadataAndGuardPagesSize
                               + GetDirectMapSlotSize(RawSize(size))

=============================================================================
