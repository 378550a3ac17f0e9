------------------------- MODULE MCBucketIndexLookup -------------------------
(***************************************************************************)
(* BucketIndexLookup for TLC: the sets of request sizes that the models    *)
(* walk.                                                                   *)
(***************************************************************************)
EXTENDS BucketIndexLookup

\* Every value of a narrow size_t.
AllSizes == 0..(SizeT - 1)

\* Around every bucket size and every power of two, around the requests
\* whose extras wrap, and the ends of size_t: where an order, an order index
\* or the sentinel entry changes.
BoundarySizes ==
    {n \in UNION {{b - 1, b, b + 1} :
                    b \in {bucket_sizes_[k] : k \in 0..(kNumBuckets - 1)}
                          \cup {2^o : o \in 0..(kBitsPerSizeT - 1)}
                          \cup {kMaxBucketed, kMaxDirectMapped,
                                kMaxDirectMapped - extras_size,
                                SizeT - extras_size, SizeT - 1}} :
        n \in 0..(SizeT - 1)}

\* The boundaries, and every size of the lowest orders.
CodeSizes == BoundarySizes \cup 0..(2^(kMinBucketedOrder + 6) - 1)

\* With the orders of the code the largest bucket is the one that
\* PartitionAllocGlobalInit() asserts.
ASSUME kMaxBucketedOrder = 20 /\ kNumBucketsPerOrderBits = 3 =>
           kMaxBucketed = 983040

=============================================================================
