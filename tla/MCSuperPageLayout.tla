-------------------------- MODULE MCSuperPageLayout --------------------------
(***************************************************************************)
(* SuperPageLayout for TLC: a 12-bit address space with two super pages of *)
(* two roots, and the requests around every bucket size.                   *)
(***************************************************************************)
EXTENDS SuperPageLayout, TLC

\* The super pages at 256 and 512 belong to the roots at 64 and 128.
TwoSuperPages == (256 :> 64) @@ (512 :> 128)

\* Around every bucket size, the largest bucket, MaxDirectMapped() and the
\* ends of size_t.
BoundarySizes ==
    {n \in UNION {{b - 1, b, b + 1} :
                    b \in {bucket_sizes_[k] : k \in 0..(kNumBuckets - 1)}
                          \cup {kMaxBucketed, kMaxDirectMapped,
                                kMaxDirectMapped - PageAllocationGranularity,
                                SizeT - extras_size, SizeT - 1}} :
        n \in 0..(SizeT - 1)} \cup {0}

\* The constants are a layout PartitionAllocGlobalInit() accepts, and the
\* super pages are aligned on their size.
ASSUME /\ StaticAsserts
       /\ \A sp \in DOMAIN SuperPageRoot : sp % kSuperPageSize = 0
       /\ DirectMapBase % kSuperPageSize = 0

=============================================================================
