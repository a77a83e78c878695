\* Core proofs of at most four shards, of which one may deviate, with every list
\* of deferred proofs; a shard number must be below 4.
SPECIFICATION Spec
CONSTANTS
    PcStart = 1
    OtherPc = 2
    ZeroAddrBits = 0
    MaxCpuLogDegree = 1
    MaxShards = 4
    MaxLogNumberOfShards = 2
    InitialSum = 1
    VkDigest = 5
    VkRoot = VkRoot
    OtherRoot = OtherRoot
    ReduceVk = ReduceVk
    OtherVk = OtherVk
    AllowedVks = {ReduceVk}
    VkVerification = TRUE
    BatchSizes = {1, 2}
    DeferredLists <- MCDeferredLists
    MaxLen = 4
    MaxDeviations = 1
INVARIANTS
    VerifiedObeysCoreRules
    AcceptedIsNeverRefused
    AggregateIsBatch
    OnlyNeighboursCompress
CHECK_DEADLOCK FALSE
