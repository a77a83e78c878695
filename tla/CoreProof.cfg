\* Precompile shards across batches, memory packed into the last record, or not when the
\* packed shape does not fit, every failure the code can meet, and liveness. The threads
\* may end up waiting for ever when a worker has failed.
CONSTANTS
    w1 = w1
    w2 = w2
    w3 = w3
    Workers = {w1, w2, w3}
    NoWorker = NoWorker
    Codes = {"keccak", "sha", "ed"}
    KECCAK_SPONGE = "keccak"
    Threshold <- MCThreshold
    MemoryChunk = 2
    AddrWidth = 3
    Batches <- CrossingBatches
    SmallProgram = TRUE
    CombineThreshold = 2
    CheckpointCapacity = 1
    OutputCapacity = 1
    ShardBatchSize = 2
    Faults <- AllFaults
    UnfitChoices <- AnyMayNotFit
    PcStart = 4
    CpuLogDegree = 21
    MaxCpuLogDegree = 22
SPECIFICATION FairSpec
INVARIANTS TypeOK OkProofIsAccepted NoEventIsLost ShardsAreWellFormed
           GuardHolderHasTraceTurn HangNeedsFailedWorker
PROPERTIES ImplementsSequential Returns
CHECK_DEADLOCK FALSE
