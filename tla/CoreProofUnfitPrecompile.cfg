\* The combined attempt makes a precompile shard whose shape does not fit.
CONSTANTS
    w1 = w1
    w2 = w2
    w3 = w3
    Workers = {w1, w2}
    NoWorker = NoWorker
    Codes = {"keccak", "sha"}
    KECCAK_SPONGE = "keccak"
    Threshold <- MCThreshold
    MemoryChunk = 2
    AddrWidth = 3
    Batches <- CombinedBatches
    SmallProgram = TRUE
    CombineThreshold = 2
    CheckpointCapacity = 1
    OutputCapacity = 1
    ShardBatchSize = 2
    Faults <- NoFaults
    UnfitChoices <- PrecompileDoesNotFit
    PcStart = 4
    CpuLogDegree = 21
    MaxCpuLogDegree = 22
SPECIFICATION Spec
INVARIANTS OkProofIsAccepted
