\* All programs with hints and unconstrained blocks, all with branches, precompiles and
\* unconstrained blocks, and all that use hooks and verify proofs.
CONSTANTS
    R = R
    V0 = V0
    a = a
    b = b
    Addrs = {a, b}
    None = None
    Image <- ImageA
    ProgramLength = 6
    ShapeCheckFrequency = 3
    MaxCycles = 10
    ProofStream <- TwoProofs
    DefaultHooks = {"default"}
    ContextHooks = {"default"}
    Cases <- AllPrograms
    HintTouched = FALSE
SPECIFICATION Spec
INVARIANTS ReplayMatches MemoryBalanced AccessesMoveForward ShardsChain
PROPERTIES BlockIsOneCall
