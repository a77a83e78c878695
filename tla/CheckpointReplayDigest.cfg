\* A batch ends between COMMIT and HALT.
CONSTANTS
    R = R
    V0 = V0
    a = a
    b = b
    Addrs = {a, b}
    None = None
    Image <- ImageA
    ProgramLength = 6
    ShapeCheckFrequency = 3
    MaxCycles = 9
    ProofStream <- TwoProofs
    DefaultHooks = {"default"}
    ContextHooks = {"default"}
    Cases <- CommitAndHalt
    HintTouched = FALSE
SPECIFICATION Spec
INVARIANTS DigestsChain
