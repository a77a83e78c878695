CONSTANTS
    NumBits = 3
    LowBits = 2
    NR = 3
    VarOrder = 2097169
    WIDTH = 4
    HASH_RATE = 2
    DIGEST_SIZE = 2
    LogBlowup = 1
    PowBits = 1
    OuterRate = 4
    NumFElms = 2
    AddrOrder = 1009
    NUM_EXTERNAL_ROUNDS = 4
    NUM_INTERNAL_ROUNDS = 3
    ReduceBits = 10
    VarWitnesses = {0, 1, 2}
    Circuits <- MCCircuits
    Compiled <- MCCompiled
SPECIFICATION Spec
INVARIANTS
    MeantIsProvable
    ProvableIsMeant
