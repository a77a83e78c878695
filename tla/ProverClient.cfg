CONSTANTS
    Processes = {p1, p2}
    None = None
    MaxBuilds = 4
    MaxCalls = 3
    Timeout = 2
    ConfiguredInterval = 0
    MIN_POLL_INTERVAL = 1
    Kinds = {"Compressed", "Plonk", "Groth16", "DvSnark", "CompressToGroth16"}
    Provers = {"cpu", "mock", "network"}
    CallModes = {"release", "imm", "dev"}
SPECIFICATION Spec
PROPERTIES RejectionHasACause CallsEnd
CHECK_DEADLOCK FALSE
