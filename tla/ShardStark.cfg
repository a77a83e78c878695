\* Two shards: records, heights, claims and changes of a proof that matter to a verifier.
CONSTANTS
    MachineChips <- ChipsOfMachine
    Info <- ChipInfo
    Programs <- TwoPrograms
    Records <- SomeRecords
    Shards = {1, 2}
    InitialSum = 1
    FieldOrder = 6
SPECIFICATION Spec
INVARIANTS
    HonestIsAccepted
    AcceptedIsBalanced
    ChangedIsRefused
    CircuitAgrees
\* A verdict ends a behaviour.
CHECK_DEADLOCK FALSE
