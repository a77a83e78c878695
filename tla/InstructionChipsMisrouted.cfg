\* A precompile call and all rows that a proof may have for it.
CONSTANTS
    ByteBits = 4
    WordSize = 2
    NumRegisters = 4
    Inputs <- OnePrecompile

SPECIFICATION Spec

INVARIANTS NoCallIsMisrouted

\* The executor stops at the end of the program.
CHECK_DEADLOCK FALSE
