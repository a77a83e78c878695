\* Four-bit limbs: see MCInstructionChips for the operands.
CONSTANTS
    ByteBits = 4
    WordSize = 2
    NumRegisters = 4
    Inputs <- MCInputs

SPECIFICATION Spec

INVARIANTS
    ExecutedIsProvable
    ProvableIsExecuted
    LookupsMatchEvents

PROPERTIES
    CutsAreProvable

\* The executor stops at the end of the program or at an error.
CHECK_DEADLOCK FALSE
