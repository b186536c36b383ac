SPECIFICATION Spec
CONSTANTS
    Capacity = 3
    Modulus = 16
    MaxChunk = 2
    MaxPos = 6
INVARIANTS
    DrainDiscards
CHECK_DEADLOCK FALSE
