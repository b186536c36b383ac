\* Single-consumer discipline: every drain finds no read in progress.
CONSTANTS
    Capacity = 3
    Modulus = 16
    MaxChunk = 2
    MaxPos = 7
SPECIFICATION QuietSpec
INVARIANTS Occupancy NoTornRead NoReplay
PROPERTIES ImplementsQueue
