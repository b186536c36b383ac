SPECIFICATION Spec
CONSTANTS
    OnPath = FALSE
    PipeBytes = 9
    RingBytes = 12
    Chunk = 8
    LowWater = 4
    PreBuffer = 8
PROPERTY PauseSticks
