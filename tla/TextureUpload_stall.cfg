\* The GPU does not finish a readback in time.
SPECIFICATION StallSpec
PROPERTIES
    OnlyLogosOverwritten
CONSTANTS
    Tex = {t1, t2}
    Delay = 1
    MaxImage = 2
CHECK_DEADLOCK FALSE
