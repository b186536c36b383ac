\* A HUD that reads the slot in any order while the injector exchanges it.
SPECIFICATION Spec
INVARIANT
    ReaderInBounds
CONSTANTS
    SsoCap = 2
    MaxLen = 6
    Headroom = 1
CHECK_DEADLOCK FALSE
