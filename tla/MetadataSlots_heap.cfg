\* The size is read first, and the text is on the heap already: in bounds.
SPECIFICATION HeapSpec
INVARIANTS
    TypeOK
    ReaderInBounds
CONSTANTS
    SsoCap = 2
    MaxLen = 6
    Headroom = 1
CHECK_DEADLOCK FALSE
