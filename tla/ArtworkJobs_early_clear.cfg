SPECIFICATION Spec
INVARIANTS
    FlagNeverEarly
CONSTANTS
    MaxJob = 3
CHECK_DEADLOCK FALSE
