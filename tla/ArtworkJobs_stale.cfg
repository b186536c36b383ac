SPECIFICATION Spec
PROPERTIES
    NeverStale
CONSTANTS
    MaxJob = 3
CHECK_DEADLOCK FALSE
