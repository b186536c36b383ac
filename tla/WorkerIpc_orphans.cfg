SPECIFICATION Spec
CONSTANTS
    Track = {t1}
    JobsReap = FALSE
INVARIANTS
    NoOrphans
CHECK_DEADLOCK FALSE
