SPECIFICATION Spec
CONSTANTS
    Track = {t1, t2}
    JobsReap = TRUE
PROPERTIES
    KilledIsReaped
CHECK_DEADLOCK FALSE
