SPECIFICATION Spec
CONSTANTS
    Track = {t1, t2}
    JobsReap = FALSE
INVARIANTS
    ServedKillReaps
    ExitReapsAnswered
PROPERTIES
    SpawnAnswered
    DeliveredKillReaps
CHECK_DEADLOCK FALSE
