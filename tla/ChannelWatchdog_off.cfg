SPECIFICATION Spec
INVARIANTS
    ToggleComesBack
CONSTANTS
    Obj = {o1, o2}
    Handles = 2
    StaleTicks = 2
    Cooldown = 3
    RescanAfter = 2
    Misses = 2
    MaxLost = 1
