SPECIFICATION Spec
INVARIANTS
    OneCommandPerHold
    HoldFires
    ComboBeatsParts
CONSTANTS
    playpause = playpause
    skip = skip
    previous = previous
    a = a
    b = b
    Pad = {a, b}
    Order <- MCOrder
    Bind <- MCBind
    HoldTicks = 3
