SPECIFICATION SettledSpec
CONSTANTS
    Proxy = {pcm, meta}
INVARIANTS
    NoUseAfterClose
PROPERTIES
    NoTailLost
    KillCompletes
    EndOfTrackSeen
CHECK_DEADLOCK FALSE
