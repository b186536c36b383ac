SPECIFICATION Spec
CONSTANTS
    Proxy = {pcm, meta}
PROPERTIES
    KillCompletes
CHECK_DEADLOCK FALSE
