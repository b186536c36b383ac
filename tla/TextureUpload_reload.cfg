\* The UI may be reloaded while an upload is under way.
SPECIFICATION Spec
PROPERTIES
    OnlyLogosOverwritten
CONSTANTS
    Tex = {t1, t2}
    Delay = 1
    MaxImage = 2
CHECK_DEADLOCK FALSE
