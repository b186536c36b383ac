\* A logo found while the artwork waits.
SPECIFICATION SteadySpec
PROPERTIES
    NotedLogoGetsArtwork
CONSTANTS
    Tex = {t1, t2}
    Delay = 1
    MaxImage = 2
CHECK_DEADLOCK FALSE
