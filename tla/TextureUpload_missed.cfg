\* A logo on the screen, whatever fails.
SPECIFICATION SteadySpec
PROPERTIES
    LogoGetsArtwork
CONSTANTS
    Tex = {t1, t2}
    Delay = 1
    MaxImage = 2
CHECK_DEADLOCK FALSE
