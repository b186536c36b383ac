\* Two textures, made, freed and made again; the UI is not reloaded in an upload.
SPECIFICATION SteadySpec
INVARIANTS
    NoMixedArtwork
PROPERTIES
    OnlyLogosOverwritten
    LogoIsFound
    ArtworkIsDrawn
CONSTANTS
    Tex = {t1, t2}
    Delay = 1
    MaxImage = 2
CHECK_DEADLOCK FALSE
