SPECIFICATION HSpec
INVARIANTS
    FlagCoversNewest
PROPERTIES
    NewestWins
    TitleWithItsArtwork
    NoRepop
    HudCatchesUp
CONSTANTS
    MaxJob = 2
    ArtOf <- Album
    Avatar = "no_url"
    NoString = none
    Placeholder = game
    MetaEvery = 2
    Body = {b1, b2}
CHECK_DEADLOCK FALSE
