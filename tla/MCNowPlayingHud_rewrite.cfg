\* The game writes its own strings back, or uses an address again.
SPECIFICATION RewriteSpec
PROPERTIES
    HudRecovers
CONSTANTS
    MaxJob = 2
    ArtOf <- Album
    Avatar = "no_url"
    NoString = none
    Placeholder = game
    MetaEvery = 2
    Body = {b1}
CHECK_DEADLOCK FALSE
