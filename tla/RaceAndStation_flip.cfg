SPECIFICATION RaceSpec
PROPERTIES
    SilentForTheRace
CONSTANTS
    RaceStartDebounce = 4
    RaceRestartDebounce = 3
    SkipCommandCooldown = 2
    QuickSkipWindow = 2
    CommandCooldown = 2
