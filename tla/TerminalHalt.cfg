SPECIFICATION HaltSpec
CONSTANTS
    NumTerminals = 2
    Users = {0, 1}
    MaxScrollbackOffset = 1
    Versions = 2
INVARIANT
    ScreenKept
