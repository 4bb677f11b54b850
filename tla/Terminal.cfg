SPECIFICATION Spec
CONSTANTS
    NumTerminals = 3
    Users = {0, 1}
    MaxScrollbackOffset = 1
    Versions = 2
INVARIANTS
    TypeOK
    ScreenKept
PROPERTY
    ReadReturns
