SPECIFICATION VidmapSpec
CONSTANTS
    MaxProcesses = 4
    NumTerminals = 2
    NumShells = 2
    Artists = {1, 3}
INVARIANTS
    OwnPages
    DrawsWhereShown
PROPERTY
    RemapTakesEffect
