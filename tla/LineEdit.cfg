SPECIFICATION LineSpec
CHECK_DEADLOCK FALSE
CONSTANTS
    Letters = {"a", "b"}
    Keys = {"a", "space"}
    BufferSize = 5
    MaxHistory = 2
    Names <- MCNames
    Coords = {"a"}
    NumCols = 3
    StartX = 1
INVARIANTS
    LineTypeOK
    LineOK
PROPERTY
    ImplementsLineText
