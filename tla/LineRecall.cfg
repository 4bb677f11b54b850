SPECIFICATION LineSpec
CHECK_DEADLOCK FALSE
CONSTANTS
    Letters = {"a", "b"}
    Keys = {"a"}
    BufferSize = 5
    MaxHistory = 2
    Names <- MCNoNames
    Coords = {"a"}
    NumCols = 3
    StartX = 1
PROPERTY
    KeepsToLineText
