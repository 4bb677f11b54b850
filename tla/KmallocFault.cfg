SPECIFICATION Spec
CONSTANTS
    StorageBytes = 12
    MaxRegions = 10
    Sizes = {1, 3}
    MaxLive = 2
INVARIANT
    RecordsSuffice
