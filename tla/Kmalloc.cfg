SPECIFICATION Spec
CONSTANTS
    StorageBytes = 8
    MaxRegions = 9
    Sizes = {1, 2, 3}
    MaxLive = 3
INVARIANTS
    TypeOK
    Partition
    FreeIsClean
PROPERTIES
    FailsHonestly
    ImplementsHeap
