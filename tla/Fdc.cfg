SPECIFICATION FairSpec
CONSTANTS
    FDC_MAX_SIZE = 6
    FDC_BUFFER_SIZE = 2
    Sizes = {0, 3, 6, 7}
    MaxErrors = 2
    MaxStrays = 1
INVARIANTS
    TypeOK
    MotorFollows
    TransferInPlace
PROPERTIES
    DiskPromise
    CallReturns
