SPECIFICATION FairSpec
CONSTANTS
    FDC_MAX_SIZE = 6
    FDC_BUFFER_SIZE = 2
    Sizes = {0, 3, 6, 7}
    MaxErrors = 0
    MaxStrays = 0
PROPERTY
    EveryCallReturns
