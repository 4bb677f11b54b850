SPECIFICATION RtcFairSpec
CONSTANTS
    MaxFreqLog2 = 3
    Files = {f1, f2}
    Inputs = {1, 4, 6, 8, 16}
    MaxTics = 5
    MaxAbandoned = 1
INVARIANTS
    TypeOK
    UsersCounted
PROPERTIES
    RateServesOpen
    ReadReturns
