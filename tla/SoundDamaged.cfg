SPECIFICATION FairSpec
CONSTANTS
    MAX_FILES = 4
    Users = {u1}
    Wavs <- MCWavs
    HEADER = 1
    CHUNK_SIZE = 2
PROPERTY
    EveryPlaybackEnds
