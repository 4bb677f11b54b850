SPECIFICATION Spec
CONSTANTS
    MAX_FILES = 4
    Procs = {p1}
    BLOCK_SIZE = 2
    INODE_BLOCKS = 2
    Dentries <- MCDentries
    Inodes <- MCInodes
    DataBlocks <- MCDataBlocks
    Lengths <- MCLengths
    Rates = {2, 4}
    FILE_HEADER_SIZE = 1
    WordSize = 16
    MaxPos = 7
INVARIANT
    NoMoreThanAsked
