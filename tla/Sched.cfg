SPECIFICATION FairSpec
CONSTANTS
    MaxProcesses = 4
    NumTerminals = 2
    NumShells = 2
INVARIANTS
    TypeOK
    RunsAsItself
    ContextsKept
    TerminalOwner
    ParentWaits
PROPERTY
    RoundRobin
