SPECIFICATION Spec
CONSTANTS
    MaxProcesses = 4
    NumTerminals = 3
    NumShells = 2
INVARIANT ScheduleStops
