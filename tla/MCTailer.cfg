SPECIFICATION FairSpec
CONSTANTS
    i1 = i1
    i2 = i2
    Inodes <- MCInodes
    None = None
    Configs <- Sources
    MaxPending = 2
    FpLines = 1
    MaxLines = 2
    MaxReplaced = 1
    MaxStops = 1
    MaxFaults = 1
CONSTRAINT FewMishaps
CHECK_DEADLOCK FALSE
INVARIANTS
    NoSkippedLine
PROPERTIES
    RotatedFinished
    EveryLineHandled
