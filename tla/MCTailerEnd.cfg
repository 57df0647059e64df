SPECIFICATION Spec
CONSTANTS
    i1 = i1
    i2 = i2
    Inodes <- MCInodes
    None = None
    Configs <- OnlyFromEnd
    MaxPending = 2
    FpLines = 1
    MaxLines = 2
    MaxReplaced = 0
    MaxStops = 1
    MaxFaults = 0
INVARIANTS
    NoSkippedLine
