SPECIFICATION FairSpec
CONSTANTS
    StartAts <- Everywhere
    Kinds <- AllKinds
    TicksPerSecond = 2
    MaxItems = 1
    MaxRecords = 3
    MaxClock = 3
    MaxStops = 1
    MaxFaults = 1
    MaxActivateFaults = 1
INVARIANTS
    NoSkippedRecord
PROPERTIES
    DeliveredOnce
    
CHECK_DEADLOCK FALSE
