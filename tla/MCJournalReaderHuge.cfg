SPECIFICATION FairSpec
CONSTANTS
    StartAts <- Everywhere
    Kinds <- PlainAndHuge
    TicksPerSecond = 2
    MaxItems = 1
    MaxRecords = 2
    MaxClock = 1
    MaxStops = 0
    MaxFaults = 0
    MaxActivateFaults = 0
PROPERTIES
    EveryRecordSettled
CHECK_DEADLOCK FALSE
