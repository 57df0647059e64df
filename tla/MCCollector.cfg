SPECIFICATION FairSpec
CONSTANTS
    None = None
    Signals <- MCSignals
    MaxAttempts = 2
    RetryAfters <- MCRetryAfters
    LogsCap = 3
    Backoff <- MCBackoff
    Cooldown = 2
    Hosts <- MCHosts
    Machines <- MCMachines
    Samples <- MCSamples
    BatchPoints = 3
    RequestBytes = 3
    QueueItems = 2
    MaxStarts = 2
    MaxScrapes = 2
    MaxFaults = 1
INVARIANTS
    OneHost
    BatchesExact
PROPERTIES
    AckedAreStored
    RetryAfterHonoured
    CancelEnds
    Delivers
CHECK_DEADLOCK FALSE
