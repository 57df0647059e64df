SPECIFICATION FairSpec
CONSTANTS
    f1 = f1
    f2 = f2
    j = j
    Files <- OneFile
    Journals <- Journald
    Lines = 2
    Rejected <- SecondLine
    MaxItems = 2
    BackendRefuses = TRUE
    MaxStops = 1
    MaxCommitErrors = 1
    MaxReadErrors = 1
INVARIANTS
    NothingStranded
    InOrderPerSource
PROPERTIES
    ImplementsAtLeastOnce
    ImplementsQueue
    EveryLineDelivered
