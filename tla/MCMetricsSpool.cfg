SPECIFICATION Spec
CONSTANTS
    Openers <- MCOpeners
    NoFile = NoFile
    Torn = Torn
    Cost <- MCCost
    MaxItems = 2
    MaxBytes = 3
    Reserve = 1
    MaxBatches = 2
    MaxCrashes = 2
    MaxFaults = 2
INVARIANTS
    TypeOK
    AcceptedSurvives
    ReceiptsFresh
    HeldIsHead
    OneTenant
    RefusalJustified
    NoLostWakeup
    WithinBudget
CHECK_DEADLOCK FALSE
