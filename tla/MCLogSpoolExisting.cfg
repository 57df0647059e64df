SPECIFICATION Spec
CONSTANTS
    a1 = a1
    a2 = a2
    a3 = a3
    Admissions <- MCAdmissions
    PutCost <- MCPutCost
    ReadyCost <- MCReadyCost
    NoFile = NoFile
    MaxItems = 2
    MaxBytes = 3
    EntrySlack = 3
    MaxSeq = 3
    MaxCrashes = 2
    MaxFaults = 0
INVARIANTS
    ExistingSurvives
CHECK_DEADLOCK FALSE
