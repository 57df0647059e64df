SPECIFICATION Spec
CONSTANTS
    f1 = f1
    f2 = f2
    j = j
    Files <- TwoFiles
    Journals <- None
    Lines = 1
    Rejected <- None
    MaxItems = 2
    BackendRefuses = FALSE
    MaxStops = 0
    MaxCommitErrors = 0
    MaxReadErrors = 0
INVARIANTS
    StopsOnlyWhenRefused
