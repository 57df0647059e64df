SPECIFICATION Spec
CONSTANTS
    metrics = metrics
    logs = logs
    traces = traces
    Capabilities <- MCCapabilities
    Rank <- MCRank
    Registered <- MCRegistered
    Allowed <- MCAllowed
    ForgetsCancel <- MCForgetsCancel
    HasStore = TRUE
    MaxVersion = 3
    NoPolicy = NoPolicy
INVARIANTS
    StopJoins
