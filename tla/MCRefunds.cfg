CONSTANTS
    MaxOwners = 2
    MaxRuns = 3
    Batches <- MCBatches
    MaxMishaps = 2
SPECIFICATION RefundSpec
CHECK_DEADLOCK FALSE
INVARIANTS
    NothingRegisteredAhead
    NoFeesLeftBehind
    PaidExactlyOnce
PROPERTIES
    FeesStayOn
