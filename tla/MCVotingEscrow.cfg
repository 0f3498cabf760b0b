CONSTANTS
    u1 = u1
    u2 = u2
    Users <- MCUsers
    Values <- MCValues
    WEEK = 2
    MAXTIME = 3
    MaxUint = 99
    StartTime = 2
    MaxTime = 6
    Funds = 6
    CHECKPOINT_WEEKS = 255
    MaxEpoch = 6
SPECIFICATION Spec
SYMMETRY Symmetry
CHECK_DEADLOCK FALSE
INVARIANTS
    TotalIsSum
    SlopesUnwind
PROPERTIES
    PastIsFrozen
    ImplementsVeLocks
