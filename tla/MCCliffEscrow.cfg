CONSTANTS
    cliff = cliff
    other = other
    Users <- TheUsers
    Cliff = cliff
    WEEK = 2
    MAXTIME = 3
    MaxUint = 99
    Values <- MCValues
    StartTime = 3
    MaxTime = 8
    UnlockTimes <- MCUnlockTimes
    Amounts <- MCAmounts
    MaxReceived = 9
SPECIFICATION CliffSpec
CHECK_DEADLOCK FALSE
INVARIANTS
    NothingLeavesBeforeCliff
