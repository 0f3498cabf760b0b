CONSTANTS
    u1 = u1
    u2 = u2
    t1 = t1
    t2 = t2
    Users <- TwoUsers
    WEEK = 2
    MAXTIME = 2
    MaxUint = 99
    Values <- MCValues
    StartTime = 3
    NoCliff = NoCliff
    ClaimsMissEpochs = TRUE
    OVER_WEEKS = 2
    MaxLocked = 4
    ArrivalTimes <- BetweenEpochs
    OwnerTimes <- BetweenClaims
    Recovered <- OneToken
    Arrivals <- FiveArrive
    MaxTime = 7
    Tokens <- TwoTokens
    FirstSet <- OneToken
    TokenSets <- OtherSet
    EpochCounts <- OneOrTwo
    Cliffs <- TheCliff
    CliffOf <- CliffOfFirst
    MaxSets = 2
    MaxArrived = 5
SPECIFICATION Spec
SYMMETRY UserSymmetry
CHECK_DEADLOCK FALSE
INVARIANTS
    PaidIsShare
    Solvent
PROPERTIES
    EpochsAreSettled
