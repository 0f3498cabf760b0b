CONSTANTS
    u1 = u1
    u2 = u2
    g1 = g1
    g2 = g2
    Users <- TwoUsers
    Gauges <- OneGauge
    Values <- MCValues
    Weights <- AllOrNothing
    Adjustments <- FullAdjustment
    WEEK = 2
    MAXTIME = 3
    MaxUint = 99
    StartTime = 4
    MaxTime = 7
    WAD = 4
    BPS = 2
    WEIGHT_VOTE_DELAY = 2
    RATE = 0
    RESERVE = 100
    MaxAmount = 12
SPECIFICATION Spec
SYMMETRY UserSymmetry
CHECK_DEADLOCK FALSE
INVARIANTS
    VotesBacked
    GaugeWeightIsSumOfVotes
