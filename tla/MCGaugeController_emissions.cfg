CONSTANTS
    u1 = u1
    u2 = u2
    g1 = g1
    g2 = g2
    Users <- OneUser
    Gauges <- TwoGauges
    Values <- MCValues
    Weights <- NoneOrHalf
    Adjustments <- TwoAdjustments
    WEEK = 2
    MAXTIME = 3
    MaxUint = 99
    StartTime = 4
    MaxTime = 6
    WAD = 4
    BPS = 2
    WEIGHT_VOTE_DELAY = 2
    RATE = 8
    RESERVE = 100
    MaxAmount = 6
SPECIFICATION Spec
SYMMETRY GaugeSymmetry
CHECK_DEADLOCK FALSE
INVARIANTS
    PowerIsSumOfVotes
    EmissionsCovered
