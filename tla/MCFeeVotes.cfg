CONSTANTS
    wbtc = wbtc
    cbbtc = cbbtc
    BTC <- BTCMarkets
    WETH = weth
    NormalFee = 92
    DeadlineA = 1
    DeadlineBCD = 2
    MaxTime = 2
    MaxFeeVotes = 5
SPECIFICATION FeeVotesSpec
SYMMETRY Symmetry
CHECK_DEADLOCK FALSE
INVARIANTS
    FeesMoveTogether
    StepsFollowARaise
    StepsOnlyLower
