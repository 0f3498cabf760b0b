CONSTANTS
    K = 2
    MaxRuns = 2
    MaxMishaps = 1
    ForeignCollaterals <- OneForeign
SPECIFICATION RolloutSpec
CHECK_DEADLOCK FALSE
INVARIANTS
    NewMarketsRunTheirOwnCode
    OneMarketPerCollateral
    HybridVaultsHaveAMarket
    SeededAtMostOnce
PROPERTIES
    RolloutCompletes
