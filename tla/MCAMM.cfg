CONSTANTS
    WAD = 36
    Prices <- MCPrices
    Amounts <- MCAmounts
    Fracs <- MCFracs
    Rates <- MCRates
    Fees <- MCFees
    Limits <- MCLimits
    FactoryFunds = 60
    OtherFunds = 20
    Pulls <- MCPulls
    MaxTime = 1
    MaxMinted = 24
    MaxDonated = 4
SPECIFICATION Spec
INVARIANTS
    AllocationConserved
    AllocationRecoverable
    DebtHasCollateral
PROPERTIES
    DeallocationKeepsReserve
    WithdrawalIsFair
