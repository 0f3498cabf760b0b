CONSTANTS
    u1 = u1
    u2 = u2
    c1 = c1
    c2 = c2
    Users <- TwoUsers
    Cliffs <- TwoCliffs
    CliffOf <- MCCliffOf
    START_TIME = 2
    END_TIME = 5
    Amounts <- MCAmounts
    StartTime = 1
    MaxTime = 5
    MaxAdded = 8
SPECIFICATION Spec
CHECK_DEADLOCK FALSE
INVARIANTS
    WithinAllocation
    Solvent
PROPERTIES
    VestedStaysVested
