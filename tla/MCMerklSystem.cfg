CONSTANTS
    FracN = 1
    FracD = 2
    Treasury = 1
    OldFees = 1
    MaxEarned = 2
    MaxStacks = 2
    MaxMerklVotes = 2
SPECIFICATION MerklSpec
CHECK_DEADLOCK FALSE
INVARIANTS
    InstalledStackIsWhole
    FreshStackIsVerified
