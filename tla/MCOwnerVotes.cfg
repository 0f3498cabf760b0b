CONSTANT MaxProposals = 5
SPECIFICATION Spec
CHECK_DEADLOCK FALSE
INVARIANT LatestVaultsAllocate
PROPERTIES
    OwnersOnlyMoveForward
    
    MigrationsSurviveSwaps
    MigrationsAreRepaired
