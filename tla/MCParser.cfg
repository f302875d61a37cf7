SPECIFICATION MCSpec
CONSTANTS
    Inputs <- PackInputs
    MaxDepth = 4
    MaxTries = 1
    MaxErrors = 2
INVARIANTS PackFollowsText CheckpointsIntact
PROPERTIES RecoveryAdvances GarbageIsBalanced Terminates
