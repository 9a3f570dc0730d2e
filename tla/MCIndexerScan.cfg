SPECIFICATION FairSpec
CONSTANTS
    MaxSignatures = 2
    MaxTransactions = 5
    MaxFailures = 1
    MaxCrashes = 1
INVARIANTS
    CheckpointExact
PROPERTIES
    CheckpointAdvances
    Indexed
CHECK_DEADLOCK FALSE
