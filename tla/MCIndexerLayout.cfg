SPECIFICATION Spec
CONSTANTS
    MaxSignatures = 2
    MaxTransactions = 4
    MaxFailures = 1
    MaxCrashes = 1
INVARIANTS
    NotesHaveCiphertext
CHECK_DEADLOCK FALSE
