SPECIFICATION FairSpec
CONSTANTS
    Calls = {x, y}
    x = x
    y = y
    Kinds <- MCKinds
    Amounts <- MCAmounts
    FirstNotes <- MCFirstNotes
    MaxPages = 2
INVARIANTS
    MarksInv
    BlindingsDistinctOnPage
    BusyMeansRunning
    AllowanceExplained
PROPERTIES
    StoredKeySettles
    ButtonReturns
CHECK_DEADLOCK FALSE
