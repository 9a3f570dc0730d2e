SPECIFICATION FairSpec
CONSTANTS
    z = z
    a = a
    b = b
    c = c
    d = d
    a2 = a2
    ZeroBytes = ZeroBytes
    Notes = {z, a}
    Nullifiers = {z, a}
    NoteOf <- MCNoteOf
    ValueOf <- MCValueOf
    TotalValue <- MCTotalValue
    Slots <- MCSlots
    SlotOf <- MCSlotOf
    TreeDepth = 3
    RootHistorySize = 2
    Fees = {0}
    Supply = 3
    MaxEpoch = 1
    BridgedNotes = {a}
    MaxLeaves = 5
INVARIANTS RootWindow
PROPERTIES UpdateCoversDeposits EveryLeafProvable
CHECK_DEADLOCK FALSE
