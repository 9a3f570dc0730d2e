SPECIFICATION Spec
CONSTANTS
    z = z
    a = a
    b = b
    c = c
    d = d
    a2 = a2
    ZeroBytes = ZeroBytes
    Notes = {z, a, c}
    Nullifiers = {z, a, c, a2}
    NoteOf <- MCNoteOf
    ValueOf <- MCValueOf
    TotalValue <- MCTotalValue
    Slots <- MCSlots
    SlotOf <- MCSlotOf
    TreeDepth = 3
    RootHistorySize = 1
    Fees = {0, 1}
    Supply = 2
    MaxEpoch = 0
    BridgedNotes = {}
    MaxLeaves = 6
INVARIANTS NoDoubleSpend Solvency BooksReconcile
PROPERTIES ImplementsLedger
CHECK_DEADLOCK FALSE
