SPECIFICATION Spec
CONSTANTS
    z = z
    a = a
    b = b
    c = c
    d = d
    a2 = a2
    ZeroBytes = ZeroBytes
    Notes = {z, a, b, c, d}
    Nullifiers = {z, a, b, c, d}
    NoteOf <- MCNoteOf
    ValueOf <- MCValueOf
    TotalValue <- MCTotalValue
    Slots <- MCSlots
    SlotOf <- MCSlotOf
    TreeDepth = 3
    RootHistorySize = 2
    Fees = {0, 1}
    Supply = 2
    MaxEpoch = 0
    BridgedNotes = {}
    MaxLeaves = 6
INVARIANT SpentExactly
CHECK_DEADLOCK FALSE
