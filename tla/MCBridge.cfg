SPECIFICATION Spec
CONSTANTS
    Chains = {a, b, c}
    a = a
    b = b
    c = c
    leaf = leaf
    root1 = root1
    root2 = root2
    note = note
    wallet1 = wallet1
    wallet2 = wallet2
    SvmChains = {c}
    Words = {leaf, root1, root2}
    Under <- MCUnder
    NoRoot = NoRoot
    NoLock = NoLock
    Commitments = {note}
    Wallets = {wallet1, wallet2}
    MaxEpochs = 2
    MaxMessages = 2
    MaxBridged = 2
    MaxSwitches = 1
SYMMETRY Symmetric
INVARIANTS
    RootsInv
    LockedOnce
PROPERTIES
    VerifiedStays
CHECK_DEADLOCK FALSE
