SPECIFICATION Spec
CONSTANTS
    Kinds = {"evm", "svm"}
    Oracles = {o1, o2, o3}
    MAX_ORACLES = 2
    Provers = {p, q}
    Strangers = {s}
    Admin = admin
    PublicInputs <- MCPublicInputs
    Thresholds = {1, 2}
    Durations = {1, 2}
    MaxTime = 5
SYMMETRY Symmetric
INVARIANTS
    ActiveWithinLimit
    AttestationsInv
PROPERTIES
    LapsedStaysLapsed
CHECK_DEADLOCK FALSE
