SPECIFICATION FairSpec
CONSTANTS
    r1 = r1
    r2 = r2
    r3 = r3
    e1 = e1
    t = t
    m = m
    u = u
    Requests = {r1, r2, r3, e1}
    EvmRequests = {e1}
    Transactions = {t, m, u}
    TxOf <- MCTxOf
    Malformed = {m}
    MinBatchSize = 2
    MaxRetries = 1
    MaxRestarts = 1
INVARIANTS
    ConfirmedSucceeded
    BatchesPadded
PROPERTIES
    FinalStays
    RequestEnds
CHECK_DEADLOCK FALSE
