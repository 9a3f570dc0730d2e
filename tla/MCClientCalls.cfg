SPECIFICATION FairSpec
CONSTANTS
    Endpoints = {1, 2}
    Weight <- MCWeight
    MaxFailures = 1
    Cooldown = 1
    Replicas = 2
    ReadLimit = 3
    Key = "k"
    Others = {"o"}
    Calls = {x, y}
    x = x
    y = y
    Kinds <- MCKinds
    Amounts = {3}
    FirstLeaves <- MCFirstLeaves
    Synced = 2
    Replayed = {1, 3}
    MaxIncidents = 1
INVARIANTS
    SelectedOnce
    WalletInv
    SpentNotOffered
    LocksExplained
    BlindingsDistinct
    WatermarkCovers
    HealthyReplicasCurrent
    OpenMeansFailing
PROPERTY
    CallsEnd
CHECK_DEADLOCK FALSE
