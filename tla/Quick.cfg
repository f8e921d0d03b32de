SPECIFICATION FairSpec
CONSTANTS
    Procs = {p1}
    Versions = {v1, v2, v3}
    NoVersion = NoVersion
    Undated = {v3}
    RetryBudget = 1
    MaxPromotions = 2
    MaxProbes = 1
INVARIANTS
    TypeOK
    ReadyIsCoherent
    ReadyWasActive
    ReadyFollowsPlan
PROPERTIES
    NoReadAfterEnd
    InitializationEnds
CHECK_DEADLOCK FALSE
