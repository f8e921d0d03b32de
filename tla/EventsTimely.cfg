CONSTANTS
    o1 = o1
    o2 = o2
    w1 = w1
    w2 = w2
    Events = {1, 2}
    Objects = {o1}
    Workers = {w1, w2}
    Snapshots = {"x", "y"}
    ObjectOf <- OneObject
    IdentityOf <- OneIdentity
    MaxAttempts = 2
    Nobody = Nobody
    NoEvent = NoEvent
    NoSnapshot = NoSnapshot
    NoMapping = NoMapping
    Mappings = {"ok", "other"}
    Informational <- NoEvents
    Digested <- NoteEvents
    Timely = TRUE
    RejectStates <- OnlyProposals
    MaxChanges = 1
    MaxCrashes = 0
    MaxReleases = 1
SPECIFICATION FairSpec
INVARIANTS OneWorkerPerObject AppliedSnapshotIsBound
PROPERTIES TerminalIsFinal ImplementsDelivery EventuallySettled
