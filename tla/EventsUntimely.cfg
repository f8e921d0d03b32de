CONSTANTS
    o1 = o1
    o2 = o2
    w1 = w1
    w2 = w2
    Events = {1, 2}
    Objects = {o1}
    Workers = {w1, w2}
    Snapshots = {"x"}
    ObjectOf <- OneObject
    IdentityOf <- OneIdentity
    MaxAttempts = 1
    Nobody = Nobody
    NoEvent = NoEvent
    NoSnapshot = NoSnapshot
    NoMapping = NoMapping
    Mappings = {"ok", "other"}
    Informational <- NoteEvents
    Digested <- NoEvents
    Timely = FALSE
    RejectStates <- ProposalsAndWrites
    MaxChanges = 0
    MaxCrashes = 1
    MaxReleases = 0
SPECIFICATION Spec
SYMMETRY WorkerSymmetry
INVARIANTS AppliedHasReceipt
