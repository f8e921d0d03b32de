CONSTANTS
    a1 = a1
    a2 = a2
    m1 = m1
    r1 = r1
    r2 = r2
    Comments = {1, 2, 3}
    Actions = {a1, a2}
    Historical = {a2}
    ActionOf <- TwoActions
    Kind <- MixedKinds
    Markers = {m1}
    MarkerOf <- OneMarker
    OnSubtask = {1}
    Scopes <- WholeOrOne
    BaselineRuns = {r1, r2}
    NoComment = NoComment
    NoRun = NoRun
    MaxPlans = 1
    MaxCommands = 3
    MaxFailures = 1
SPECIFICATION Spec
SYMMETRY RunSymmetry
CHECK_DEADLOCK FALSE
INVARIANTS
    AppliedHasEffect
    OnlyRequestedEffects
    BaselineIsInert
    BaselineIsComplete
    CheckpointCoversSettled
PROPERTIES
    ImplementsSettlement
