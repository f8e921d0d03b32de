CONSTANTS
    Commands = {"planned", "undone", "empty"}
    NoCommand = "no command"
    Ops <- Samples
    MaxAttempts = 3
    Ports = {"reporting", "live"}
    MaxRuns = 2
    MaxCrashes = 1
SPECIFICATION FairSpec
INVARIANTS VerifiedIsComplete EffectsAreListed ReadbackBeforeRetryIfReported CompensatedIsUndone
PROPERTIES RunsEnd ImplementsOutcome
