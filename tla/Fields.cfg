CONSTANTS
    NumFields = 3
    Rule <- BothWays
    Values = {"none", "p1", " p1"}
    Norm <- Typed
    Absent = "none"
    Starts <- Differing
    Edits <- Typing
    Versioned = TRUE
    Times = {1}
    MaxEdits = 1
    MaxFailures = 1
SPECIFICATION FairSpec
INVARIANTS AppliedOnce NoWriteTwice CheckpointIsEarned
PROPERTIES Converges
