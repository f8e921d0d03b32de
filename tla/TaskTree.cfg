\* Planning and carrying out, with a plan made again and a run that fails.
CONSTANTS
    Resembling <- MCResembling
    Observable <- MCObservable
    MaxSteps = 1
    ReviewThreshold = 2
    AllowExpanded = TRUE
    Inputs <- MCInputs
    MaxPlans = 2
    MaxChanges = 2
    MaxFailures = 1
SPECIFICATION TreeSpec
INVARIANTS
    KeptIsKernel
    OrderIrrelevant
    OneTaskPerCandidate
    TreesWithinBudget
