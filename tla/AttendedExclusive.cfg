CONSTANTS
    k1 = k1
    k2 = k2
    k3 = k3
    t1 = t1
    t2 = t2
    x1 = x1
    x2 = x2
    Plans <- AnyPlan
    Transactions = {t1, t2}
    Keys = {k1, k2, k3}
    TxOf <- Ids
    KeysOf <- Operations
    NoPlan = NoPlan
    Executors = {x1, x2}
    Exclusive = TRUE
    MaxEdits = 2
    MaxCrashes = 1
SPECIFICATION Spec
SYMMETRY ExecutorSymmetry
INVARIANTS ExecutesJournaledPlan CompletedIsVerified EvidenceAgrees
PROPERTIES ImplementsExactTransaction
