CONSTANTS
    k1 = k1
    k2 = k2
    k3 = k3
    t1 = t1
    t2 = t2
    x1 = x1
    x2 = x2
    Plans <- OnePlan
    Transactions = {t1}
    Keys = {k1}
    TxOf <- Ids
    KeysOf <- OneOperation
    NoPlan = NoPlan
    Executors = {x1, x2}
    Exclusive = FALSE
    MaxEdits = 0
    MaxCrashes = 0
SPECIFICATION Spec
SYMMETRY ExecutorSymmetry
CHECK_DEADLOCK FALSE
PROPERTIES CompletedIsFinal
