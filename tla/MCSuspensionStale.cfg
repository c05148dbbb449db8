SPECIFICATION SuspensionSpec
CONSTANTS
    Packages = {p1}
    Workers = {w1}
    MaxRequests = 4
    MaxCrashes = 1
    RecoverSlowWorkers = FALSE
    Callers = {c1, c2}
    Serial = FALSE
    InOrder = TRUE
SYMMETRY SuspensionSymmetry
INVARIANT
    PendingIsUnderWay
