SPECIFICATION SuspensionSpec
CONSTANTS
    Packages = {p1}
    Workers = {w1}
    MaxRequests = 4
    MaxCrashes = 1
    RecoverSlowWorkers = FALSE
    Callers = {c1}
    Serial = TRUE
    InOrder = TRUE
SYMMETRY SuspensionSymmetry
INVARIANTS
    RouterFollowsService
