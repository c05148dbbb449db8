SPECIFICATION SuspensionSpec
CONSTANTS
    Packages = {p1, p2}
    Workers = {w1}
    MaxRequests = 2
    MaxCrashes = 1
    RecoverSlowWorkers = TRUE
    Callers = {c1, c2}
    Serial = FALSE
    InOrder = FALSE
SYMMETRY SuspensionSymmetry
INVARIANT
    SuspensionTypeOK
PROPERTIES
    OnlyStaleCreateDuplicates
    OnlyStaleReuseForgets
