SPECIFICATION FairSpec
CONSTANTS
    Packages = {p1, p2}
    Workers = {w1, w2}
    MaxRequests = 4
    MaxCrashes = 1
    RecoverSlowWorkers = FALSE
INVARIANTS
    TypeOK
    OneWorkerPerRequest
    PendingStatusHasItsRequest
    RouterFollowsService
PROPERTIES
    KeepsThePromise
    EndsOrIsOrphaned
