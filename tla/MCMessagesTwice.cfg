\* No staff, no lost answers: a crash and two workers are enough.
CONSTANTS
    Messages = {m1}
    Workers = {w1, w2}
    Clerks = {}
    Nobody = Nobody
    DefaultAttempts = 2
    MaxAttempts = 2
    MaxCrashes = 1
    MaxLost = 0
    MaxRetries = 0
    MaxEdits = 0
    MaxMishaps = 1
    SlowWorkers = FALSE
SPECIFICATION Spec
INVARIANT NoDuplicateDispatch
