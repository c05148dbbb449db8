\* One message, two workers, one request at a time: a message meets every race of its row.
\* Any two of a crash, a lost answer, a retry and an edit; one attempt unless staff gives two.
CONSTANTS
    Messages = {m1}
    Workers = {w1, w2}
    Clerks = {c1}
    Nobody = Nobody
    DefaultAttempts = 1
    MaxAttempts = 2
    MaxCrashes = 1
    MaxLost = 1
    MaxRetries = 1
    MaxEdits = 1
    MaxMishaps = 2
    SlowWorkers = FALSE
SPECIFICATION Spec
INVARIANTS TypeOK DuplicatesAreExplained SentWasAccepted GivenUpWhenSpent
PROPERTY EventuallySettled
