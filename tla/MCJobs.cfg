CONSTANTS
    Tasks = {k1, k2}
    Members = {m1}
    Turns = {t1}
    MaxRunning = 1
    MaxQueued = 1
    MaxRecords = 2
    AutomaticDelivery = FALSE
    MaxAttempts = 2
    MaxStarts = 1
    MaxTeams = 1
    MaxClaims = 0
    MaxAged = 1
    None = None
    Children = {c1, c2, c3}
    MaxTasks = 2
    MaxCompleted = 1
SPECIFICATION JobsSpec
INVARIANTS OutcomesKept
PROPERTIES JobsProceed
CHECK_DEADLOCK FALSE
