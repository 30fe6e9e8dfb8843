CONSTANTS
    Tasks = {k1, k2}
    Members = {m1, m2}
    Turns = {t1}
    MaxRunning = 1
    MaxQueued = 1
    MaxRecords = 2
    AutomaticDelivery = TRUE
    MaxAttempts = 1
    MaxStarts = 1
    MaxTeams = 2
    MaxClaims = 2
    MaxAged = 1
    None = None
SPECIFICATION MCSpec
INVARIANTS BoardMatchesJobs BuiltOnAccepted
PROPERTIES CompletionsKept
SYMMETRY Symmetry
CHECK_DEADLOCK FALSE
