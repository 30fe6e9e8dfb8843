CONSTANTS
    Sessions = {s1, s2}
    Readers = {s1}
    Ids = {a, b}
    MaxTurns = 3
    MaxIterations = 2
    MaxAttempts = 2
    Targets = 2
    MaxMail = 1
SPECIFICATION Spec
INVARIANTS ContextWhole TurnsSerialized MailKept EffectsOnce
CHECK_DEADLOCK FALSE
SYMMETRY IdsAlike
