CONSTANTS
    b1 = b1
    b2 = b2
    c1 = c1
    c2 = c2
    d1 = d1
    p1 = p1
    Batches = {b1, b2}
    CallsOf <- MCCallsOf
    PathOf <- MCPathOf
    Writers = {c1, d1}
    MaxParallel = 1
    ReplayMax = 1
    Tokened = {b2}
    HostUses = 1
SPECIFICATION Spec
INVARIANTS EffectsAuthorized EffectsExcluded ContextOutlivesCalls
PROPERTIES BatchesEnd
CHECK_DEADLOCK FALSE
