CONSTANTS
    c1 = c1
    c2 = c2
    i1 = i1
    i2 = i2
    i3 = i3
    u = u
    raw = raw
    redacted = redacted
    Unset = Unset
    Inputs = {i1, i2, i3}
    DefaultReplays = 2
    DefaultTtl = 2
    Calls = {c1, c2}
    Identity <- MCIdentity
    Requested <- MCRequested
    Sinks <- MCSinks
    Deciders <- MCDeciders
    Policy <- MCPolicy
    MaxGrants = 1
    MaxTime = 1
SPECIFICATION MCSpec
INVARIANTS EffectsGated GrantsCharged DecisionsExact
SYMMETRY Symmetry
CHECK_DEADLOCK FALSE
