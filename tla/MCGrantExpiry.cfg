CONSTANTS
    c1 = c1
    c2 = c2
    i1 = i1
    i2 = i2
    i3 = i3
    u = u
    raw = raw
    redacted = redacted
    Unset = Unset
    Inputs = {i1}
    DefaultReplays = 2
    DefaultTtl = 2
    Calls = {c1, c2, c3}
    Identity <- MCIdentity
    Requested <- MCRequested
    Sinks <- MCSinks
    Deciders <- PromptOnly
    Policy <- MCPolicy
    MaxGrants = 2
    MaxTime = 1
SPECIFICATION ApprovalsSpec
PROPERTIES ExpiredGrantsFail
CHECK_DEADLOCK FALSE
