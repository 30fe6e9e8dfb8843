CONSTANTS
    Calls = {c1, c2, c3, c4}
    Paths = {p1}
    Sends = {s1, s2, s3}
    Receives = {r1, r2, r3}
    Capacities = {0, 1, 2}
    NoValue = none
    Requests = {q1, q2, q3}
    ReaderCount = 2
    Gets = {g1, g2, g3}
    MaxCallers = 2
    Lifetimes = {1, 10}
    MaxTime = 11
    Logins = {l1, l2, l3}
    Unset = unset
    MaxCodes = 2
SPECIFICATION AsyncSpec
INVARIANTS Exclusion PermitsExact
PROPERTIES IsMailbox NoneOvertaken AccountKept WaitsOver
