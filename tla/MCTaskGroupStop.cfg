CONSTANTS
    Children = {c1, c2, c3}
    MaxTasks = 2
    MaxCompleted = 1
SPECIFICATION Spec
INVARIANT StopReachesChildren
CHECK_DEADLOCK FALSE
