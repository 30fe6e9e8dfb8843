CONSTANTS
    MaxUpdate = 2
    MaxParts = 2
    MaxTasks = 1
    e1 = e1  e2 = e2  e3 = e3
    k1 = k1  k2 = k2
    Calls = {c1, c2, c3, c4}
    CacheSize = 2
    Empty = empty  Absent = absent
    i1 = i1  i2 = i2  j1 = j1
    t1 = t1  t2 = t2  q1 = q1
    g1 = g1  g2 = g2
    user = user  bot = bot
SPECIFICATION MessagingSpec
INVARIANTS JournalIsAccurate TurnAtMostOnce WorkKept ChatExact
PROPERTIES DeliveredInOrder DesktopSound
SYMMETRY Symmetry
