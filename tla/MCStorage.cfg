SPECIFICATION StorageSpec
CONSTANTS
  r1 = r1
  r2 = r2
  Runners = {r1, r2}
  MaxFileBytes = 8
  MaxFaults = 1
  Directories <- Dirs
  Lists <- GivenLists
  h1 = h1
  h2 = h2
  m1 = m1
  m2 = m2
  NoOne = NoOne
  Refused = Refused
  NULL = NULL
  None = None
  Absent = Absent
INVARIANTS AppliedOnce AnswersMatch
PROPERTIES ImportWhole NotesKept
CHECK_DEADLOCK FALSE
