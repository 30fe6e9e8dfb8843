SPECIFICATION MCSpec
CONSTANTS
  TextBytes = {97, 128, 144, 160, 193, 194, 224, 237, 240, 244}
  TextLength = 4
  CodePoints = {97, 10, 233, 8364, 128512}
  Runs = 3
  Root <- MCRoot
  ReadRoots <- MCReadRoots
  WriteRoots <- MCNone
  LinkLimit = 2
  HasOpenat2 = TRUE
  Calls = {c1, c2}
  Requests <- MCRequests
  Dirs = {"slash", "ws", "sub", "out", "ext", "made"}
  Names = {"w", "o", "x", "d", "f", "g"}
  Tree0 <- MCTree0
  Pinned <- MCPinned
  PinnedWrite <- MCPinnedWrite
  WindowLimit = 2
  RetryBelow = 3
  Inodes = {1, 2, 3, 4, 5, 6}
  Text0 <- MCText0
  Chars = {98}
  Swaps <- MCSwaps
  MaxOutside = 1
INVARIANTS StaysBeneath ReadIsSnapshot TextExact
PROPERTIES CommitReplacesWhatWasRead
SYMMETRY CallSymmetry
CHECK_DEADLOCK FALSE
