CONSTANTS
  Doc = {d1, d2}
  Defines = {x, y}
  Context = {c0, c1}
  DefaultContext = c0
  MaxRequests = 3
  MaxReloads = 2
  MaxCommits = 3
SYMMETRY Symmetry
SPECIFICATION RefreshSpec
INVARIANTS
  FreshSinceCommit
  SnapshotShown
CHECK_DEADLOCK FALSE
