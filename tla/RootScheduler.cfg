SPECIFICATION FairSpec
CONSTANTS
  Key = {k1}
  Task = {t1, t2}
  MaxInput = 2
  MaxFolders = 2
  MaxPanics = 1
INVARIANTS
  PendingHasTimer
  RunningHasOwner
  
PROPERTIES
  CommitsAdvance
  NothingAfterShutdown
  CatchesUp
CHECK_DEADLOCK FALSE
