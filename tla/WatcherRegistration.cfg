CONSTANTS
  Watcher = {w1, w2}
  Caller = {c1, c2, c3}
  NoCaller = NoCaller
  MaxChanges = 4
  MaxErrors = 2
SPECIFICATION WatchFairSpec
INVARIANTS
  DigestHonest
  
PROPERTIES
  CallsEnd
CHECK_DEADLOCK FALSE
