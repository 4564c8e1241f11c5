CONSTANTS
  Text = {t1}
  Defines = {d}
  Context = {c1, c2}
  DefaultContext = c1
  Request = {r1, r2}
  Flight = {f1, f2}
  NoText = NoText
  NoKey = NoKey
  NoFlight = NoFlight
  Failed = Failed
  Fallback = Fallback
  OPEN_TOKEN_FLIGHT_CAPACITY = 1
  TOKEN_CACHE_CAPACITY = 1
  MaxChanges = 1
SPECIFICATION FairSpec
INVARIANTS
  
  ParsesBounded
  
PROPERTIES
  RequestsEnd
CHECK_DEADLOCK FALSE
