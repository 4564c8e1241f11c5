SPECIFICATION OrderFairSpec
CONSTANTS
  Uri = {u1, u2}
  Publisher = {p1, p2, p3}
  Nobody = Nobody
  MaxTicket = 4
INVARIANTS
  NewestShown
PROPERTIES
  ReachesClient
  ImplementsLatestWins
CHECK_DEADLOCK FALSE
