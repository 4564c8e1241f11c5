SPECIFICATION FairSpec
CONSTANTS
  Process = {p1, p2}
  Dir = {d1, d2}
  MaxRuns = 3
  MaxCrashes = 1
INVARIANTS
  LinkedComplete
  SeedsComplete
  TemplateChecked
PROPERTIES
  BuildsEnd
CHECK_DEADLOCK FALSE
