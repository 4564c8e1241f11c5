SPECIFICATION GcSpec
CONSTANTS
  Object = {o1, o2, o3}
  Scheduler = Scheduler
  Producer = {Scheduler, Model}
  GcPolicies = {"normal", "stress", "verify", "off"}
  MarkMax = 2
  PinMax = 1
  BaseThreshold = 2
  GrowthPercent = 100
  Width = 1
  MaxStored = 2
  MaxLocal = 2
  MaxFailures = 1
INVARIANTS
  
  NoDangling
PROPERTIES
  Precise
SYMMETRY MCSymmetry
CHECK_DEADLOCK FALSE
