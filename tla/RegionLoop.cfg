SPECIFICATION Spec
CONSTANTS
  Targets <- MCTargets
  Policies = {"resume", "exit"}
  ZeroLoopLimit = 4
  MaxTime = 1
  MaxStops = 1
INVARIANTS
  SlotComplete
PROPERTIES
  RegionOrder
  
  SlotsEnd
CHECK_DEADLOCK FALSE
