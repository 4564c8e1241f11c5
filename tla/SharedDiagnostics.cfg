CONSTANTS
  a = a
  b = b
  u = u
  h = h
  e1 = e1
  e2 = e2
  NoRoot = NoRoot
  Root = {a, b}
  Unit = {u}
  Header = {h}
  Finding = {e1, e2}
  Few = {e1}
  Habits = {}
  Range <- MCRange
  Reach <- MCReach
  Inside <- MCInside
  Depth <- MCDepth
SPECIFICATION Spec
INVARIANTS
  
  
  LabelsTellRoots
CHECK_DEADLOCK FALSE
