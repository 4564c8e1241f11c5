CONSTANTS
  m = m
  a = a
  b = b
  Proc = {m, a, b}
  Roots <- MCRoots
  KeyCount = {1, 2}
  InitialKeys = 0
  Capacity = 1
  MaxFork = 2
  MaxCalls = 6
SPECIFICATION Spec
INVARIANTS
  NoProcessLost
  JoinsEnd
  QueuesMatchWaits
  SemaphoreServed
  MailboxServed
  MailboxFifo
CHECK_DEADLOCK FALSE
SYMMETRY Symmetry
