CONSTANTS
  a = a
  b = b
  f = f
  g = g
  Root = {a, b}
  File = {f}
  Handler = {h1, h2}
  Owner <- MCOwner
  MaxChanges = 2
  MaxWalks = 4
SPECIFICATION Spec
INVARIANTS
  FilesIndexed
  
CHECK_DEADLOCK FALSE
