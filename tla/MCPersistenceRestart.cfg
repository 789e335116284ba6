SPECIFICATION Spec
CONSTANTS
  x = x
  y = y
  one = one
  two = two
  Keys = {x, y}
  Values = {one, two}
  Sides = {"left"}
  LruMax = 1
  Seconds = {1}
  MaxTime = 2
  MaxRecords = 2
  MaxItems = 2
  MaxCrashes = 1
SYMMETRY Symmetry
INVARIANTS
  RestartRebuilds
CHECK_DEADLOCK FALSE
