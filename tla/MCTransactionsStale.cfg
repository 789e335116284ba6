SPECIFICATION Spec
CONSTANTS
  a = a
  b = b
  x = x
  y = y
  Clients = {a, b}
  Transactors = {a}
  Keys = {x}
  Volatile = {}
  NoOne = NoOne
  MaxQueue = 2
  MaxTurns = 3
INVARIANTS NothingStale
CHECK_DEADLOCK FALSE
