SPECIFICATION Spec
CONSTANTS
  a = a
  b = b
  x = x
  y = y
  Clients = {a, b}
  Transactors = {a}
  Keys = {x}
  Volatile = {x}
  NoOne = NoOne
  MaxQueue = 2
  MaxTurns = 3
INVARIANTS
  BlocksContiguous
  WholeBlocks
PROPERTIES
  AnsweredChangeAborts
CHECK_DEADLOCK FALSE
