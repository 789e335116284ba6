SPECIFICATION Spec
CONSTANTS
  s1 = s1
  s2 = s2
  c1 = c1
  c2 = c2
  Sessions = {s1, s2}
  Conns = {c1, c2}
  NoOne = NoOne
  MaxChanges = 2
  MaxDemotions = 1
SYMMETRY Symmetry
INVARIANTS
  TypeOK
  InOrderOnce
  ExactStream
  ReplyWhileMaster
  NoSilentDrop
CHECK_DEADLOCK FALSE
