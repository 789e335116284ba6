SPECIFICATION Spec
CONSTANTS
  s1 = s1
  s2 = s2
  c1 = c1
  c2 = c2
  Sessions = {s1, s2}
  Conns = {c1}
  NoOne = NoOne
  MaxChanges = 3
  MaxDemotions = 1
INVARIANTS ReplyMeansBuffered
CHECK_DEADLOCK FALSE
