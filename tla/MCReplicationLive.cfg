SPECIFICATION FairMasterSpec
CONSTANTS
  s1 = s1
  s2 = s2
  c1 = c1
  c2 = c2
  Sessions = {s1}
  Conns = {c1, c2}
  NoOne = NoOne
  MaxChanges = 2
  MaxDemotions = 0
PROPERTIES
  SyncCompletes
  WriteCompletes
  ImplementsHistory
CHECK_DEADLOCK FALSE
