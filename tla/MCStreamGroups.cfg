SPECIFICATION Spec
CONSTANTS
  Top = 1
  Keys = {k}
  Groups = {g}
  Consumers = {c1, c2}
  Clock = {0, 1}
  Counts = {0, 1}
  MaxTries = 2
  MaxAdded = 2
SYMMETRY ConsumerSymmetry
INVARIANTS
  LogRebuilds
  FollowerAgrees
  IdsSorted
  CursorExact
  PendingUntilAcked
PROPERTIES
  IdsGrow
