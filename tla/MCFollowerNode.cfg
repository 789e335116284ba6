SPECIFICATION FairNodeSpec
CONSTANTS
  r1 = r1
  w1 = w1
  Readers = {r1}
  Writers = {w1}
  MaxEntries = 1
  MaxCommandBytes = 2
  Scripts <- MCScripts
  Watched <- MCWatched
INVARIANTS
  NodeTypeOK
  WaitersExact
  NoLostWakeup
  AppliedInOrder
  TransactionsWhole
  NeverSitsOnACommand

PROPERTIES
  Served
  EndsInTime
  EverythingApplied
CHECK_DEADLOCK FALSE
