SPECIFICATION ServerSpec
CONSTANTS
  c1 = c1
  c2 = c2
  MaxChanges = 2
  MaxCompacts = 1
  MaxSignals = 2
  Conns = {c1, c2}
  HighWater = 0
  BufferLimit = 1
  MaxMessages = 4
INVARIANTS
  AlwaysSurvivesKill
  ShutdownKeepsAll
  PushesGapless
  AnsweredIsWritten
  BufferBounded
PROPERTIES
  SyncedWhileAlive
  RepliesEnd
CHECK_DEADLOCK FALSE
