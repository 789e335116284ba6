SPECIFICATION MCSpec
CONSTANTS
  x = x
  y = y
  one = one
  two = two
  Keys = {x, y}
  Values = {one, two}
  Sides = {"left"}
  LruMax = 1
  Seconds = {1}
  MaxTime = 2
  MaxRecords = 3
  MaxItems = 2
  MaxCrashes = 1
  Members = {1, 2, 3}
  Scores = {1, 2}
  MaxHeight = 3
  MaxHeaderLine = 3
  OldFiles <- MCOldFiles
  LogRecords <- MCRecords
  MaxFile = 22
  MaxKills = 2
  Bytes <- MCBytes
SYMMETRY Symmetry
INVARIANTS
  Tracked
  LogRebuilds
  TornTailsAreCut
  LogReadsBack
  RangesExact
  LanesExact
PROPERTIES
  NoNewOrphans
CHECK_DEADLOCK FALSE
