SPECIFICATION Spec
CONSTANTS
  MaxChanges = 2
  MaxCompacts = 1
  MaxSignals = 0
PROPERTIES
  EverySecond
CHECK_DEADLOCK FALSE
