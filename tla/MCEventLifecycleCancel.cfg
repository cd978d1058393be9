SPECIFICATION Spec
CONSTANTS
  Rules = {"weekly"}
  Sweepers = {}
  Buttons = {"cancel"}
  MaxTime = 3
  MaxPresses = 1
  MaxFailures = 0
  MaxCrashes = 0
PROPERTIES
  CancelIsFinal
CHECK_DEADLOCK FALSE
