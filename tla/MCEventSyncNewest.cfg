SPECIFICATION Spec
CONSTANTS
  a = a
  Users = {a}
  MaxChanges = 3
  MaxFailures = 0
  MaxCrashes = 0
INVARIANT
  LastWriteIsNewest
CHECK_DEADLOCK FALSE
