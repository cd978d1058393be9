SPECIFICATION FairSpec
CONSTANTS
  a = a
  Users = {a}
  MaxChanges = 2
  MaxFailures = 0
  MaxCrashes = 0
PROPERTY
  RolesAreRepaired
CHECK_DEADLOCK FALSE
