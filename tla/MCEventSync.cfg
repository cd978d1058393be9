SPECIFICATION FairSpec
CONSTANTS
  a = a
  Users = {a}
  MaxChanges = 2
  MaxFailures = 1
  MaxCrashes = 1
INVARIANTS
  TypeOK
  OneWriter
  BankedChangesAreApplied
  BurstEndsPublished
PROPERTIES
  NoSurfaceGoesBack
  NewRosterIsShown
CHECK_DEADLOCK FALSE
