SPECIFICATION Spec
CONSTANTS
  a = a
  b = b
  c = c
  Users = {a, b, c}
  Host = a
  Recurring = FALSE
  Capacities = {0, 1, 2}
  Statuses = {"open"}
  Fans = {}
  Invitees = {b}
  Standbys = {}
  MaxRows = 4
  MaxClock = 0
  MaxInvites = 1
INVARIANTS
  TypeOK
  LogTellsTheRoster
  OneLine
PROPERTIES
  MovesUpInOrder
  
  NewcomersJoinTheBack
  FreedPlaceIsGiven
  NobodyIsBumped
SYMMETRY Alike
CHECK_DEADLOCK FALSE
