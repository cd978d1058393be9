SPECIFICATION Spec
CONSTANTS
  a = a
  b = b
  c = c
  Users = {a, b}
  Host = a
  Recurring = FALSE
  Capacities = {1}
  Statuses = {"open"}
  Fans = {}
  Invitees = {b}
  Standbys = {}
  MaxRows = 4
  MaxClock = 0
  MaxInvites = 2
PROPERTY
  ReleasedPlaceIsGiven
CHECK_DEADLOCK FALSE
