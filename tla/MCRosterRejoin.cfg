SPECIFICATION Spec
CONSTANTS
  a = a
  b = b
  c = c
  Users = {a, b, c}
  Host = a
  Recurring = FALSE
  Capacities = {1}
  Statuses = {"open"}
  Fans = {c}
  Invitees = {}
  Standbys = {}
  MaxRows = 4
  MaxClock = 0
  MaxInvites = 2
PROPERTY
  EveryoneJoinsBehindTheRanked
CHECK_DEADLOCK FALSE
