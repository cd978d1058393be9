SPECIFICATION Spec
CONSTANTS
  a = a
  b = b
  c = c
  Users = {a, b}
  Host = a
  Recurring = TRUE
  Capacities = {1}
  Statuses = {"open", "closed"}
  Fans = {b}
  Invitees = {b}
  Standbys = {a}
  MaxRows = 3
  MaxClock = 1
  MaxInvites = 2
INVARIANTS
  OneHoldPerPerson
  InterestIsKept
CHECK_DEADLOCK FALSE
