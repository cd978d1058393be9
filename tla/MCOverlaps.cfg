SPECIFICATION Spec
SYMMETRY Alike
CHECK_DEADLOCK FALSE
CONSTANTS
  Calls = {s1, s2}
  MaxDate = 2 MaxMinute = 3 MaxUpsets = 1
  MaxAsked = 1 MaxDrawn = 2 MaxDrawingFaults = 1
  MaxChannels = 4 MaxMeddling = 0 MaxMembership = 1 MaxSetupFaults = 1
  MaxTexts = 2 MaxNatives = 1 MaxNativeFaults = 1
  Guests = {a, b} Lines = {l1} Wanted = 1 ItemsPerPerson = 1 MaxRows = 2
  MaxPotluckMoves = 1 MaxPolls = 2
  Helpers = {a, b} Roles = {r1} Caps = {1} RolesPerEvent = 1
  MaxRoleMoves = 2 MaxCopies = 1 MaxJoins = 2
  RefreshInterval = 1 IdleLifetime = 1 MaxHour = 5 MaxGrants = 1 MaxAccessFaults = 1
  About = {e1} Written = {m1} Retries = {r1} FilesPerReply = 1
  MaxSent = 1 MaxInstant = 2 MaxReplyFaults = 1
INVARIANTS
  TypeOK    ClaimsAddUp
  LostPermissionsRunOut 

   
