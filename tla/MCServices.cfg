SPECIFICATION Spec
CHECK_DEADLOCK FALSE
CONSTANTS
  MaxDelay = 5 MaxFaults = 6
  Users = {a, b} MaxMoves = 2 MaxFollowFaults = 1
  Organizers = {a, b} Readers = {x} MaxMessages = 3 MaxMoment = 2
  Watched = {x} MaxUpdates = 3 MaxSecond = 4 MaxNoticeFaults = 1
  Sitters = {u, v} MaxPictureEdits = 2 MaxSceneRequests = 2 MaxPainterFaults = 1
  Setups = {s1} MaxChannels = 4 MaxMeddling = 1 MaxMembership = 2 MaxSetupFaults = 1
  Passes = {s1} MaxTexts = 2 MaxNatives = 1 MaxNativeFaults = 1
  Starts = {21184, 21243} Missed = {0, 8} MaxSteps = 2
INVARIANTS
  TypeOK  
PROPERTIES
  SocketComesBack LeaversComeOff RequestsAreAnswered GuildListComesRight EndsReachBothSides
  RepeatsAreKept
