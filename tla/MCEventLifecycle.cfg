SPECIFICATION FairSpec
CONSTANTS
  Rules = {"none", "weekly", "unreadable"}
  Sweepers = {"timer"}
  Buttons = {"end", "cancel", "toggle"}
  MaxTime = 2
  MaxPresses = 1
  MaxFailures = 1
  MaxCrashes = 1
INVARIANTS
  TypeOK
  NobodyCarriesOver
PROPERTIES
  OverdueIsSettled
  NativeOverIsTaken
  CancelReachesDiscord
  CompletedLeavesALine
CHECK_DEADLOCK FALSE
