SPECIFICATION Spec
CHECK_DEADLOCK FALSE
CONSTANTS
  Starts = {21184, 21243}
  Missed = {0, 8}
  MaxSteps = 2
INVARIANT SentRulesAreTaken
