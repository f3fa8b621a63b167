SPECIFICATION FairSpec
CONSTANTS
  s1 = s1
  s2 = s2
  Sessions <- OneSession
  IdleAware = TRUE
  CleanupMayFail = FALSE
  OutsiderStates <- WhileStarting
PROPERTIES
  NeverUnlinkOthers
CHECK_DEADLOCK FALSE
