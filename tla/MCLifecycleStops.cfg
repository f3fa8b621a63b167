SPECIFICATION OwnFairSpec
CONSTANTS
  s1 = s1
  s2 = s2
  Sessions <- OneSession
  IdleAware = TRUE
  CleanupMayFail = TRUE
  OutsiderStates <- Never
INVARIANTS
  CleanWhenUnlocked
PROPERTIES
  ShutdownReturns
  EventuallyStopped
CHECK_DEADLOCK FALSE
