SPECIFICATION Spec
CONSTANTS
  s1 = s1
  s2 = s2
  Sessions <- OneSession
  IdleAware = TRUE
  CleanupMayFail = FALSE
  OutsiderStates <- Never
INVARIANTS
  AllQuietAtClose
CHECK_DEADLOCK FALSE
