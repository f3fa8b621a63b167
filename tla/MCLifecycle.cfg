SPECIFICATION Spec
CONSTANTS
  s1 = s1
  s2 = s2
  Sessions <- TwoSessions
  IdleAware = TRUE
  CleanupMayFail = TRUE
  OutsiderStates <- WhileRunning
SYMMETRY Symmetry
INVARIANTS
  IInv
  LockCoversWork
  SnapshotQuietAtClose
PROPERTIES
  LegalTransitions
  NeverUnlinkOthers
  ImplementsContract
CHECK_DEADLOCK FALSE
