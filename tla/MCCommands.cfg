SPECIFICATION CommandsSpec
CONSTANTS
  Modes <- AllModes
  MaxCancels = 3
  a = a
  b = b
  Kinds <- AllKinds
  Weights = {a, b}
  Names <- TheNames
  MaxRuns = 3
  Sockets = {"sa", "sb"}
  MaxScripts = 2
  MaxEdits = 1
  Pids = {1, 2}
  MaxSpawns = 2
  LateSignals = FALSE
INVARIANTS
  LockCoversStep
  CacheClaimsHold
  
  NeverOpen
  
  
  TokenToSpareOnly
  SpareSocketKept
PROPERTIES
  ImplementsContract
  ServerKeepsContract
  StopHonoured
  EventsInOrder
  HandsOff
  EveryRunReports
CHECK_DEADLOCK FALSE
