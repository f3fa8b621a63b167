SPECIFICATION SmokeSpec
CONSTANTS
  Pids = {1, 2}
  MaxSpawns = 2
  LateSignals = TRUE
PROPERTIES
  HandsOff
CHECK_DEADLOCK FALSE
