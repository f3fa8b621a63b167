SPECIFICATION FairSpec
CONSTANTS
  MaxBuffer = 1
  HighWater = 2
  WriteLimit = 1
PROPERTIES
  SlowConsumerDropped
CHECK_DEADLOCK FALSE
