SPECIFICATION ConnectionSpec
CONSTANTS
  MaxBuffer = 2
  HighWater = 2
  WriteLimit = 4
  Segments = 3
  MaxDrops = 2
INVARIANTS
  SessionInv
  BufferClosedInFlight
  NoOrphanDecode
  AnswerIsOwn
PROPERTIES
  ImplementsContract
  CommitConcluded
  CloseEnds
  SegmentConcludes
CHECK_DEADLOCK FALSE
