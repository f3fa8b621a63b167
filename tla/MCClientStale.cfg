SPECIFICATION ClientSpec
CONSTANTS
  Segments = 4
  MaxDrops = 2
INVARIANTS
  ExampleAnswerIsOwn
CHECK_DEADLOCK FALSE
