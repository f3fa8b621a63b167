SPECIFICATION FairSpec
CONSTANTS
  u1 = u1
  u2 = u2
  u3 = u3
  Streams <- ThreeStreams
  ChecksCancel = TRUE
  TempFiles = TRUE
INVARIANTS
  GuardInv
  QuietWhenTold
PROPERTIES
  ImplementsDecoder
  DecodesEnd
  CloseBounded
CHECK_DEADLOCK FALSE
