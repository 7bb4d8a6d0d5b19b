SPECIFICATION Spec
CONSTANTS
  MaxLen = 5
  WideBytes = 3
CHECK_DEADLOCK FALSE
INVARIANTS
  BufferIsFreed
  FitsTheBuffer
  TextIsWhole
PROPERTIES
  MessageEnds
