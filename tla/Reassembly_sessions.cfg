SPECIFICATION Spec
CONSTANTS
  Sensors = {s1}
  Words <- MCWordsOrder
  MaxSessions = 3
  None = None
INVARIANTS
  TypeOK
  BufferContiguous
  NothingMergeableLeft
  LiveSessionHasTimer
PROPERTIES
  AckedDataHeld
  OrderedReceiver
CHECK_DEADLOCK FALSE
