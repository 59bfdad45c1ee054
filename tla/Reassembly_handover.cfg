SPECIFICATION Spec
CONSTANTS
  Sensors = {s1}
  Words <- MCWordsEnd
  MaxSessions = 2
  None = None
INVARIANT
  CompleteHandedOver
CHECK_DEADLOCK FALSE
