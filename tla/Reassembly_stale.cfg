SPECIFICATION Spec
CONSTANTS
  Sensors = {s1}
  Words <- MCWordsSessions
  MaxSessions = 3
  None = None
PROPERTY
  OnlyOwnTimeoutDiscards
CHECK_DEADLOCK FALSE
