SPECIFICATION FairSpec
CONSTANTS
  s1 = s1
  w1 = w1
  d1 = d1
  Parser = parser
  None = none
  Sensors = {s1}
  Words <- MCWords
  MaxSessions = 2
  Devices = {d1}
  Requests = {w1}
  Work <- MCWork
  MaxStatuses = 2
  MaxLosses = 1
INVARIANTS
  AckTrueWhenSent
PROPERTIES
  RequestsGetThrough
  UplinkGoesOn
  SessionsEnd
  TimeoutsGetThrough
CHECK_DEADLOCK FALSE
