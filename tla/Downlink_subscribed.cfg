SPECIFICATION FairSpec
CONSTANTS
  w1 = w1
  w2 = w2
  w3 = w3
  rd = rd
  d1 = d1
  parser = parser
  Senders = {parser}
  None = none
  Devices = {d1}
  Requests = {w1, w2, w3, rd}
  Work <- MCWork
  MaxStatuses = 0
  MaxLosses = 1
PROPERTY
  SubscribedAgain
CHECK_DEADLOCK FALSE
