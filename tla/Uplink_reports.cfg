SPECIFICATION FairSpec
CONSTANTS
  Messages <- MCMessagesAll
  MaxMessages = 3
  RawCap = 2
  AsyncCap = 1
  WriteCap = 1
INVARIANTS
  ReportOfOneFrame
  OnlySoundFramesReported
  StatusesMatch
PROPERTIES
  LossyRelay
  AcceptedIsForwarded
CHECK_DEADLOCK FALSE
