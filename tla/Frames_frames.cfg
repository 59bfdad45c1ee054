SPECIFICATION Spec
CONSTANTS
  Ids <- MCIds
  Reports <- MCReports
  TimeStamp <- MCTimeStamp
  Damages = {1, 128}
INVARIANTS
  SentIsSound
  TablesMatchPolynomial
  DamageRefused
  ReportsRead
  TopologyOfWholeNodes
  AnswersRead
  AnswerToItsHandler
CHECK_DEADLOCK FALSE
