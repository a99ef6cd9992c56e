SPECIFICATION Spec
CONSTANTS
  FirstDay = 4
  LastDay = 5
  EmptyLimit = 1
  Forced <- MCForced
  MaxMishaps = 1
  Tables <- MCTables
  NrCodes = 2
  Rows <- MCRows
  MaxChanges = 2
  N = 1
  K = 2
  NrColumns = 2
  Series <- MCSeries
  MaxSeries = 3
INVARIANTS
  TypeOK
  Fitted
  RowsOfAll
PROPERTIES
  OfItsDay
  SumsConverge
CHECK_DEADLOCK FALSE
