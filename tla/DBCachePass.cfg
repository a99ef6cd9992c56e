SPECIFICATION FairSpec
CONSTANTS
  close = close
  a = a
  b = b
  trends = trends
  Zero = Zero
  Absent = Absent
  None = None
  NoEntry = NoEntry
  Writer = statistics
  Column <- OneColumn
  Value <- TwoValues
  Reader <- OneReader
  Ttl = 2
  MaxHold = 1
  Stamped = TRUE
  MaxChanges = 2
  MaxFailures = 1
  MaxCrashes = 1
INVARIANTS TypeOK StaleAtMostTtl
PROPERTY RowConverges
