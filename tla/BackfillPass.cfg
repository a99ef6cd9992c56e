SPECIFICATION Spec
CONSTANTS
  Days = 6
  MonthLen = 2
  YearLen = 2
  EmptyLimit = 1
  SearchLimit = 0
  Forced <- FromSecondDay
  MaxQuotes = 3
  MaxCrashes = 1
  MaxFailures = 1
  Bad = Bad
INVARIANTS TypeOK NoGaps SummariesAgree ForcedRepairs
CHECK_DEADLOCK FALSE
