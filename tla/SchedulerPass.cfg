SPECIFICATION Spec
CHECK_DEADLOCK FALSE
CONSTANTS
  Cmds <- Mixed
  DayLen = 4
  Horizon = 36
  MaxLate = 1
  MaxWait = 1000
  MaxAdjust = 1
INVARIANTS
  TypeOK
  DailyRuns
  DueIsExecuted
  MaskDaysAreSkipped
PROPERTY NotTwiceInAPass
