SPECIFICATION FairSpec
CONSTANTS
  Week = 4
  DayMinutes = 8
  MinuteLen = 3
  DaysOff <- SecondDay
  TimeStart = 3
  TimeStop = 5
  Sdelay = 5
  MaxLate = 1
  MaxFeed = 4
INVARIANTS
  TypeOK
  OnSchedule
PROPERTY FeedsForever
