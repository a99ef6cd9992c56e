SPECIFICATION NotificationFairSpec
CONSTANTS
  m1 = m1
  Managers <- One
  Wait = 3
  Seconds = 5
  FeedEvery = 4
  MaxRestarts = 3
  MaxDuplicates = 1
  MaxPings = 2
  Unknown = Unknown
INVARIANTS NotificationTypeOK
PROPERTIES OnlyTheRegistered Informed
