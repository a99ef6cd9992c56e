SPECIFICATION StoreFairSpec
CONSTANTS
  c1 = c1
  p1 = p1
  p2 = p2
  Codes <- OneCode
  Prices <- TwoPrices
  Times <- TwoTimes
  Never = Never
  MaxDay = 2
  MaxQuotes = 4
  MaxFailures = 3
INVARIANTS StoreTypeOK CacheIsRecorded
PROPERTIES QuotesAreStored
