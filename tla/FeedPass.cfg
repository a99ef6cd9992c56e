SPECIFICATION FeedSpec
CONSTANTS
  MaxForks = 4
  Letters <- MCLetters
  Root <- MCRoot
  Tree <- MCTree
  Code <- MCCode
  Time <- MCTime
  Price <- MCPrice
  Clock <- MCClock
  Missing = "0"
  Documents <- MCDocuments
  Space = " "
  Closed = Closed
  Pieces <- MCPieces
INVARIANTS
  FeedTypeOK
  EveryExitIsCounted
  WaitFindsAChild
PROPERTIES
  FeedsEnd
  ReadsWhole
CHECK_DEADLOCK FALSE
