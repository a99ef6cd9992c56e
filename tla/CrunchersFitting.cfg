SPECIFICATION FairSpec
CONSTANTS
  Main = Main
  None = None
  Stop = Stop
  NewFeed = "NEWFEED"
  Event <- MCEvent
  Crunchers <- WithFitting
  Observes <- MCObserves
  Accepts <- MCAccepts
  Emits <- MCEmits
  FromControl <- NoControl
  MayFail <- NoPlugin
  Shots = 0
  MaxFeeds = 1
  MaxSends = 0
PROPERTY EveryObserverSeesUpdates
