SPECIFICATION FairSpec
CONSTANTS
  Main = Main
  None = None
  Stop = Stop
  NewFeed = "NEWFEED"
  Event <- MCEvent
  Crunchers <- FrontEnd
  Observes <- MCObserves
  Accepts <- MCAccepts
  Emits <- MCEmits
  FromControl <- ControlAll
  MayFail <- FrontEnd
  Shots = 2
  MaxFeeds = 1
  MaxSends = 1
INVARIANTS TypeOK NoLostUpdate NoRunWhileLoading
PROPERTIES UpdatesAreSeen ShotsTerminate
