SPECIFICATION Spec
CONSTANTS
  f1 = f1
  s1 = s1
  c1 = c1
  Control = Control
  Null = Null
  Feeders <- OneFeeder
  Schedulers <- OneScheduler
  Managers <- OneManager
  Half = 8
  Events <- SomeEvents
  Subs <- SomeSubs
  Seconds = 5
  MaxSent = 3
PROPERTY ImplementsBus
CHECK_DEADLOCK FALSE
