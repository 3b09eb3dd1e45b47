SPECIFICATION ServerSpec
CHECK_DEADLOCK FALSE
CONSTANTS
  Sessions = {"s1"}
  Streams = {"k1"}
  Publishers = {"p1", "p2"}
  PageLimit = 2
  MaxEvents = 3
  Tools = {"merge", "wipe"}
  Actors = {"operator", "peer"}
  Calls = {"c1"}
  NoGo = {"wipe"}
  OperatorShaped = {"operator"}
  Rows = {"AUTO", "EXPLICIT"}
  DefaultTier <- MergeAsks
  HttpSessions = {"m1", "m2"}
  ToolCalls = {"t1"}
  MaxEventsPerStream = 3
  MaxMessages = 5
INVARIANTS EventsArrive NothingOutlives StreamResumes
PROPERTIES PublishReturns BarTakesEffect
