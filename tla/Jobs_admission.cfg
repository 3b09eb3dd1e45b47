SPECIFICATION EitherSpec
CONSTANTS
  j1 = j1
  j2 = j2
  j3 = j3
  p1 = p1
  p2 = p2
  s1 = s1
  s2 = s2
  build = build
  test = test
  peer = peer
  op = op
  run = run
  None = None
  Act = {}
  Name = {build, test}
  Holder = {op, peer}
  Actor = {op, peer}
  Use = {run}
  Scope = {}
  Job = {j1, j2, j3}
  ActorCap = 2
  WorkerCap = 1
  Stoppers = {"operator", "host"}
  MaxRestarts = 0
  Proposals <- ProposeOne
  request <- Locals
  WatchJobs <- TwoWatched
  WatchPasses <- TwoPasses
  Threshold = 2
  IdleAfter = 2
  ReEmit = 2
  MaxTime = 5
  MaxStarts = 1
INVARIANTS SlotsHold SilencesReported
SYMMETRY Alike
PROPERTY EndIsFinal
