SPECIFICATION FairSpec
CONSTANTS
  j1 = j1
  j2 = j2
  j3 = j3
  s1 = s1
  s2 = s2
  build = build
  test = test
  peer = peer
  op = op
  run = run
  None = None
  Act = {}
  Name = {build, test}
  Holder = {op, peer}
  Actor = {op, peer}
  Use = {run}
  Scope = {s1}
  Job = {j1, j2}
  ActorCap = 1
  WorkerCap = 1
  Stoppers = {"operator", "host"}
  MaxRestarts = 1
  Proposals <- ProposeOne
  request <- Granted
INVARIANT BudgetLedger
PROPERTY StartsWithinGrant JobsMoveOn
