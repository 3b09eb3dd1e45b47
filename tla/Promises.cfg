SPECIFICATION EitherSpec
CONSTANTS
  approve = approve
  reject = reject
  loopback = loopback
  notify = notify
  peer = peer
  Decision = {d1}
  Option <- MCOption
  Actor <- MCActor
  Operator <- MCOperator
  SwitchDefault = SwitchDefault
  None = None
  JobKinds = {"process", "http", "mcp", "attach"}
  JobCallers = {"a", "b"}
  PlanRequests = {"r1"}
  Missed = 3
  MaxMail = 2
INVARIANTS OneAnswer ClosedRightly
PROPERTIES KeepsPromise RequesterReleased KeepsJobPromise HandleKeepsWord StressEmptiesTheHost GatedCallsEnd
