SPECIFICATION EitherSpec
CONSTANTS
  s1 = s1
  c1 = c1
  c2 = c2
  r1 = r1
  merge = merge
  None = None
  Scope = {s1}
  Act = {merge}
  Actor = {}
  Use = {}
  Call = {c1, c2}
  Revoker = {r1}
  Every = 2
  NewCaps = {1}
  MaxRestarts = 1
  Cadences = {"every-action", "every-5-actions", "every-15-min", "on-completion-only"}
  Concurrency = 2
  MaxRetries = 1
  MaxReplans = 1
  Plans <- ThreePlans
  Proposals <- TwoUses
  act <- Merging
INVARIANT ReportsTrue HostCommandsHonest
PROPERTY EndsReported BomKeepsPlan WorkEnds
CHECK_DEADLOCK FALSE
