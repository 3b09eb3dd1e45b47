SPECIFICATION EitherSpec
CONSTANTS
  Transports = {"t1", "t2", "t3"}
  InitialBackoff = 1
  MaxBackoff = 2
  ResetAfterClean = 1
  GiveUpAfter = 3
  MaxOutages = 1
  Clients = {"m1", "m2"}
  Tokens = {"k1", "k2"}
  Calls = {"c1", "c2"}
  UnreachableToDown = 2
  DegradedToDown = 3
  SettleWindow = 4
  Ladder <- TwoRungs
  Stability = 1
  Kinds = {"approval"}
  DebounceWindow = 1
  MuteWindows = {1}
  Staleness = 0
  MaxChanges = 3
INVARIANTS TransportsHold RoleGivenOnce
PROPERTIES GovernorSeesTruth Reattaches
CHECK_DEADLOCK FALSE
