SPECIFICATION EitherSpec
CONSTANTS
  Pids = {"p1", "p2", "p3"}
  NoPid = "none"
  Operators = {"operator"}
  Watchdog = "watchdog"
  FailThreshold = 2
  MayForce = TRUE
  MaxCommands = 2
  MaxFaults = 1
  Bricks = {"b1", "b2"}
  Requests = {"r1", "r2"}
INVARIANTS OneDaemon Findable InstalledIsRegistered
PROPERTY DaemonRecovers
