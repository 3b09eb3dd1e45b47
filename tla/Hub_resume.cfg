CONSTANTS
  Sessions = {"s1"}
  Streams = {"k1"}
  Publishers = {"p1", "p2"}
  PageLimit = 1
  MaxEvents = 3
SPECIFICATION Spec
CHECK_DEADLOCK FALSE
INVARIANTS ResumeMissesNothing
