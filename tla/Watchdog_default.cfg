SPECIFICATION Spec
CONSTANTS
  Jobs = {j1}
  Passes = {p1}
  Threshold = 5
  IdleAfter = 5
  ReEmit = 15
  MaxTime = 6
  MaxStarts = 0
PROPERTY StaleWasReported
CHECK_DEADLOCK FALSE
