SPECIFICATION Spec
CONSTANTS
  a1 = a1
  a2 = a2
  a3 = a3
  a4 = a4
  a5 = a5
  a6 = a6
  Attempts <- SixAttempts
  Manual = Manual
  None = None
  MaxTries = 2
  MaxCalls = 4
INVARIANTS OneAttempt
CHECK_DEADLOCK FALSE
