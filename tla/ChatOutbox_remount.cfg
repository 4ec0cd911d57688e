SPECIFICATION Spec
CONSTANTS
  MaxRows = 2
  Legacy = {}
  Panels = {p1, p2}
  Paced = TRUE
  Overlap = TRUE
  MaxFaults = 0
  MaxRetries = 0
INVARIANTS StuckIsInterrupted
CHECK_DEADLOCK FALSE
