SPECIFICATION Spec
CONSTANTS
  Clients = {c1, c2, c3}
  Prefixes = {p}
  None = None
  MaxRetries = 2
  MaxCalls = 1
SYMMETRY Symmetry
INVARIANTS UpIsSubscribed
CHECK_DEADLOCK FALSE
