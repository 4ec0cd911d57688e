SPECIFICATION FairSpec
CONSTANTS
  Clients = {c1, c2, c3}
  Prefixes = {p, q}
  None = None
  MaxRetries = 2
  MaxCalls = 3
INVARIANTS TypeOK OneSession NoLimbo
PROPERTIES HealthyIsLeftAlone ImplementsBudget Settles
CHECK_DEADLOCK FALSE
