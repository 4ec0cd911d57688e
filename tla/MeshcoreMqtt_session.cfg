SPECIFICATION FairSpec
CONSTANTS
  Clients = {c1, c2, c3}
  Topics = {p, q}
  None = None
  MaxRetries = 2
  MaxCalls = 3
INVARIANTS TypeOK OneSession NoLimbo UpIsSubscribed
PROPERTIES HealthyIsLeftAlone WaitEnds
CHECK_DEADLOCK FALSE
