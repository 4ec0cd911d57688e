SPECIFICATION FairSpec
CONSTANTS
  MaxRows = 3
  Legacy = {1}
  Panels = {p1, p2}
  Paced = TRUE
  Overlap = FALSE
  MaxFaults = 2
  MaxRetries = 1
INVARIANTS TypeOK SentOnce NothingLost
PROPERTIES DrainEnds
CHECK_DEADLOCK FALSE
