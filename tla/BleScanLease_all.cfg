SPECIFICATION FairSpec
CONSTANTS
  Clients = {yield, poll}
  Sessions = {meshtastic, meshcore}
  Nobody = Nobody
  Darwin = TRUE
  MaxStarts = 2
  MaxPowerCycles = 1
INVARIANTS TypeOK LeaseCounted
PROPERTIES LeaseNotStolen ScanResumes
CHECK_DEADLOCK FALSE
