SPECIFICATION Spec
CONSTANTS
  k1 = k1
  k2 = k2
  meshtastic = meshtastic
  meshcore = meshcore
  d1 = d1
  d2 = d2
  Calls = {k1, k2}
  Sessions = {meshtastic, meshcore}
  Devices = {d1}
  Addressed = {d1}
  None = None
  Requests <- AnyRequest
INVARIANTS YieldIsExclusive
CHECK_DEADLOCK FALSE
