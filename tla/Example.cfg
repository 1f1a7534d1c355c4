SPECIFICATION LiveSpec
CONSTANTS
  s = s
  r = r
  a = a
  Node = {s, r, a}
  Sink = s
  Setups <- BeaconsAndApp
  REBROADCAST_TIME = 4
  BEACONING_PERIOD = 12
  SETTLE = 4
  PERIOD = 6
  Requests = 2
INVARIANTS
  TypeOK
PROPERTIES
  BeaconSpacing
  BeaconsSpread
  ClosedFallsSilent
CHECK_DEADLOCK FALSE
