SPECIFICATION Spec
CONSTANTS
  Requests = {r1, r2, r3, r4}
  Configs <- MCConfigs
  DefaultLimit = 2
  Int32Half = 4
INVARIANTS TypeOK InflightIsHolders RejectBound
PROPERTIES GateSpec EveryCallSettles
CHECK_DEADLOCK FALSE
