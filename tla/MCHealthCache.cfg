SPECIFICATION Spec
CONSTANTS
  Callers = {c1, c2, c3}
  Backends = 2
  TTL = 2
  PerCheck = 2
INVARIANTS StalenessBounded
PROPERTIES SnapshotLivesTTL EveryCallerAnswered
CHECK_DEADLOCK FALSE
