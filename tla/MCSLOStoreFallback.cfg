SPECIFICATION Spec
CONSTANTS
  Requests = {r1, r2, r3}
  MaxRecords = 2
  MaxAge = 9
  MaxTime = 4
SYMMETRY Symmetry
INVARIANTS ResponseTellsFallback
CHECK_DEADLOCK FALSE
