SPECIFICATION Spec
CONSTANTS
  Requests = {r1, r2, r3}
  MaxRecords = 2
  MaxAge = 1
  MaxTime = 4
SYMMETRY Symmetry
INVARIANTS KeptRecordTellsTruth SamplesAreWhole
PROPERTIES TouchExpires
CHECK_DEADLOCK FALSE
