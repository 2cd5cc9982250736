SPECIFICATION Spec
CONSTANTS
  Emitters = {m1, m2, m3}
  Kinds = {"metrics", "events"}
  BatchSize = 2
  Retries = 1
SYMMETRY Symmetry
INVARIANTS EachRecordInOnePlace FullBufferHasFlusher
CHECK_DEADLOCK FALSE
