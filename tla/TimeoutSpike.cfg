SPECIFICATION SpikeSpec
CONSTANTS
  Minute = 3
  Threshold = 3
  MaxBurst = 3
INVARIANTS SignalMatchesMinute
