SPECIFICATION MiniSpec
CONSTANTS
  Samples <- MCSamples
  Slope = 1
  Offset = 1
  Ordered = TRUE
  Loguru = TRUE
  CounterLimit = 5
  MaxCalls = 5
  Times = {0, 1, 2, 3, 4}
  Delays = {0, 1, 2}
INVARIANTS MiniTypeOK EstimateSound SlopesCached LookupsSucceed DriftNotNegativeInDoubt
PROPERTIES ErrorsNeverGrow BaseSpec
CHECK_DEADLOCK FALSE
