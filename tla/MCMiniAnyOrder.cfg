SPECIFICATION MiniSpec
CONSTANTS
  Samples <- MCSamples
  Slope = 1
  Offset = 1
  Ordered = FALSE
  Loguru = FALSE
  CounterLimit = 4
  MaxCalls = 5
  Times = {0, 1, 2, 3}
  Delays = {0, 1}
INVARIANTS EstimateSound CacheComplete CachePruned
PROPERTIES FailedForGood
CHECK_DEADLOCK FALSE
