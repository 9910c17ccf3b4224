SPECIFICATION MiniSpec
CONSTANTS
  Samples <- MCSamples
  Slope = 1
  Offset = 1
  Ordered = TRUE
  Loguru = TRUE
  CounterLimit = 100
  MaxCalls = 4
  Times = {0, 1, 4, 5}
  Delays = {0, 3, 4}
INVARIANTS DriftNotNegative
CHECK_DEADLOCK FALSE
