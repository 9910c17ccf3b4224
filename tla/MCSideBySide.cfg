SPECIFICATION SideSpec
CONSTANTS
  Samples <- MCSamples
  Slope = 1
  Offset = 1
  Ordered = TRUE
  Loguru = TRUE
  CounterLimit = 100
  MaxCalls = 5
  Times = {0, 1, 2, 3, 4}
  Delays = {0, 1}
INVARIANTS MiniNoWorseInDoubt
PROPERTIES MiniOptimal
CHECK_DEADLOCK FALSE
