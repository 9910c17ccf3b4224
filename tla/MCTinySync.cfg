SPECIFICATION TinySpec
CONSTANTS
  Samples <- MCSamples
  Slope = 1
  Offset = 1
  Ordered = TRUE
  Loguru = TRUE
  CounterLimit = 4
  MaxCalls = 6
  Times = {0, 1, 2, 3, 4, 5}
  Delays = {0, 1, 3}
INVARIANTS TypeOK CurrentStored DriftNotNegativeInDoubt TinyBounded
PROPERTIES ErrorsNeverGrow BaseSpec
CHECK_DEADLOCK FALSE
