SPECIFICATION CalibrationSpec
CONSTANTS
  one = one
  other = other
  Nodes <- MCNodes
  Rounds = 2
  Considered = 1
  Transit = {2, 4}
  Pauses = {2}
INVARIANTS DelaysMeasured
PROPERTIES ConstructorEnds
CHECK_DEADLOCK FALSE
