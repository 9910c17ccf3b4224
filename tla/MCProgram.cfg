SPECIFICATION Spec
CONSTANTS
  self = self
  other = other
  Nodes <- MCNodes
  Self = self
  Rounds = 1
  Considered = 1
  Transit = {2}
  Pauses = {0}
  MaxSamples = 2
  MaxSignals = 2
INVARIANTS OneSignalSaves
PROPERTIES Stops
CHECK_DEADLOCK FALSE
