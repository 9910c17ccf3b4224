SPECIFICATION Spec
CONSTANTS
  Timeout = 6
  Period = 2
  SeqLimit = 3
  SyncBeacon = 1
  SyncReply = 0
  RefBeacon = 1
  RefReply = 1
  MinLatency = 2
  MaxLatency = 2
  QueueLimit = 2
  RefDelay = 1
  Compatible = {TRUE, FALSE}
  Foreign <- MCForeign
  MaxFaults = 1
  MaxNow = 18
INVARIANTS TypeOK SamplesSound Connected PeersStay
PROPERTIES SamplesInOrder ExchangeSpec
CHECK_DEADLOCK FALSE
