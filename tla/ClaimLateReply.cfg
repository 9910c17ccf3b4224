SPECIFICATION Spec
CONSTANTS
  Timeout = 3
  Period = 2
  SeqLimit = 3
  SyncBeacon = 1
  SyncReply = 0
  RefBeacon = 0
  RefReply = 1
  MinLatency = 1
  MaxLatency = 2
  QueueLimit = 2
  RefDelay = 1
  Compatible = {TRUE}
  Foreign <- MCForeign
  MaxFaults = 1
  MaxNow = 13
INVARIANTS SamplesSound
CHECK_DEADLOCK FALSE
