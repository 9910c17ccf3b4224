SPECIFICATION FairSpec
CONSTANTS
  SeqLimit = 2
  QueueLimit <- MCQueueLimit
  Compatible = {TRUE, FALSE}
  Foreign <- MCForeign
  MaxStrays = 1
PROPERTIES HandshakeEnds KeepsSynchronizing
CHECK_DEADLOCK FALSE
