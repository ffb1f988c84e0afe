CONSTANTS
  InitSeq = 1
  Window0 = 1
  MaxPending = 1
  Adaptive = FALSE
  WindowMax = 1
  CheckEvery = 1
  RecoveryBatch = 1
  SwitchToB = 1
  SwitchToA = 1
  HasRecovery = TRUE
  NumQueues <- TwoWorkersOnA
  QueueCap = 1
  OutCap = 1
  RequestCap = 1
  Seqs = {1, 2}
SPECIFICATION FairSpec
CHECK_DEADLOCK FALSE
PROPERTIES ImplementsReorderBuffer InSequenceForwarded FeedsDrained
