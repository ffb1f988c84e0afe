CONSTANTS
  InitSeq = 1
  Window0 = 1
  MaxPending = 2
  Adaptive = TRUE
  WindowMax = 8
  CheckEvery = 1
  RecoveryBatch = 1
  SwitchToB = 1
  SwitchToA = 1
  HasRecovery = TRUE
  NumQueues <- OneWorkerEach
  QueueCap = 1
  OutCap = 1
  RequestCap = 1
  Seqs = {1, 2, 3, 4, 5, 6, 7, 8, 9}
  Feed <- WideningFeeds
SPECIFICATION RecoverySpec
CHECK_DEADLOCK FALSE
INVARIANT NoAlias
