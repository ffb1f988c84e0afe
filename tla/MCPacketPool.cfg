CONSTANTS
  PoolSize = 6
  Batch = 2
  Workers = {"recvmmsg", "ring", "replay"}
  Kind <- OneOfEach
  QueueCap = 1
  MergeCap = 1
  OutCap = 1
SPECIFICATION Spec
INVARIANT AllocatesOnlyWhenAllInUse
