CONSTANTS
  Capacity = 4
  Sessions = {endpointA, endpointB}
  Orders = {o1}
  Instruments = {1}
  FromSeqs <- FromTail
  ConsumeTrades = FALSE
  WireCap = 2
  MaxFrames = 2
SPECIFICATION ClientSpec
INVARIANT FirstFrameKept
CHECK_DEADLOCK FALSE
