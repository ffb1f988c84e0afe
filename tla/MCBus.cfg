CONSTANTS
  Capacity = 2
  Sessions = {s1, s2}
  Orders = {o1}
  Instruments = {1}
  FromSeqs <- FromAnywhere
  ConsumeTrades = TRUE
  WireCap = 1
  MaxFrames = 4
SPECIFICATION FairSpec
INVARIANTS TypeOK InstrumentNumbered NoSilentLoss GapExact
PROPERTIES SessionAdvances
CHECK_DEADLOCK FALSE
