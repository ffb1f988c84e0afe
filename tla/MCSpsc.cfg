CONSTANTS
  Cap = 2
  Wrap = 6
  Items = {v1, v2, v3}
  MaxSpins = 1
SPECIFICATION FairSpec
INVARIANTS TypeOK NoSlotConflict ProducerLenBounded
PROPERTIES ImplementsFifo BlockingPushEnds QueueMoves
