CONSTANTS
  Instrs = {i1}
  Ids = {o1, o2, o3, o4}
  Prices = {1, 3}
  Qtys = {1}
  Tick = 1
  Span = 2
  ConsumeTrades = FALSE
  MaxOrders = 4
  AvoidSplit = FALSE
SYMMETRY IdSymmetry
SPECIFICATION RestartSpec
INVARIANT StatePreserved
