CONSTANTS
  Instrs = {i1}
  Ids = {o1, o2, o3}
  Prices = {1, 2, 4}
  Qtys = {1, 2}
  Tick = 1
  Span = 2
  ConsumeTrades = TRUE
  MaxOrders = 3
  AvoidSplit = TRUE
SYMMETRY IdSymmetry
SPECIFICATION RestartSpec
INVARIANTS TypeOK IndexMatchesSlab BboExact LevelsExact
PROPERTIES ImplementsPriceTime
