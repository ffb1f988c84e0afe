CONSTANTS
  Refs = {r1, r2, r3}
  Prices = {1, 2}
  Qtys = {1, 3}
  ConsumeTrades = FALSE
SYMMETRY RefSymmetry
SPECIFICATION Spec
INVARIANTS TypeOK BookMatchesVenue TableInBook FollowedExact
