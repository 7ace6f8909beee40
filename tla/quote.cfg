CONSTANTS
  Scale = 10
  MaxU64 = 40
  BasePrices <- MCBasePrices
  Slopes <- MCSlopes
  Positions <- MCPositions
  Offers <- MCOffers
SPECIFICATION Spec
INVARIANTS
  TypeOK
  NewtonFromAbove
  IsqrtExact
  QuoteNearlyAffordable
  QuoteShortByOneQuantum
PROPERTIES
  QuoteAnswered
CHECK_DEADLOCK FALSE
