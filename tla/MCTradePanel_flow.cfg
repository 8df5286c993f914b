SPECIFICATION Spec
CONSTANTS
  None = None
  ADA = ADA
  Gold = Gold
  Pair <- AdaToGold
  Amounts = {None, 4}
  MinPartialSpend = 1
  MaxOrdersPerTx = 1
  MaxEdits = 3
  MaxQuotes = 3
  MaxClicks = 2
  MaxMounts = 2
  InitialBook <- Books
INVARIANTS
  RouteBudget
  BatchesInOrder
  RestingRouteCurrent
PROPERTY
  LatestAnswerShown
